---------------------------- MODULE FrameMailbox ----------------------------
(***************************************************************************)
(* What pipelined retargeting promises the application of a TeleopSession: *)
(* frames are submitted one after the other, some of them are completed,   *)
(* never an older one after a newer one, and a step returns the newest     *)
(* completed frame.  -1 stands for no frame.                               *)
(***************************************************************************)
EXTENDS Integers

VARIABLES
  submitted,  \* the newest frame submitted
  completed,  \* the newest frame completed
  returned    \* the newest frame a step has returned

frameVars == <<submitted, completed, returned>>

Init ==
  /\ submitted = -1
  /\ completed = -1
  /\ returned = -1

Submit ==
  /\ submitted' = submitted + 1
  /\ UNCHANGED <<completed, returned>>

Complete ==
  /\ completed' \in (completed + 1) .. submitted
  /\ UNCHANGED <<submitted, returned>>

Return ==
  /\ completed >= 0
  /\ returned' = completed
  /\ UNCHANGED <<submitted, completed>>

(* The session is left; the next one starts anew.                           *)
Leave ==
  /\ submitted' = -1
  /\ completed' = -1
  /\ returned' = -1

Next == Submit \/ Complete \/ Return \/ Leave

Spec == Init /\ [][Next]_frameVars
=============================================================================
