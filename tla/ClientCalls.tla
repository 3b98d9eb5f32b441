---------------------------- MODULE ClientCalls ----------------------------
(***************************************************************************)
(* The calls of a robot client at the policy server: its main thread and   *)
(* its receiver thread have one outstanding RPC each, which a worker of    *)
(* the server executes.                                                    *)
(***************************************************************************)
EXTENDS PolicyServer

CONSTANT
  NoCall         \* no RPC is outstanding

ASSUME CallsAssumption == NoCall \notin Workers

VARIABLES
  controlCall,   \* worker that serves the main thread's RPC
  receiverCall   \* worker that serves the receiver thread's RPC

callOf == <<controlCall, receiverCall>>

CallsTypeOK ==
  /\ ServerTypeOK
  /\ controlCall \in Workers \cup {NoCall}
  /\ receiverCall \in Workers \cup {NoCall}

CallsInit ==
  /\ ServerInit
  /\ controlCall = NoCall
  /\ receiverCall = NoCall

(* A handler whose client is gone ends without an audience.                 *)
OrphanReturn ==
  \E w \in Workers \ {controlCall, receiverCall} : Return(w) /\ UNCHANGED callOf
=============================================================================
