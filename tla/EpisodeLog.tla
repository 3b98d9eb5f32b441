----------------------------- MODULE EpisodeLog -----------------------------
(***************************************************************************)
(* What recording promises: frames are collected into the current episode, *)
(* which is appended to the log as a whole or not at all; a crash loses    *)
(* the current episode and episodes of the session that crashed, never one *)
(* of a session that was finished in order.                                *)
(***************************************************************************)
EXTENDS Naturals, SequencesExt

CONSTANT Frame

VARIABLES
  log,      \* the episodes saved, each a sequence of frames
  current,  \* the frames of the episode being recorded
  safe      \* how many episodes of the log belong to finished sessions

Init == log = <<>> /\ current = <<>> /\ safe = 0

(* One frame, or several that were held back until now.                     *)
Record == /\ IsStrictPrefix(current, current')
          /\ \A i \in (Len(current) + 1)..Len(current') : current'[i] \in Frame
          /\ UNCHANGED <<log, safe>>

Save == /\ current # <<>>
        /\ log' = Append(log, current)
        /\ current' = <<>>
        /\ UNCHANGED safe

Discard == current' = <<>> /\ UNCHANGED <<log, safe>>

Finish == safe' = Len(log) /\ UNCHANGED <<log, current>>

Crash == /\ \E n \in safe..Len(log) : log' = SubSeq(log, 1, n)
         /\ current' = <<>>
         /\ UNCHANGED safe

Next == Record \/ Save \/ Discard \/ Finish \/ Crash

Spec == Init /\ [][Next]_<<log, current, safe>>
=============================================================================
