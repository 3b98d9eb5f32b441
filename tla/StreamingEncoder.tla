-------------------------- MODULE StreamingEncoder --------------------------
(***************************************************************************)
(* StreamingVideoEncoder (datasets/video_utils.py): a thread per camera     *)
(* encodes the frames of the episode while it is recorded.  Frames go to    *)
(* it through a bounded queue; a frame is dropped when the queue stays full; *)
(* a sentinel ends the episode; a thread that fails leaves its error in a    *)
(* result queue.                                                            *)
(*                                                                          *)
(* A video is the sequence of its frames.  What a cancelled thread still     *)
(* does is left out: it has a queue, a result queue and a directory of its   *)
(* own, which nobody reads again.                                            *)
(***************************************************************************)
EXTENDS Naturals, Sequences

CONSTANTS
  NumCameras,  \* video keys, in their order in the frame
  QueueSize    \* queue_maxsize

ASSUME EncoderAssumption == {NumCameras, QueueSize} \subseteq Nat \ {0}

Camera == 1..NumCameras

VARIABLES
  active,    \* _episode_active
  alive,     \* the thread of the camera runs
  queue,     \* its frame queue
  result,    \* what its result queue holds
  stop,      \* its stop event
  video,     \* the frames it has encoded
  accepted,  \* history: the frames put in its queue
  dropped    \* history: the frames dropped in this episode

encoderVars == <<active, alive, queue, result, stop, video, accepted, dropped>>

Sentinel == 0
Frame == Nat \ {Sentinel}

EncoderTypeOK ==
  /\ active \in BOOLEAN
  /\ alive \in [Camera -> BOOLEAN]
  /\ queue \in [Camera -> Seq(Nat)]
  /\ \A c \in Camera : Len(queue[c]) <= QueueSize
  /\ result \in [Camera -> {"none", "ok", "error"}]
  /\ stop \in [Camera -> BOOLEAN]
  /\ video \in [Camera -> Seq(Frame)]
  /\ accepted \in [Camera -> Seq(Frame)]
  /\ dropped \in SUBSET (Camera \X Frame)

None(x) == [c \in Camera |-> x]

EncoderInit ==
  /\ active = FALSE
  /\ alive = None(FALSE)
  /\ queue = None(<<>>)
  /\ result = None("none")
  /\ stop = None(FALSE)
  /\ video = None(<<>>)
  /\ accepted = None(<<>>)
  /\ dropped = {}

-----------------------------------------------------------------------------
(* The calls of the control thread. *)

(* start_episode; an episode still active is cancelled, that is, forgotten. *)
StartEpisode ==
  /\ active' = TRUE
  /\ alive' = None(TRUE)
  /\ queue' = None(<<>>)
  /\ result' = None("none")
  /\ stop' = None(FALSE)
  /\ video' = None(<<>>)
  /\ accepted' = None(<<>>)
  /\ dropped' = {}

(* cancel_episode, and close.                                               *)
CancelEpisode ==
  /\ active' = FALSE
  /\ alive' = None(FALSE)
  /\ queue' = None(<<>>)
  /\ result' = None("none")
  /\ stop' = None(FALSE)
  /\ UNCHANGED <<video, accepted, dropped>>

Full(c) == Len(queue[c]) >= QueueSize

(* feed_frame: the frame is queued, or dropped when the queue stays full.   *)
Feed(c, frame) ==
  /\ active /\ alive[c]
  /\ IF Full(c)
       THEN dropped' = dropped \cup {<<c, frame>>} /\ UNCHANGED <<queue, accepted>>
       ELSE /\ queue' = [queue EXCEPT ![c] = Append(@, frame)]
            /\ accepted' = [accepted EXCEPT ![c] = Append(@, frame)]
            /\ UNCHANGED dropped
  /\ UNCHANGED <<active, alive, result, stop, video>>

(* feed_frame raises; the error is taken out of the result queue.           *)
FeedRaises(c) ==
  /\ active => ~alive[c]
  /\ result' = [result EXCEPT ![c] = "none"]
  /\ UNCHANGED <<active, alive, queue, stop, video, accepted, dropped>>

\* mutant: the sentinel is put once the queue is empty
PutSentinelLast(c) ==
  /\ active
  /\ queue[c] = <<>>
  /\ queue' = [queue EXCEPT ![c] = Append(@, Sentinel)]
  /\ UNCHANGED <<active, alive, result, stop, video, accepted, dropped>>

(* finish_episode: the sentinel is put without a timeout.                   *)
PutSentinel(c) ==
  /\ active
  /\ ~Full(c)
  /\ queue' = [queue EXCEPT ![c] = Append(@, Sentinel)]
  /\ UNCHANGED <<active, alive, result, stop, video, accepted, dropped>>

\* mutant: the status of the result is not looked at
CollectAny(c) == ~alive[c] /\ UNCHANGED encoderVars

(* join, and the result; a queue without one counts as a success.           *)
Collect(c) ==
  /\ ~alive[c]
  /\ result[c] # "error"
  /\ UNCHANGED encoderVars

CollectError(c) ==
  /\ ~alive[c]
  /\ result[c] = "error"
  /\ result' = [result EXCEPT ![c] = "none"]
  /\ UNCHANGED <<active, alive, queue, stop, video, accepted, dropped>>

JoinTimesOut(c) ==
  /\ alive[c]
  /\ stop' = [stop EXCEPT ![c] = TRUE]
  /\ UNCHANGED <<active, alive, queue, result, video, accepted, dropped>>

(* _cleanup: the queues are emptied, and the episode is over.               *)
Cleanup ==
  /\ active' = FALSE
  /\ queue' = None(<<>>)
  /\ UNCHANGED <<alive, result, stop, video, accepted, dropped>>

-----------------------------------------------------------------------------
(* _CameraEncoderThread.run. *)

Encode(c) ==
  /\ alive[c] /\ queue[c] # <<>> /\ Head(queue[c]) # Sentinel
  /\ queue' = [queue EXCEPT ![c] = Tail(@)]
  /\ video' = [video EXCEPT ![c] = Append(@, Head(queue[c]))]
  /\ UNCHANGED <<active, alive, result, stop, accepted, dropped>>

\* mutant: the end of the episode is seen before the frames that are queued
EndsAtOnce(c) ==
  /\ alive[c]
  /\ IF queue[c] # <<>> THEN \E i \in DOMAIN queue[c] : queue[c][i] = Sentinel ELSE stop[c]
  /\ alive' = [alive EXCEPT ![c] = FALSE]
  /\ result' = [result EXCEPT ![c] = "ok"]
  /\ queue' = [queue EXCEPT ![c] = IF @ = <<>> THEN @ ELSE Tail(@)]
  /\ UNCHANGED <<active, stop, video, accepted, dropped>>

(* The sentinel, or an empty queue and the stop event.                      *)
Ends(c) ==
  /\ alive[c]
  /\ IF queue[c] # <<>> THEN Head(queue[c]) = Sentinel ELSE stop[c]
  /\ alive' = [alive EXCEPT ![c] = FALSE]
  /\ result' = [result EXCEPT ![c] = "ok"]
  /\ queue' = [queue EXCEPT ![c] = IF @ = <<>> THEN @ ELSE Tail(@)]
  /\ UNCHANGED <<active, stop, video, accepted, dropped>>

(* Encoding or closing fails: what was queued stays there.                  *)
EncodeFails(c) ==
  /\ alive[c] /\ queue[c] # <<>>
  /\ alive' = [alive EXCEPT ![c] = FALSE]
  /\ result' = [result EXCEPT ![c] = "error"]
  /\ queue' = [queue EXCEPT ![c] = Tail(@)]
  /\ UNCHANGED <<active, stop, video, accepted, dropped>>

Thread(c) == Encode(c) \/ Ends(c) \/ EncodeFails(c)
=============================================================================
