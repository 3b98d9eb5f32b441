------------------------ MODULE RecordingStrategies ------------------------
(***************************************************************************)
(* The rollout strategies that record (rollout/strategies/sentry.py,       *)
(* dagger.py in both modes, highlight.py, episodic.py) on top of the       *)
(* dataset writer: the control loop captures frames and saves episodes, a  *)
(* one-thread executor uploads the dataset to the Hub in the background,   *)
(* and the teardown finalises and uploads once more.  The operator and the *)
(* clock choose when an episode ends.                                      *)
(*                                                                         *)
(* One session that is not killed (DatasetWriter has crashes).  Frames are *)
(* numbered as they are captured; what is never recorded - a pause, a      *)
(* reset phase - takes a number too, so that frames on its two sides are   *)
(* not consecutive.  push_to_hub is on.                                    *)
(***************************************************************************)
EXTENDS DatasetWriter

CONSTANTS
  Strategies,   \* the strategies to start with
  UploadEvery,  \* upload_every_n_episodes
  NumEpisodes,  \* num_episodes
  RingFrames,   \* RolloutRingBuffer._max_frames
  RingBytes,    \* RolloutRingBuffer._max_bytes, in frames
  MaxCaptures,  \* bound: number of the last frame captured to the ring buffer
  MaxPushes     \* bound: pushes the operator asks for

ASSUME StrategyAssumption ==
  /\ Strategies \subseteq {"sentry", "continuous", "corrections", "highlight", "episodic"}
  /\ {UploadEvery, NumEpisodes, RingFrames, RingBytes} \subseteq Nat \ {0}
  /\ {MaxCaptures, MaxPushes} \subseteq Nat

VARIABLES
  strategy,         \* cfg.strategy.type, and the mode of dagger
  main,             \* where the control thread is
  ending,           \* it is past the loop, in the finally block
  lock,             \* _episode_lock
  needs_push,       \* _needs_push.is_set()
  queued,           \* pushes submitted to _push_executor and not done
  pusher,           \* where the push that runs is
  snapshot,         \* the data files it has read
  hub,              \* external: what the Hub holds
  failed,           \* history: an upload of the teardown failed
  shutdown,         \* shutdown_event, stop_recording
  save_requested,   \* highlight: _save_requested
  push_requested,   \* highlight: _push_requested; dagger: upload_requested
  live,             \* highlight: _recording_live
  ring,             \* highlight: the frames of the ring buffer
  ring_bytes,       \* highlight: ring._current_bytes
  emptied,          \* history: clock when the ring buffer was last empty
  phase,            \* dagger: DAggerPhase
  rerecord,         \* episodic: events["rerecord_episode"]
  exit_early,       \* episodic: events["exit_early"]
  count,            \* episodes recorded (since the last push in the sentry modes)
  pushes            \* number of pushes asked for so far

pushVars == <<lock, needs_push, queued, pusher, snapshot, hub, failed>>
ringVars == <<live, ring, ring_bytes, emptied>>
keyVars == <<shutdown, save_requested, push_requested, rerecord, exit_early, pushes>>
vars == <<writerVars, strategy, main, ending, pushVars, ringVars, keyVars, phase, count>>

Snapshot == [rows : Nat, closed : BOOLEAN]
Hub == [rows : Nat, frames : Nat, episodes : Nat, known : Nat, readable : BOOLEAN]

TypeOK ==
  /\ WriterTypeOK
  /\ strategy \in Strategies
  /\ main \in {"loop", "rotate", "reset", "decide", "wait", "saving", "saved", "final", "exit",
               "teardown", "push", "pushing", "uploading", "done"}
  /\ ending \in BOOLEAN
  /\ lock \in {"free", "main", "push"}
  /\ needs_push \in BOOLEAN
  /\ queued \in Nat
  /\ pusher \in {"idle", "data", "metadata", "clear"}
  /\ snapshot \in Snapshot
  /\ hub \in Hub
  /\ failed \in BOOLEAN
  /\ {shutdown, save_requested, push_requested, rerecord, exit_early, live} \subseteq BOOLEAN
  /\ ring \in Seq(Nat)
  /\ ring_bytes \in Nat
  /\ emptied \in Nat
  /\ phase \in {"autonomous", "paused", "correcting"}
  /\ count \in Nat
  /\ pushes \in Nat

Init ==
  /\ WriterInit
  /\ strategy \in Strategies
  /\ main = "loop"
  /\ ending = FALSE
  /\ lock = "free"
  /\ needs_push = FALSE
  /\ queued = 0
  /\ pusher = "idle"
  /\ snapshot = [rows |-> 0, closed |-> TRUE]
  /\ hub = [rows |-> 0, frames |-> 0, episodes |-> 0, known |-> 0, readable |-> TRUE]
  /\ failed = FALSE
  /\ shutdown = FALSE
  /\ save_requested = FALSE
  /\ push_requested = FALSE
  /\ live = FALSE
  /\ ring = <<>>
  /\ ring_bytes = 0
  /\ emptied = 0
  /\ phase = "autonomous"
  /\ rerecord = FALSE
  /\ exit_early = FALSE
  /\ count = 0
  /\ pushes = 0

Rotates == strategy \in {"sentry", "continuous"}
Dagger == strategy \in {"continuous", "corrections"}
Flagged == strategy \in {"sentry", "continuous", "corrections"}

-----------------------------------------------------------------------------
(* Keys and signals. *)

Listening == main \notin {"teardown", "push", "pushing", "uploading", "done"}

Shutdown ==
  /\ Listening /\ ~shutdown
  /\ shutdown' = TRUE
  /\ save_requested' = FALSE
  /\ UNCHANGED <<writerVars, strategy, main, ending, pushVars, ringVars, push_requested, rerecord,
                 exit_early, pushes, phase, count>>

PressSave ==
  /\ Listening /\ strategy = "highlight" /\ ~save_requested
  /\ save_requested' = TRUE
  /\ UNCHANGED <<writerVars, strategy, main, ending, pushVars, ringVars, shutdown, push_requested,
                 rerecord, exit_early, pushes, phase, count>>

PressPush ==
  /\ Listening /\ strategy \in {"highlight", "corrections"} /\ pushes < MaxPushes
  /\ push_requested' = TRUE
  /\ pushes' = pushes + 1
  /\ UNCHANGED <<writerVars, strategy, main, ending, pushVars, ringVars, shutdown, save_requested,
                 rerecord, exit_early, phase, count>>

(* Right arrow, or left arrow, which also discards the episode.             *)
PressArrow ==
  /\ Listening /\ strategy = "episodic"
  /\ exit_early' = TRUE
  /\ rerecord' \in {rerecord, TRUE}
  /\ UNCHANGED <<writerVars, strategy, main, ending, pushVars, ringVars, shutdown, save_requested,
                 push_requested, pushes, phase, count>>

-----------------------------------------------------------------------------
(* Frames. *)

(* What a step of the control thread that records nothing leaves alone.     *)
Aside == UNCHANGED <<strategy, ending, pushVars, ringVars, keyVars, phase, count>>

Goto(from, to) == main = from /\ main' = to

(* The loop ends: signal, duration, number of episodes, or an exception of  *)
(* robot or policy.                                                         *)
LeaveLoop ==
  /\ main \in {"loop", "reset"}
  /\ main' = "final"
  /\ Aside /\ UNCHANGED writerVars

Goes == main = "loop" /\ ~shutdown

NextStep == IF Rotates THEN "rotate" ELSE "loop"

(* The tick of a recording loop: a frame, no action to record, or an error. *)
Records == \/ strategy = "sentry"
           \/ strategy = "continuous" /\ phase # "paused"
           \/ strategy = "corrections" /\ phase = "correcting"
           \/ strategy = "episodic" /\ ~exit_early

Tick == Goes /\ Records /\ AddFrame /\ main' = NextStep /\ Aside

TickWithoutFrame ==
  /\ Goes /\ Rotates
  /\ main' = NextStep
  /\ Aside /\ UNCHANGED writerVars

TickFails == Goes /\ Records /\ AddFrameFails /\ main' = "final" /\ Aside

-----------------------------------------------------------------------------
(* Sentry, and DAgger in continuous mode: the duration ends an episode. *)

KeepEpisode == Goto("rotate", "loop") /\ Aside /\ UNCHANGED writerVars

Rotate ==
  /\ Goto("rotate", "wait")
  /\ phase # "correcting"
  /\ Aside /\ UNCHANGED writerVars

-----------------------------------------------------------------------------
(* DAgger: the phases, of which only the recording is modelled here (see    *)
(* RolloutControl).                                                         *)

PhaseChanges == {<<"autonomous", "paused">>, <<"paused", "autonomous">>,
                 <<"paused", "correcting">>, <<"correcting", "paused">>}

(* What is not recorded takes a number, if frames can still follow it.      *)
NextTake == clock' = IF clock < MaxFrames THEN clock + 1 ELSE clock

(* In corrections-only mode the end of a correction saves the episode.      *)
ChangePhase ==
  /\ Goes /\ Dagger
  /\ strategy = "corrections" => count < NumEpisodes
  /\ \E next \in {"autonomous", "paused", "correcting"} :
       /\ <<phase, next>> \in PhaseChanges
       /\ phase' = next
  /\ NextTake
  /\ main' = IF strategy = "corrections" /\ phase = "correcting" THEN "wait" ELSE "loop"
  /\ UNCHANGED <<has_video, disk, memory, episode_buffer, saving, status, session, history,
                 strategy, ending, pushVars, ringVars, keyVars, count>>

(* The push key.  A push is skipped during a correction.                    *)
ServePush ==
  /\ Goes
  /\ push_requested
  /\ push_requested' = FALSE
  /\ queued' = IF Dagger /\ phase = "correcting" THEN queued ELSE queued + 1
  /\ UNCHANGED <<writerVars, strategy, main, ending, lock, needs_push, pusher, snapshot, hub,
                 failed, ringVars, shutdown, save_requested, rerecord, exit_early, pushes, phase,
                 count>>

-----------------------------------------------------------------------------
(* Highlight: frames go to the ring buffer until a key moves them to an     *)
(* episode, which goes on until the key is pressed again.                   *)

Drain == ring' = <<>> /\ ring_bytes' = 0 /\ emptied' = clock + 1

(* append: frames are dropped until the bytes of the new one fit; when only *)
(* the number of frames is exceeded, the deque drops one and its bytes stay *)
(* counted.                                                                 *)
Evicted == IF ring_bytes + 1 > RingBytes THEN Min({ring_bytes + 1 - RingBytes, Len(ring)}) ELSE 0

Bounded(frames) == IF Len(frames) > RingFrames THEN Tail(frames) ELSE frames

RingAppend(f) ==
  /\ ring' = Bounded(Append(SubSeq(ring, Evicted + 1, Len(ring)), f))
  /\ ring_bytes' = ring_bytes + 1 - Evicted

CaptureToRing ==
  /\ Goes /\ strategy = "highlight" /\ ~save_requested /\ ~live
  /\ clock < MaxCaptures
  /\ clock' = clock + 1
  /\ RingAppend(clock + 1)
  /\ UNCHANGED <<has_video, disk, memory, episode_buffer, saving, status, session, history,
                 strategy, main, ending, pushVars, live, emptied, keyVars, phase, count>>

CaptureLive ==
  /\ Goes /\ strategy = "highlight" /\ ~save_requested /\ live
  /\ AddFrame
  /\ UNCHANGED <<strategy, main, ending, pushVars, ringVars, keyVars, phase, count>>

(* The save key starts an episode with what the ring buffer holds.          *)
StartEpisode ==
  /\ Goes /\ save_requested /\ ~live
  /\ clock < MaxFrames
  /\ clock' = clock + 1
  /\ save_requested' = FALSE
  /\ live' = TRUE
  /\ episode_buffer' = [episode_buffer EXCEPT !.frames = (@ \o ring) \o <<clock + 1>>]
  /\ Drain
  /\ UNCHANGED <<has_video, disk, memory, saving, status, session, history, strategy, main,
                 ending, pushVars, shutdown, push_requested, rerecord, exit_early, pushes, phase,
                 count>>

(* The save key ends the episode with the frame just captured.              *)
EndEpisode ==
  /\ Goes /\ save_requested /\ live
  /\ AddFrame
  /\ save_requested' = FALSE
  /\ main' = "wait"
  /\ UNCHANGED <<strategy, ending, pushVars, ringVars, shutdown, push_requested, rerecord,
                 exit_early, pushes, phase, count>>

HighlightFails ==
  /\ Goes /\ strategy = "highlight" /\ (live \/ save_requested)
  /\ AddFrameFails
  /\ IF live THEN UNCHANGED ringVars ELSE Drain /\ UNCHANGED live
  /\ save_requested' = FALSE
  /\ main' = "final"
  /\ UNCHANGED <<strategy, ending, pushVars, shutdown, push_requested, rerecord, exit_early,
                 pushes, phase, count>>

-----------------------------------------------------------------------------
(* Episodic: the policy loop, the reset phase, and the decision to keep or  *)
(* to discard the episode.                                                  *)

(* A reset phase follows unless recording is to stop.                       *)
ResetFollows == count < NumEpisodes - 1 \/ rerecord

(* _policy_loop ends: time, key or shutdown.  Only an end by the key clears *)
(* it: one pressed too late ends the loop that follows.  The reset phase is *)
(* entered after a signal, not after the stop key.                          *)
EndPolicyLoop ==
  /\ strategy = "episodic" /\ main = "loop"
  /\ exit_early' \in {exit_early, FALSE}
  /\ \/ main' = "reset" /\ ResetFollows
     \/ main' = "decide" /\ (shutdown \/ ~ResetFollows)
  /\ UNCHANGED <<writerVars, strategy, ending, pushVars, ringVars, shutdown, save_requested,
                 push_requested, rerecord, pushes, phase, count>>

EndResetLoop ==
  /\ Goto("reset", "decide")
  /\ exit_early' \in {exit_early, FALSE}
  /\ UNCHANGED <<writerVars, strategy, ending, pushVars, ringVars, shutdown, save_requested,
                 push_requested, rerecord, pushes, phase, count>>

(* The loop over the episodes goes on.                                      *)
NextEpisode(recorded) ==
  IF strategy = "episodic" /\ (shutdown \/ recorded >= NumEpisodes) THEN "final" ELSE "loop"

\* mutant: the frames of the attempt are kept
RerecordKeeping ==
  /\ Goto("decide", NextEpisode(count))
  /\ rerecord
  /\ rerecord' = FALSE
  /\ exit_early' = FALSE
  /\ NextTake
  /\ UNCHANGED <<episode_buffer, has_video, disk, memory, saving, status, session, history,
                 strategy, ending, pushVars, ringVars, shutdown, save_requested, push_requested,
                 pushes, phase, count>>

Rerecord ==
  /\ Goto("decide", NextEpisode(count))
  /\ rerecord
  /\ rerecord' = FALSE
  /\ exit_early' = FALSE
  /\ episode_buffer' = EmptyBuffer(info.episodes)
  /\ NextTake
  /\ UNCHANGED <<has_video, disk, memory, saving, status, session, history, strategy, ending,
                 pushVars, ringVars, shutdown, save_requested, push_requested, pushes, phase,
                 count>>

Keep ==
  /\ Goto("decide", "wait")
  /\ ~rerecord
  /\ Aside /\ UNCHANGED writerVars

-----------------------------------------------------------------------------
(* save_episode, under the episode lock (which episodic, without a pusher,  *)
(* does not have).                                                          *)

KeepKeys == UNCHANGED <<strategy, keyVars, phase, needs_push, queued, pusher, snapshot, hub,
                        failed>>

AcquireToSave ==
  /\ Goto("wait", "saving")
  /\ lock = "free"
  /\ lock' = "main"
  /\ UNCHANGED <<writerVars, ending, ringVars, count>> /\ KeepKeys

SaveStep ==
  /\ main = "saving"
  /\ SaveData \/ SaveVideos
  /\ UNCHANGED <<main, ending, lock, ringVars, count>> /\ KeepKeys

SaveSucceeds ==
  /\ Goto("saving", "saved")
  /\ SaveMetadata
  /\ lock' = "free"
  /\ UNCHANGED <<ending, ringVars, count>> /\ KeepKeys

\* mutant: the lock is released only after a save that succeeds
SaveFailsLocked ==
  /\ main = "saving"
  /\ SaveVideosFails \/ SaveRaises
  /\ main' = IF ending THEN "exit" ELSE "final"
  /\ UNCHANGED <<lock, ending, ringVars, count>> /\ KeepKeys

(* The exception ends the loop; in the finally block it is suppressed.      *)
SaveFails ==
  /\ main = "saving"
  /\ SaveVideosFails \/ SaveRaises
  /\ main' = IF ending THEN "exit" ELSE "final"
  /\ lock' = "free"
  /\ UNCHANGED <<ending, ringVars, count>> /\ KeepKeys

\* mutant: no flag after an episode of the loop
AfterSaveUnflagged ==
  LET due == Rotates /\ ~ending /\ count + 1 >= UploadEvery IN
  /\ Goto("saved", IF ending THEN "exit" ELSE NextEpisode(count + 1))
  /\ needs_push' = (needs_push \/ (Flagged /\ ending))
  /\ queued' = IF due THEN queued + 1 ELSE queued
  /\ count' = IF due THEN 0 ELSE count + 1
  /\ live' = FALSE
  /\ emptied' = clock
  /\ UNCHANGED <<writerVars, strategy, ending, lock, pusher, snapshot, hub, failed, ring,
                 ring_bytes, keyVars, phase>>

(* The lock is released before the flag is set and a push submitted.        *)
AfterSave ==
  LET due == Rotates /\ ~ending /\ count + 1 >= UploadEvery IN
  /\ Goto("saved", IF ending THEN "exit" ELSE NextEpisode(count + 1))
  /\ needs_push' = (needs_push \/ Flagged)
  /\ queued' = IF due THEN queued + 1 ELSE queued
  /\ count' = IF due THEN 0 ELSE count + 1
  /\ live' = FALSE
  /\ emptied' = clock
  /\ UNCHANGED <<writerVars, strategy, ending, lock, pusher, snapshot, hub, failed, ring,
                 ring_bytes, keyVars, phase>>

(* The finally block saves what is left, and highlight only if it is live.  *)
SaveLast ==
  /\ Goto("final", IF strategy = "highlight" /\ ~live THEN "exit" ELSE "wait")
  /\ ending' = TRUE
  /\ UNCHANGED <<writerVars, lock, ringVars, count>> /\ KeepKeys

-----------------------------------------------------------------------------
(* The end: VideoEncodingManager finalises the dataset, the teardown waits  *)
(* for the executor and uploads once more.                                  *)

\* mutant: the dataset is uploaded without being finalised
ExitUnfinalized == Goto("exit", "teardown") /\ Aside /\ UNCHANGED writerVars

Exit == Goto("exit", "teardown") /\ Finalize /\ Aside

StopExecutor ==
  /\ Goto("teardown", "push")
  /\ queued = 0
  /\ Aside /\ UNCHANGED writerVars

Pushes == info.episodes > 0 /\ (Flagged => needs_push)

FinalPush ==
  /\ Goto("push", IF Pushes THEN "pushing" ELSE "done")
  /\ Aside /\ UNCHANGED writerVars

-----------------------------------------------------------------------------
(* An upload reads the data files and then the metadata. *)

ReadData == snapshot' = [rows |-> Len(Rows), closed |-> \A f \in DOMAIN data : data[f].closed]

Publish ==
  hub' = [rows |-> snapshot.rows, frames |-> info.frames, episodes |-> Len(episodes),
          known |-> info.episodes, readable |-> snapshot.closed /\ ~meta_writer]

ReadDataLast ==
  /\ Goto("pushing", "uploading")
  /\ ReadData
  /\ UNCHANGED <<writerVars, strategy, ending, lock, needs_push, queued, pusher, hub, failed,
                 ringVars, keyVars, phase, count>>

PublishLast ==
  /\ Goto("uploading", "done")
  /\ Publish
  /\ UNCHANGED <<writerVars, strategy, ending, lock, needs_push, queued, pusher, snapshot, failed,
                 ringVars, keyVars, phase, count>>

PublishLastFails ==
  /\ Goto("uploading", "done")
  /\ failed' = TRUE
  /\ UNCHANGED <<writerVars, strategy, ending, lock, needs_push, queued, pusher, snapshot, hub,
                 ringVars, keyVars, phase, count>>

(* The thread of the executor; the episode lock covers upload and flag.     *)
pusherOnly == <<writerVars, strategy, main, ending, failed, ringVars, keyVars, phase, count>>

StartPush ==
  /\ pusher = "idle" /\ queued > 0
  /\ lock = "free"
  /\ IF info.episodes = 0
       THEN queued' = queued - 1 /\ UNCHANGED <<lock, pusher>>
       ELSE lock' = "push" /\ pusher' = "data" /\ UNCHANGED queued
  /\ UNCHANGED <<pusherOnly, needs_push, snapshot, hub>>

PushData ==
  /\ pusher = "data" /\ pusher' = "metadata"
  /\ ReadData
  /\ UNCHANGED <<pusherOnly, lock, needs_push, queued, hub>>

PushMetadata ==
  /\ pusher = "metadata" /\ pusher' = "clear"
  /\ Publish
  /\ UNCHANGED <<pusherOnly, lock, needs_push, queued, snapshot>>

PushFails ==
  /\ pusher \in {"data", "metadata"} /\ pusher' = "idle"
  /\ queued' = queued - 1
  /\ lock' = "free"
  /\ UNCHANGED <<pusherOnly, needs_push, snapshot, hub>>

ClearNeedsPush ==
  /\ pusher = "clear" /\ pusher' = "idle"
  /\ needs_push' = FALSE
  /\ queued' = queued - 1
  /\ lock' = "free"
  /\ UNCHANGED <<pusherOnly, snapshot, hub>>

-----------------------------------------------------------------------------
Operator == Shutdown \/ PressSave \/ PressPush \/ PressArrow

Capture == \/ Tick \/ TickWithoutFrame \/ TickFails
           \/ KeepEpisode \/ Rotate \/ ChangePhase \/ ServePush
           \/ CaptureToRing \/ CaptureLive \/ StartEpisode \/ EndEpisode \/ HighlightFails
           \/ EndPolicyLoop \/ EndResetLoop \/ Rerecord \/ Keep

Ending == \/ LeaveLoop \/ SaveLast \/ AcquireToSave \/ SaveStep \/ SaveSucceeds \/ SaveFails
          \/ AfterSave \/ Exit \/ StopExecutor \/ FinalPush
          \/ ReadDataLast \/ PublishLast \/ PublishLastFails

Pusher == StartPush \/ PushData \/ PushMetadata \/ PushFails \/ ClearNeedsPush

RecordingNext == Operator \/ Capture \/ Ending \/ Pusher

RecordingSpec == Init /\ [][RecordingNext]_vars

(* The control thread and the thread of the executor are scheduled.         *)
FairRecording == RecordingSpec /\ WF_vars(Capture \/ Ending) /\ WF_vars(Pusher)

-----------------------------------------------------------------------------
(* An episode is one take: consecutive frames, with no pause, reset phase   *)
(* or discarded attempt in between (the continuous mode of DAgger records   *)
(* across pauses), and no frame is in two episodes.                         *)
OneTake ==
  /\ strategy # "continuous" =>
       \A i \in DOMAIN log : \A j \in 1..(Len(log[i]) - 1) : log[i][j + 1] = log[i][j] + 1
  /\ \A i, k \in DOMAIN log : i < k => Last(log[i]) < Head(log[k])

(* The ring buffer holds the latest frames, as many as fit: the bytes that  *)
(* append leaves counted never make it evict a frame that would fit.        *)
RingHoldsLatest ==
  ring # <<>> =>
    /\ Last(ring) = clock
    /\ \A j \in 1..(Len(ring) - 1) : ring[j + 1] = ring[j] + 1
    /\ Len(ring) < RingFrames /\ Len(ring) < RingBytes => Head(ring) = emptied + 1

(* What is captured: whole takes, and in the ring the latest of a take.     *)
TakesSound == OneTake /\ RingHoldsLatest

(* The Hub counts every episode and has its rows (and none beside them, as  *)
(* long as no failed save left some); it may lack the metadata of fewer     *)
(* episodes than metadata_buffer_size, and footers of its files.            *)
Uploaded ==
  /\ hub.known = info.episodes /\ hub.frames = info.frames
  /\ ~orphaned => hub.rows = info.frames
  /\ info.episodes < hub.episodes + MetadataBufferSize

(* While needs_push is clear the Hub counts every episode of info.json and  *)
(* has its rows: an episode whose rows were never uploaded is flagged.  The *)
(* flag says no more: a background push clears it although the Hub may miss *)
(* buffered metadata and footers, and the upload of the teardown, which     *)
(* would have brought them, is skipped then (AlwaysPublished).              *)
NeedsPushSound == Flagged /\ main # "saved" /\ ~needs_push => Uploaded

(* An upload never mixes the rows of one moment with the counts of another. *)
HubConsistent == ~orphaned => hub.rows = hub.frames

(* In the end the dataset is complete on disk, whatever failed.             *)
DoneComplete ==
  main = "done" => Readable /\ Len(episodes) = Len(log) /\ ReadBack

(* Unless the upload of the teardown failed, the Hub ends up with a         *)
(* readable dataset and every episode - or, where a background push had     *)
(* cleared needs_push, with the rows and counts of every episode only.      *)
DonePublished ==
  main = "done" /\ ~failed /\ info.episodes > 0 =>
    \/ hub.readable /\ hub.episodes = Len(log)
    \/ Flagged /\ ~needs_push /\ Uploaded

(* What has been saved, on disk and on the Hub, in the end and on the way.  *)
SavedSound == TypeOK /\ HubConsistent /\ DoneComplete /\ DonePublished

(* Does not hold: what is on the Hub in the end can be read there, also when a background    *)
(* push cleared the flag.  lerobot-dataset-v3.mdx:289 says "Always call finalize() before     *)
(* pushing".                                                                                 *)
AlwaysPublished ==
  main = "done" /\ ~failed /\ hub.known > 0 => hub.readable

(* A session asked to stop ends: saving and uploading never wait for each   *)
(* other for ever.                                                          *)
ShutdownEnds == shutdown ~> main = "done"
=============================================================================
