---------------------------- MODULE RTCInference ----------------------------
(***************************************************************************)
(* The asynchronous inference engine of a rollout                          *)
(* (rollout/inference/rtc.py) with its action queue                        *)
(* (policies/rtc/action_queue.py): a background thread turns the last      *)
(* published observation into a chunk of actions and merges the chunk into *)
(* the queue the control loop pops from.                                   *)
(*                                                                         *)
(* What an observation, a chunk or an action contains is abstracted to the *)
(* stretch of autonomous control it was observed in: stretch n is the time *)
(* between the n-th return of control to the policy and the next pause.    *)
(* The queue is the sequence of actions not yet consumed (queue[last_index:]*)
(* in the code), and a queue of None is the empty one.                     *)
(***************************************************************************)
EXTENDS Integers, Sequences

CONSTANTS
  ChunkLen,          \* actions of a predicted chunk
  QueueThreshold,    \* _rtc_queue_threshold
  WarmupInferences,  \* max(1, _compile_warmup_inferences)
  MaxErrors,         \* _RTC_MAX_CONSECUTIVE_ERRORS
  RtcModes,          \* values of RTCConfig.enabled to start with
  CompileModes,      \* values of _use_torch_compile to start with
  NoObs              \* _obs_holder["obs"] is None

ASSUME EngineAssumption ==
  /\ ChunkLen \in Nat \ {0}
  /\ QueueThreshold \in Nat
  /\ WarmupInferences \in Nat \ {0}
  /\ MaxErrors \in Nat \ {0}
  /\ RtcModes \subseteq BOOLEAN
  /\ CompileModes \subseteq BOOLEAN
  /\ NoObs \notin Nat

VARIABLES
  rtc_enabled,       \* self.cfg.enabled of the queue
  use_torch_compile, \* self._use_torch_compile
  policy_active,     \* self._policy_active.is_set()
  stopping,          \* self._shutdown_event.is_set()
  shutdown_event,    \* self._global_shutdown_event.is_set()
  rtc_error,         \* self._rtc_error.is_set()
  warmup_done,       \* self._compile_warmup_done.is_set()
  obs_holder,        \* stretch of the published observation
  queue,             \* stretches of the actions in the queue
  rtc,               \* where the background thread is
  obs,               \* its local: stretch of the observation it works on
  inference_count,   \* its local, counted up to WarmupInferences
  errors,            \* its local consecutive_errors
  late               \* history: chunks merged since policy_active was cleared

configVars == <<rtc_enabled, use_torch_compile>>
threadVars == <<rtc, obs, inference_count, errors>>
engineVars == <<configVars, policy_active, stopping, shutdown_event, rtc_error,
                warmup_done, obs_holder, queue, threadVars, late>>

EngineTypeOK ==
  /\ rtc_enabled \in BOOLEAN
  /\ use_torch_compile \in BOOLEAN
  /\ policy_active \in BOOLEAN
  /\ stopping \in BOOLEAN
  /\ shutdown_event \in BOOLEAN
  /\ rtc_error \in BOOLEAN
  /\ warmup_done \in BOOLEAN
  /\ obs_holder \in Nat \cup {NoObs}
  /\ queue \in Seq(Nat)
  /\ rtc \in {"loop", "observe", "size", "infer", "merged", "fatal", "exited"}
  /\ obs \in Nat \cup {NoObs}
  /\ inference_count \in 0..WarmupInferences
  /\ errors \in 0..MaxErrors
  /\ late \in Nat

(* After reset, start and resume, where a control loop begins.              *)
EngineInit ==
  /\ rtc_enabled \in RtcModes
  /\ use_torch_compile \in CompileModes
  /\ policy_active = TRUE
  /\ stopping = FALSE
  /\ shutdown_event = FALSE
  /\ rtc_error = FALSE
  /\ warmup_done = ~use_torch_compile
  /\ obs_holder = NoObs
  /\ queue = <<>>
  /\ rtc = "loop"
  /\ obs = NoObs
  /\ inference_count = 0
  /\ errors = 0
  /\ late = 0

-----------------------------------------------------------------------------
(* Called by the control loop. Each states the variables it changes; the    *)
(* caller states that the others stay.                                      *)

Pause == policy_active' = FALSE /\ UNCHANGED late
Resume == policy_active' = TRUE /\ late' = 0

(* The policy's and the processors' own state is not modelled: reset clears *)
(* the queue, and neither the published observation nor a running inference.*)
Reset == queue' = <<>>

Notify(stretch) == obs_holder' = stretch

-----------------------------------------------------------------------------
(* _rtc_loop *)

RtcGoto(from, to) == rtc = from /\ rtc' = to

flagVars == <<configVars, policy_active, stopping, shutdown_event>>

\* mutant: an inactive engine goes on as long as an observation is held
CheckActiveOnce ==
  /\ rtc = "loop"
  /\ rtc' = IF stopping THEN "exited" ELSE IF policy_active \/ obs # NoObs THEN "observe" ELSE "loop"
  /\ UNCHANGED <<flagVars, rtc_error, warmup_done, obs_holder, queue,
                 obs, inference_count, errors, late>>

(* while not shutdown: if not active: sleep                                 *)
CheckActive ==
  /\ \/ stopping /\ RtcGoto("loop", "exited")
     \/ ~stopping /\ policy_active /\ RtcGoto("loop", "observe")
  /\ UNCHANGED <<flagVars, rtc_error, warmup_done, obs_holder, queue,
                 obs, inference_count, errors, late>>

TakeObservation ==
  /\ \/ obs_holder = NoObs /\ RtcGoto("observe", "loop")
     \/ obs_holder # NoObs /\ RtcGoto("observe", "size")
  /\ obs' = obs_holder
  /\ UNCHANGED <<flagVars, rtc_error, warmup_done, obs_holder, queue,
                 inference_count, errors, late>>

(* The queue is long enough, or the policy is called.                       *)
CheckSize ==
  /\ \/ Len(queue) > QueueThreshold /\ RtcGoto("size", "loop")
     \/ Len(queue) <= QueueThreshold /\ RtcGoto("size", "infer")
  /\ UNCHANGED <<flagVars, rtc_error, warmup_done, obs_holder, queue,
                 obs, inference_count, errors, late>>

Chunk == [i \in 1..ChunkLen |-> obs]

\* mutant: the old actions are appended to the new ones
MergeSwapped(delay) ==
  queue' = IF rtc_enabled THEN SubSeq(Chunk, delay + 1, ChunkLen) ELSE Chunk \o queue

(* Mode RTC replaces the queue by the chunk without the actions whose time  *)
(* passed during the inference; the other mode appends the chunk.           *)
Merge(delay) ==
  queue' = IF rtc_enabled THEN SubSeq(Chunk, delay + 1, ChunkLen) ELSE queue \o Chunk

InferenceSucceeds ==
  /\ RtcGoto("infer", "merged")
  /\ \E delay \in 0..ChunkLen : Merge(delay)
  /\ inference_count' = IF inference_count < WarmupInferences THEN inference_count + 1
                                                              ELSE inference_count
  /\ errors' = 0
  /\ late' = IF policy_active THEN late ELSE late + 1
  /\ UNCHANGED <<flagVars, rtc_error, warmup_done, obs_holder, obs>>

\* mutant: the warm-up waits for an inference more than it counts
WarmupStepLate ==
  /\ RtcGoto("merged", "loop")
  /\ warmup_done' = (warmup_done \/ inference_count > WarmupInferences)
  /\ UNCHANGED <<flagVars, rtc_error, obs_holder, queue, obs, inference_count, errors, late>>

(* The last warm-up inference lets the control loop go.                     *)
WarmupStep ==
  /\ RtcGoto("merged", "loop")
  /\ warmup_done' = (warmup_done \/ inference_count = WarmupInferences)
  /\ UNCHANGED <<flagVars, rtc_error, obs_holder, queue, obs, inference_count, errors, late>>

(* An exception is retried after a pause; MaxErrors in a row are fatal.     *)
InferenceFails ==
  /\ errors' = errors + 1
  /\ \/ errors' < MaxErrors /\ RtcGoto("infer", "loop")
     \/ errors' = MaxErrors /\ RtcGoto("infer", "fatal")
  /\ UNCHANGED <<flagVars, rtc_error, warmup_done, obs_holder, queue, obs, inference_count, late>>

\* mutant: a fatal error only ends the thread
FatalErrorQuiet ==
  /\ RtcGoto("fatal", "exited")
  /\ rtc_error' = TRUE
  /\ warmup_done' = TRUE
  /\ UNCHANGED <<configVars, policy_active, stopping, shutdown_event, obs_holder, queue,
                 obs, inference_count, errors, late>>

(* The three events are set one after the other; the control loop tells     *)
(* them apart only by looking at the last one later.                        *)
FatalError ==
  /\ RtcGoto("fatal", "exited")
  /\ rtc_error' = TRUE
  /\ warmup_done' = TRUE
  /\ shutdown_event' = TRUE
  /\ UNCHANGED <<configVars, policy_active, stopping, obs_holder, queue,
                 obs, inference_count, errors, late>>

RtcStep ==
  \/ CheckActive
  \/ TakeObservation
  \/ CheckSize
  \/ InferenceSucceeds
  \/ WarmupStep
  \/ InferenceFails
  \/ FatalError
=============================================================================
