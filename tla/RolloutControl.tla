--------------------------- MODULE RolloutControl ---------------------------
(***************************************************************************)
(* A DAgger rollout: the control loop (rollout/strategies/dagger.py and    *)
(* core.py) hands the robot back and forth between the policy, driven by   *)
(* the RTC engine's thread, and an operator whose key presses arrive on a  *)
(* listener thread (DAggerEvents).  Recording is left out here: the two    *)
(* recording modes share this control flow.                                *)
(***************************************************************************)
EXTENDS RTCInference

CONSTANTS
  Multiplier,     \* interpolation_multiplier
  TeleopModes,    \* values of teleop_supports_feedback(teleop) to start with
  MaxHandovers,   \* bound: returns of control to the policy
  NoAction        \* last_action, _prev or _pending_transition is None

ASSUME ControlAssumption ==
  /\ Multiplier \in Nat \ {0}
  /\ TeleopModes \subseteq BOOLEAN
  /\ MaxHandovers \in Nat
  /\ NoAction \notin Nat \cup {"policy", "teleop", "pause_resume", "correction"}

VARIABLES
  main,            \* where the control loop is
  phase,           \* self._events._phase
  pending,         \* self._events._pending_transition
  stop_recording,  \* self._events.stop_recording.is_set()
  actuated,        \* teleop_supports_feedback(teleop)
  last_action,     \* who produced last_action
  prev,            \* interpolator._prev: stretch it was popped in
  buffer,          \* interpolator._buffer[_idx:]
  warmup_flushed,  \* self._warmup_flushed
  stretch,         \* history: number of returns of control to the policy
  robot,           \* history: who produced the last command of the robot
  aligned,         \* external: the teleoperator holds the robot's pose
  executed         \* history: the last action of the policy that was sent

controlVars == <<main, phase, pending, stop_recording, actuated, last_action, prev, buffer,
                 warmup_flushed, stretch, robot, aligned, executed>>
vars == <<engineVars, controlVars>>

(* An interpolated action: the stretch observed by the plan it moves to,    *)
(* and the stretch in which the older of the two actions it lies between    *)
(* was popped.                                                              *)
Interpolated == [plan : Nat, since : Nat]

Phases == {"autonomous", "paused", "correcting"}
Events == {"pause_resume", "correction"}

Transitions ==
  { <<"autonomous", "pause_resume", "paused">>,
    <<"paused", "pause_resume", "autonomous">>,
    <<"paused", "correction", "correcting">>,
    <<"correcting", "correction", "paused">> }

IsValid(p, e) == \E q \in Phases : <<p, e, q>> \in Transitions

TypeOK ==
  /\ EngineTypeOK
  /\ main \in {"top", "pause", "reset", "resume", "act", "warmup", "flush", "send",
               "pausing", "stopping", "stopped"}
  /\ phase \in Phases
  /\ pending \in Events \cup {NoAction}
  /\ stop_recording \in BOOLEAN
  /\ actuated \in BOOLEAN
  /\ last_action \in {"policy", "teleop", NoAction}
  /\ prev \in Nat \cup {NoAction}
  /\ buffer \in Seq(Interpolated)
  /\ warmup_flushed \in BOOLEAN
  /\ stretch \in Nat
  /\ robot \in {"start", "policy", "teleop"}
  /\ aligned \in BOOLEAN
  /\ executed \in [plan : Nat, at : Nat]

Init ==
  /\ EngineInit
  /\ main = "top"
  /\ phase = "autonomous"
  /\ pending = NoAction
  /\ stop_recording = FALSE
  /\ actuated \in TeleopModes
  /\ last_action = NoAction
  /\ prev = NoAction
  /\ buffer = <<>>
  /\ warmup_flushed = FALSE
  /\ stretch = 0
  /\ robot = "start"
  /\ aligned = FALSE
  /\ executed = [plan |-> 0, at |-> 0]

-----------------------------------------------------------------------------
(* The listener thread. *)

Listening == main \notin {"stopping", "stopped"}

\* mutant: the request is not checked against the phase
RequestAny ==
  \E e \in Events :
    /\ Listening
    /\ phase = "paused" /\ e = "pause_resume" => stretch < MaxHandovers
    /\ pending' = e
    /\ UNCHANGED <<engineVars, main, phase, stop_recording, actuated, last_action, prev, buffer,
                   warmup_flushed, stretch, robot, aligned, executed>>

(* request_transition: a valid request replaces the one not yet consumed.   *)
RequestTransition ==
  \E e \in Events :
    /\ Listening
    /\ IsValid(phase, e)
    /\ phase = "paused" /\ e = "pause_resume" => stretch < MaxHandovers
    /\ pending' = e
    /\ UNCHANGED <<engineVars, main, phase, stop_recording, actuated, last_action, prev, buffer,
                   warmup_flushed, stretch, robot, aligned, executed>>

StopRecording ==
  /\ Listening
  /\ stop_recording' = TRUE
  /\ UNCHANGED <<engineVars, main, phase, pending, actuated, last_action, prev, buffer,
                 warmup_flushed, stretch, robot, aligned, executed>>

-----------------------------------------------------------------------------
(* The control loop. *)

(* What the loop never changes of the engine.                               *)

threadOnly == <<configVars, shutdown_event, rtc_error, warmup_done, threadVars>>

Goto(from, to) == main = from /\ main' = to

LeaveLoop ==
  /\ Goto("top", "pausing")
  /\ UNCHANGED <<engineVars, phase, pending, stop_recording, actuated, last_action, prev, buffer,
                 warmup_flushed, stretch, robot, aligned, executed>>

LoopStopped == (stop_recording \/ shutdown_event) /\ LeaveLoop

(* The duration limit, or the number of episodes asked for.                 *)
LoopDone == LeaveLoop

Goes == main = "top" /\ ~stop_recording /\ ~shutdown_event

\* mutant: a correction is not interrupted
NoTransitionCorrecting ==
  /\ Goes
  /\ IsValid(phase, pending) => phase = "correcting"
  /\ pending' = IF IsValid(phase, pending) THEN pending ELSE NoAction
  /\ main' = "act"
  /\ UNCHANGED <<engineVars, phase, stop_recording, actuated, last_action, prev, buffer,
                 warmup_flushed, stretch, robot, aligned, executed>>

(* Nothing to consume; a request that is not valid would be dropped.        *)
NoTransition ==
  /\ Goes
  /\ ~IsValid(phase, pending)
  /\ pending' = NoAction
  /\ main' = "act"
  /\ UNCHANGED <<engineVars, phase, stop_recording, actuated, last_action, prev, buffer,
                 warmup_flushed, stretch, robot, aligned, executed>>

(* consume_transition, and the parts of _apply_transition that concern      *)
(* neither the engine nor the interpolator.                                 *)
Consume(from, to) ==
  /\ Goes
  /\ phase = from
  /\ <<from, pending, to>> \in Transitions
  /\ phase' = to
  /\ pending' = NoAction

(* The leader arm, if it has motors, moves to the robot's last command.     *)
ConsumePause ==
  /\ Consume("autonomous", "paused")
  /\ main' = "pause"
  /\ aligned' = (actuated /\ last_action # NoAction)
  /\ UNCHANGED <<engineVars, stop_recording, actuated, last_action, prev, buffer,
                 warmup_flushed, stretch, robot, executed>>

(* Otherwise the robot slides to the operator's hand.                       *)
ConsumeCorrection ==
  /\ Consume("paused", "correcting")
  /\ main' = "act"
  /\ IF ~actuated /\ last_action # NoAction
       THEN aligned' = TRUE /\ robot' = "teleop"
       ELSE UNCHANGED <<aligned, robot>>
  /\ UNCHANGED <<engineVars, stop_recording, actuated, last_action, prev, buffer,
                 warmup_flushed, stretch, executed>>

(* Motors hold the leader arm; a hand without motors moves away.            *)
ConsumeCorrectionEnd ==
  /\ Consume("correcting", "paused")
  /\ main' = "act"
  /\ aligned' = actuated
  /\ UNCHANGED <<engineVars, stop_recording, actuated, last_action, prev, buffer,
                 warmup_flushed, stretch, robot, executed>>

ConsumeReturn ==
  /\ Consume("paused", "autonomous")
  /\ main' = "reset"
  /\ stretch' = stretch + 1
  /\ UNCHANGED <<engineVars, stop_recording, actuated, last_action, prev, buffer,
                 warmup_flushed, robot, aligned, executed>>

ApplyPause ==
  /\ Goto("pause", "act")
  /\ Pause
  /\ UNCHANGED <<threadOnly, stopping, obs_holder, queue, phase, pending, stop_recording, actuated,
                 last_action, prev, buffer, warmup_flushed, stretch, robot, aligned, executed>>

ResetInterpolator == prev' = NoAction /\ buffer' = <<>>

ApplyReset ==
  /\ Goto("reset", "resume")
  /\ ResetInterpolator
  /\ Reset
  /\ UNCHANGED <<threadOnly, policy_active, stopping, obs_holder, late, phase, pending,
                 stop_recording, actuated, last_action, warmup_flushed, stretch, robot, aligned,
                 executed>>

ApplyResume ==
  /\ Goto("resume", "act")
  /\ Resume
  /\ last_action' = NoAction
  /\ aligned' = FALSE
  /\ UNCHANGED <<threadOnly, stopping, obs_holder, queue, phase, pending, stop_recording, actuated,
                 prev, buffer, warmup_flushed, stretch, robot, executed>>

-----------------------------------------------------------------------------
(* One tick, by phase. *)

Correct ==
  /\ phase = "correcting"
  /\ Goto("act", "top")
  /\ robot' = "teleop"
  /\ last_action' = "teleop"
  /\ aligned' = TRUE
  /\ UNCHANGED <<engineVars, phase, pending, stop_recording, actuated, prev, buffer,
                 warmup_flushed, stretch, executed>>

Hold ==
  /\ phase = "paused"
  /\ Goto("act", "top")
  /\ robot' = IF last_action # NoAction THEN last_action ELSE robot
  /\ UNCHANGED <<engineVars, phase, pending, stop_recording, actuated, last_action, prev, buffer,
                 warmup_flushed, stretch, aligned, executed>>

NeedsNewAction == buffer = <<>>

(* _process_observation_and_notify: the cached observation is None only     *)
(* while the buffer is empty too.                                           *)
NotifyObservation ==
  /\ phase = "autonomous"
  /\ Goto("act", "warmup")
  /\ IF NeedsNewAction THEN Notify(stretch) ELSE UNCHANGED obs_holder
  /\ UNCHANGED <<threadOnly, policy_active, stopping, queue, late, phase, pending, stop_recording,
                 actuated, last_action, prev, buffer, warmup_flushed, stretch, robot, aligned,
                 executed>>

(* _handle_warmup *)
HandleWarmup ==
  /\ \/ use_torch_compile /\ ~warmup_done /\ Goto("warmup", "top")
     \/ use_torch_compile /\ warmup_done /\ ~warmup_flushed /\ Goto("warmup", "flush")
     \/ (use_torch_compile => warmup_done /\ warmup_flushed) /\ Goto("warmup", "send")
  /\ UNCHANGED <<engineVars, phase, pending, stop_recording, actuated, last_action, prev, buffer,
                 warmup_flushed, stretch, robot, aligned, executed>>

FlushWarmup ==
  /\ Goto("flush", "send")
  /\ ResetInterpolator
  /\ Reset
  /\ Resume
  /\ warmup_flushed' = TRUE
  /\ UNCHANGED <<threadOnly, stopping, obs_holder, phase, pending, stop_recording, actuated,
                 last_action, stretch, robot, aligned, executed>>

(* ActionInterpolator.add *)
Steps(plan) ==
  IF Multiplier > 1 /\ prev # NoAction
    THEN [i \in 1..Multiplier |-> [plan |-> plan, since |-> prev]]
    ELSE << [plan |-> plan, since |-> stretch] >>

Execute(action) ==
  /\ executed' = [plan |-> action.plan, at |-> stretch]
  /\ robot' = "policy"
  /\ last_action' = "policy"

(* send_next_action: the next interpolated action, after a pop if there is  *)
(* none; nothing when the queue is empty too.                               *)
SendNextAction ==
  /\ Goto("send", "top")
  /\ \/ /\ ~NeedsNewAction
        /\ Execute(Head(buffer))
        /\ buffer' = Tail(buffer)
        /\ UNCHANGED <<queue, prev>>
     \/ /\ NeedsNewAction /\ queue # <<>>
        /\ queue' = Tail(queue)
        /\ Execute(Head(Steps(Head(queue))))
        /\ buffer' = Tail(Steps(Head(queue)))
        /\ prev' = stretch
     \/ /\ NeedsNewAction /\ queue = <<>>
        /\ UNCHANGED <<queue, prev, buffer, executed, robot, last_action>>
  /\ UNCHANGED <<threadOnly, policy_active, stopping, obs_holder, late, phase, pending,
                 stop_recording, actuated, warmup_flushed, stretch, aligned>>

-----------------------------------------------------------------------------
(* The end: engine.pause, then in the teardown engine.stop, whose join      *)
(* gives up after _RTC_JOIN_TIMEOUT_S.                                      *)

PauseEngine ==
  /\ Goto("pausing", "stopping")
  /\ Pause
  /\ UNCHANGED <<threadOnly, stopping, obs_holder, queue, phase, pending, stop_recording, actuated,
                 last_action, prev, buffer, warmup_flushed, stretch, robot, aligned, executed>>

StopEngine ==
  /\ Goto("stopping", "stopped")
  /\ stopping' = TRUE
  /\ Pause
  /\ UNCHANGED <<threadOnly, obs_holder, queue, phase, pending, stop_recording, actuated,
                 last_action, prev, buffer, warmup_flushed, stretch, robot, aligned, executed>>

ControlStep ==
  \/ NoTransition
  \/ ConsumePause
  \/ ConsumeCorrection
  \/ ConsumeCorrectionEnd
  \/ ConsumeReturn
  \/ ApplyPause
  \/ ApplyReset
  \/ ApplyResume
  \/ Correct
  \/ Hold
  \/ NotifyObservation
  \/ HandleWarmup
  \/ FlushWarmup
  \/ SendNextAction
  \/ LoopStopped
  \/ PauseEngine
  \/ StopEngine

EngineStep == RtcStep /\ UNCHANGED controlVars

Finished == main = "stopped" /\ rtc = "exited" /\ UNCHANGED vars

Next ==
  \/ ControlStep
  \/ EngineStep
  \/ RequestTransition
  \/ StopRecording
  \/ LoopDone
  \/ Finished

(* Both threads are scheduled; the operator and the time limit owe nothing. *)
Fairness == WF_vars(ControlStep) /\ WF_vars(EngineStep)

Spec == Init /\ [][Next]_vars
FairSpec == Spec /\ Fairness

-----------------------------------------------------------------------------
(* Properties.                                                              *)

(* The policy's plans only move forward: once an action planned from an      *)
(* observation of one stretch was sent, no action planned from an earlier    *)
(* stretch is, although chunks are computed concurrently with pauses, resets *)
(* and interpolation.                                                        *)
PlansMoveForward == [][executed.plan <= executed'.plan]_vars

(* While the operator has the robot, the paused engine merges at most the    *)
(* one chunk it was already computing (pause() does not wait for it).        *)
AtMostOneLateChunk == late <= 1

(* The policy never moves the robot with an interpolated action left from    *)
(* before an intervention, nor between an action from before it and one from *)
(* after it: both ends of every interpolated action were popped in the       *)
(* current stretch.                                                          *)
NoBlendAcrossHandover ==
  main # "reset" => /\ prev \in {stretch, NoAction}
                    /\ \A i \in 1..Len(buffer) : buffer[i].since = stretch

(* "pause: robot holds its position": except where a correction takes over,  *)
(* last_action, which a paused loop sends again, is the robot's last command,*)
(* whoever gave it.                                                          *)
HoldsPosition ==
  last_action # NoAction /\ ~(main = "act" /\ phase = "correcting") => robot = last_action

(* A request of the operator that waits is one the state machine has a       *)
(* transition for when the loop consumes it: no key press is dropped.        *)
PendingIsValid == pending # NoAction => IsValid(phase, pending)

(* A correction starts without a jump of the robot if the policy commanded   *)
(* it since it last got control.                                             *)
SmoothAfterAction ==
  main = "act" /\ phase = "correcting" /\ ~aligned => last_action = NoAction

(* What a change of hands brings the robot: one chunk too late at most,      *)
(* nothing blended across it, its own position while it is held, and no jump *)
(* where a correction starts.                                                *)
HandoverSafe ==
  /\ AtMostOneLateChunk /\ NoBlendAcrossHandover
  /\ HoldsPosition /\ SmoothAfterAction

(* Does not hold, see the README: "Slide the follower to the teleop's current pose so the robot meets the   *)
(* operator's hand rather than jumping to it on the first frame".            *)
SmoothTakeover == main = "act" /\ phase = "correcting" => aligned

(* A persistent inference error ends the rollout.                            *)
FailureStops == rtc_error ~> main = "stopped"

(* A request is consumed, or the rollout ends.                               *)
RequestConsumed == pending # NoAction ~> pending = NoAction \/ main = "stopped"

(* "Unblock any warmup waiters so the main loop doesn't spin forever": while *)
(* the policy has control the warm-up ends, unless one of its chunks left    *)
(* the queue over the threshold, which nobody pops from before it has ended. *)
WarmupStallsOnlyFull ==
  <>[](phase = "autonomous" /\ main # "stopped") =>
     <>warmup_done \/ <>[](Len(queue) > QueueThreshold)

-----------------------------------------------------------------------------
(* The inductive invariant of the proofs.                                   *)

(* Plans age along the pipeline: observation, chunk, queue, buffer, robot.  *)
PlanOrder ==
  /\ obs_holder # NoObs => obs_holder <= stretch
  /\ obs # NoObs => obs_holder # NoObs /\ obs <= obs_holder /\ executed.plan <= obs
  /\ obs = NoObs => queue = <<>> /\ executed.plan = 0
  /\ rtc \in {"size", "infer", "merged", "fatal"} => obs # NoObs
  /\ \A i \in 1..Len(queue) : executed.plan <= queue[i] /\ queue[i] <= obs
  /\ \A i, j \in 1..Len(queue) : i <= j => queue[i] <= queue[j]
  /\ \A i \in 1..Len(buffer) : executed.plan = buffer[i].plan

(* The engine is active, and the loop acts for the policy, only while the   *)
(* policy has control.                                                      *)
ActiveWhileAutonomous ==
  /\ phase # "autonomous" => main \notin {"reset", "resume", "warmup", "flush", "send"}
  /\ main = "pause" => phase = "paused"
  /\ policy_active /\ phase # "autonomous" => main = "pause"

(* A thread at work on an observation began before the pause.               *)
LateInv ==
  /\ policy_active \/ rtc \in {"observe", "size", "infer"} => late = 0
  /\ AtMostOneLateChunk

TakeoverInv ==
  /\ SmoothAfterAction
  /\ main = "top" /\ phase = "correcting" => aligned
  /\ phase = "paused" /\ actuated /\ last_action # NoAction => aligned

IInv ==
  /\ TypeOK
  /\ PlanOrder
  /\ ActiveWhileAutonomous
  /\ LateInv
  /\ NoBlendAcrossHandover
  /\ HoldsPosition
  /\ TakeoverInv
  /\ PendingIsValid
=============================================================================
