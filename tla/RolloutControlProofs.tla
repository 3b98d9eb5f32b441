------------------------ MODULE RolloutControlProofs ------------------------
(***************************************************************************)
(* Proofs about RolloutControl, for every chunk length, queue threshold,   *)
(* warm-up, error limit, interpolation multiplier and number of handovers. *)
(* The invariant IInv says how old the plans are along the way from the    *)
(* observation to the robot, when the engine may be active and which       *)
(* command last_action is; it is inductive, and the safety properties of   *)
(* the rollout are its conjuncts or follow from it.                        *)
(***************************************************************************)
EXTENDS RolloutControl, TLAPS, SequenceTheorems

(* The engine starts well typed. *)
LEMMA EngineInitType == EngineInit => EngineTypeOK
<1> SUFFICES ASSUME EngineInit PROVE EngineTypeOK OBVIOUS
<1>1. rtc_enabled \in BOOLEAN /\ use_torch_compile \in BOOLEAN
  BY EngineAssumption DEF EngineInit
<1>2. warmup_done \in BOOLEAN BY DEF EngineInit
<1>3. queue \in Seq(Nat) BY DEF EngineInit
<1>4. inference_count \in 0..WarmupInferences /\ errors \in 0..MaxErrors /\ late \in Nat
  BY EngineAssumption DEF EngineInit
<1>5. obs \in Nat \cup {NoObs} /\ obs_holder \in Nat \cup {NoObs} BY DEF EngineInit
<1> QED BY <1>1, <1>2, <1>3, <1>4, <1>5, Zenon DEF EngineInit, EngineTypeOK

(* So does the rollout. *)
LEMMA InitType == Init => TypeOK
<1> SUFFICES ASSUME Init PROVE TypeOK OBVIOUS
<1>1. EngineTypeOK BY EngineInitType DEF Init
<1>2. actuated \in BOOLEAN BY ControlAssumption DEF Init
<1>3. buffer \in Seq(Interpolated) BY DEF Init
<1> QED BY <1>1, <1>2, <1>3 DEF Init, TypeOK, Phases

(* A chunk repeats its observation, and what is left of it after a delay    *)
(* does too.                                                                *)
LEMMA ChunkFacts ==
  ASSUME obs \in Nat, NEW delay \in 0..ChunkLen
  PROVE  /\ Chunk \in Seq(Nat)
         /\ Len(Chunk) = ChunkLen
         /\ SubSeq(Chunk, delay + 1, ChunkLen) \in Seq(Nat)
         /\ \A i \in 1..ChunkLen : Chunk[i] = obs
         /\ \A i \in 1..Len(SubSeq(Chunk, delay + 1, ChunkLen)) :
              SubSeq(Chunk, delay + 1, ChunkLen)[i] = obs
<1>1. Chunk \in Seq(Nat) /\ Len(Chunk) = ChunkLen /\ \A i \in 1..ChunkLen : Chunk[i] = obs
  BY EngineAssumption DEF Chunk
<1> QED BY <1>1, EngineAssumption

(* What a merge leaves in the queue: in order, and no younger than obs.     *)
LEMMA MergeFacts ==
  ASSUME obs \in Nat, queue \in Seq(Nat), NEW delay \in 0..ChunkLen, Merge(delay), NEW low \in Nat,
         low <= obs,
         \A i \in 1..Len(queue) : low <= queue[i] /\ queue[i] <= obs,
         \A i, j \in 1..Len(queue) : i <= j => queue[i] <= queue[j]
  PROVE  /\ queue' \in Seq(Nat)
         /\ \A i \in 1..Len(queue') : low <= queue'[i] /\ queue'[i] <= obs
         /\ \A i, j \in 1..Len(queue') : i <= j => queue'[i] <= queue'[j]
<1>1. CASE rtc_enabled
  <2>1. queue' = SubSeq(Chunk, delay + 1, ChunkLen) BY <1>1 DEF Merge
  <2>2. queue' \in Seq(Nat) /\ \A i \in 1..Len(queue') : queue'[i] = obs BY <2>1, ChunkFacts
  <2> QED BY <2>2
<1>2. CASE ~rtc_enabled
  <2>1. queue' = queue \o Chunk BY <1>2 DEF Merge
  <2>2. Chunk \in Seq(Nat) /\ Len(Chunk) = ChunkLen /\ \A i \in 1..ChunkLen : Chunk[i] = obs
    BY ChunkFacts
  <2>3. Len(queue) \in Nat /\ queue' \in Seq(Nat) /\ Len(queue') = Len(queue) + ChunkLen
    BY <2>1, <2>2, ConcatProperties, LenProperties
  <2>4. \A i \in 1..Len(queue') :
          queue'[i] = IF i <= Len(queue) THEN queue[i] ELSE Chunk[i - Len(queue)]
    BY <2>1, <2>2, <2>3, ConcatProperties
  <2>5. \A i \in 1..Len(queue') : i > Len(queue) => Chunk[i - Len(queue)] = obs
    <3> SUFFICES ASSUME NEW i \in 1..Len(queue'), i > Len(queue)
                 PROVE  i - Len(queue) \in 1..ChunkLen
      BY <2>2
    <3> QED BY <2>3, EngineAssumption
  <2>6. \A i \in 1..Len(queue') : queue'[i] = IF i <= Len(queue) THEN queue[i] ELSE obs
    BY <2>3, <2>4, <2>5
  <2>7. \A i \in 1..Len(queue) : queue[i] \in Nat BY ElementOfSeq
  <2>8. ASSUME NEW i \in 1..Len(queue')
        PROVE  low <= queue'[i] /\ queue'[i] <= obs
    <3>1. CASE i <= Len(queue)
      <4>1. i \in 1..Len(queue) BY <2>3, <3>1
      <4> QED BY <2>6, <3>1, <4>1
    <3>2. CASE ~(i <= Len(queue)) BY <2>6, <3>2
    <3> QED BY <3>1, <3>2
  <2>9. ASSUME NEW i \in 1..Len(queue'), NEW j \in 1..Len(queue'), i <= j
        PROVE  queue'[i] <= queue'[j]
    <3>1. CASE j <= Len(queue)
      <4>1. i \in 1..Len(queue) /\ j \in 1..Len(queue) BY <2>3, <2>9, <3>1
      <4>2. queue'[i] = queue[i] /\ queue'[j] = queue[j] BY <2>3, <2>6, <4>1
      <4> QED BY <2>9, <4>1, <4>2
    <3>2. CASE j > Len(queue)
      <4>1. queue'[j] = obs BY <2>3, <2>6, <3>2
      <4> QED BY <2>8, <4>1
    <3> QED BY <3>1, <3>2, <2>3
  <2> QED BY <2>3, <2>8, <2>9
<1> QED BY <1>1, <1>2

(* Popping an ordered queue leaves an ordered queue, above what was popped. *)
LEMMA TailFacts ==
  ASSUME queue \in Seq(Nat), queue # <<>>, NEW high \in Nat,
         \A i \in 1..Len(queue) : queue[i] <= high,
         \A i, j \in 1..Len(queue) : i <= j => queue[i] <= queue[j]
  PROVE  /\ Head(queue) \in Nat
         /\ Tail(queue) \in Seq(Nat)
         /\ \A i \in 1..Len(Tail(queue)) : Head(queue) <= Tail(queue)[i] /\ Tail(queue)[i] <= high
         /\ \A i, j \in 1..Len(Tail(queue)) : i <= j => Tail(queue)[i] <= Tail(queue)[j]
<1>1. Len(queue) \in Nat \ {0} /\ Head(queue) = queue[1] /\ queue[1] \in Nat BY Z3
<1>2. Tail(queue) \in Seq(Nat) /\ Len(Tail(queue)) = Len(queue) - 1 BY <1>1
<1>3. \A i \in 1..Len(Tail(queue)) : Tail(queue)[i] = queue[i + 1] BY <1>1, <1>2
<1> QED BY <1>1, <1>2, <1>3

(* The steps the interpolator makes of an action.                           *)
LEMMA StepsFacts ==
  ASSUME NEW plan \in Nat, stretch \in Nat, prev \in {stretch, NoAction}
  PROVE  /\ Steps(plan) \in Seq(Interpolated)
         /\ Steps(plan) # <<>>
         /\ \A i \in 1..Len(Steps(plan)) : Steps(plan)[i] = [plan |-> plan, since |-> stretch]
<1> DEFINE step == [plan |-> plan, since |-> stretch]
<1>1. step \in Interpolated BY DEF Interpolated
<1>2. CASE Multiplier > 1 /\ prev # NoAction
  <2>1. Steps(plan) = [i \in 1..Multiplier |-> step] BY <1>2 DEF Steps
  <2> HIDE DEF step
  <2>2. Steps(plan) \in Seq(Interpolated) /\ Len(Steps(plan)) = Multiplier
    BY <1>1, <2>1, ControlAssumption
  <2> QED BY <1>2, <2>1, <2>2, ControlAssumption DEF step
<1>3. CASE ~(Multiplier > 1 /\ prev # NoAction)
  BY <1>1, <1>3 DEF Steps
<1> QED BY <1>2, <1>3

-----------------------------------------------------------------------------
(* Types. *)

(* A step of the inference thread keeps the engine well typed.              *)
LEMMA RtcTypes ==
  ASSUME EngineTypeOK, RtcStep, rtc = "infer" => obs # NoObs
  PROVE  EngineTypeOK'
<1> USE EngineAssumption DEF EngineTypeOK, RtcGoto, flagVars, configVars
<1>1. CASE CheckActive BY <1>1 DEF CheckActive
<1>2. CASE TakeObservation BY <1>2 DEF TakeObservation
<1>3. CASE CheckSize BY <1>3 DEF CheckSize
<1>4. CASE InferenceSucceeds
  <2>1. PICK delay \in 0..ChunkLen : Merge(delay) BY <1>4 DEF InferenceSucceeds
  <2>2. obs \in Nat BY <1>4 DEF InferenceSucceeds
  <2>3. Chunk \in Seq(Nat) /\ SubSeq(Chunk, delay + 1, ChunkLen) \in Seq(Nat)
    BY <2>2, ChunkFacts
  <2>4. queue' \in Seq(Nat) BY <2>1, <2>3, ConcatProperties DEF Merge
  <2> QED BY <1>4, <2>4 DEF InferenceSucceeds
<1>5. CASE WarmupStep BY <1>5 DEF WarmupStep
<1>6. CASE InferenceFails BY <1>6 DEF InferenceFails
<1>7. CASE FatalError BY <1>7 DEF FatalError
<1> QED BY <1>1, <1>2, <1>3, <1>4, <1>5, <1>6, <1>7 DEF RtcStep

(* The buffer and the queue after SendNextAction, and what is executed.     *)
LEMMA SendTypes ==
  ASSUME TypeOK, NoBlendAcrossHandover, SendNextAction
  PROVE  /\ queue' \in Seq(Nat) /\ buffer' \in Seq(Interpolated)
         /\ prev' \in {prev, stretch}
         /\ executed' \in [plan : Nat, at : Nat]
<1> USE DEF TypeOK, EngineTypeOK
<1>1. CASE ~NeedsNewAction /\ main = "send"
  <2>1. buffer # <<>> BY <1>1 DEF NeedsNewAction
  <2>2. Head(buffer) \in Interpolated /\ Tail(buffer) \in Seq(Interpolated)
    BY <2>1, HeadTailProperties
  <2>3. UNCHANGED <<queue, prev>> /\ Execute(Head(buffer)) /\ buffer' = Tail(buffer)
    BY <1>1 DEF SendNextAction
  <2> QED BY <2>2, <2>3 DEF Execute, Interpolated
<1>2. CASE NeedsNewAction /\ queue # <<>> /\ main = "send"
  <2>1. Head(queue) \in Nat /\ Tail(queue) \in Seq(Nat) BY <1>2, HeadTailProperties
  <2>2. Steps(Head(queue)) \in Seq(Interpolated) /\ Steps(Head(queue)) # <<>>
    BY <1>2, <2>1, StepsFacts DEF NoBlendAcrossHandover
  <2>3. /\ Head(Steps(Head(queue))) \in Interpolated
        /\ Tail(Steps(Head(queue))) \in Seq(Interpolated)
    BY <2>2, HeadTailProperties
  <2>4. /\ queue' = Tail(queue) /\ prev' = stretch
        /\ Execute(Head(Steps(Head(queue)))) /\ buffer' = Tail(Steps(Head(queue)))
    BY <1>2 DEF SendNextAction
  <2> QED BY <2>1, <2>3, <2>4 DEF Execute, Interpolated
<1>3. CASE NeedsNewAction /\ queue = <<>>
  BY <1>3 DEF SendNextAction
<1> QED BY <1>1, <1>2, <1>3 DEF SendNextAction, Goto

(* What consuming a request changes of the phase and of the request.        *)
LEMMA ConsumeFacts ==
  ASSUME NEW from, NEW to, Consume(from, to)
  PROVE  main = "top" /\ phase = from /\ phase' = to /\ pending' = NoAction
BY DEF Consume, Goes

(* A step of the control loop keeps everything well typed.                  *)
LEMMA ControlTypes ==
  ASSUME TypeOK, NoBlendAcrossHandover, ControlStep
  PROVE  TypeOK'
<1> USE EngineAssumption, ControlAssumption
    DEF TypeOK, EngineTypeOK, engineVars, threadOnly, configVars, threadVars, Goto, Phases, Events
<1>1. CASE NoTransition BY <1>1 DEF NoTransition, Goes
<1>2. CASE ConsumePause BY <1>2, ConsumeFacts DEF ConsumePause
<1>3. CASE ConsumeCorrection
  <2>1. UNCHANGED engineVars BY <1>3 DEF ConsumeCorrection
  <2>2. main' = "act" /\ phase' = "correcting" /\ pending' = NoAction
    BY <1>3, ConsumeFacts DEF ConsumeCorrection
  <2>3. aligned' \in {aligned, TRUE} /\ robot' \in {robot, "teleop"}
    BY <1>3 DEF ConsumeCorrection
  <2>4. UNCHANGED <<stop_recording, actuated, last_action, prev, buffer, warmup_flushed, stretch,
                    executed>>
    BY <1>3 DEF ConsumeCorrection
  <2>5. EngineTypeOK' BY <2>1
  <2>6. aligned' \in BOOLEAN /\ robot' \in {"start", "policy", "teleop"} BY <2>3
  <2> QED BY <2>2, <2>4, <2>5, <2>6
<1>4. CASE ConsumeCorrectionEnd BY <1>4, ConsumeFacts DEF ConsumeCorrectionEnd
<1>5. CASE ConsumeReturn BY <1>5, ConsumeFacts DEF ConsumeReturn
<1>6. CASE ApplyPause
  <2>1. EngineTypeOK' BY <1>6 DEF ApplyPause, Pause
  <2> QED BY <1>6, <2>1 DEF ApplyPause
<1>7. CASE ApplyReset BY <1>7 DEF ApplyReset, Reset, ResetInterpolator
<1>8. CASE ApplyResume
  <2>1. EngineTypeOK' BY <1>8 DEF ApplyResume, Resume
  <2> QED BY <1>8, <2>1 DEF ApplyResume
<1>9. CASE Correct BY <1>9 DEF Correct
<1>10. CASE Hold BY <1>10 DEF Hold
<1>11. CASE NotifyObservation BY <1>11 DEF NotifyObservation, Notify
<1>12. CASE HandleWarmup BY <1>12 DEF HandleWarmup
<1>13. CASE FlushWarmup BY <1>13 DEF FlushWarmup, Reset, ResetInterpolator, Resume
<1>14. CASE SendNextAction BY <1>14, SendTypes DEF SendNextAction, Execute
<1>15. CASE LoopStopped BY <1>15 DEF LoopStopped, LeaveLoop
<1>16. CASE PauseEngine
  <2>1. EngineTypeOK' BY <1>16 DEF PauseEngine, Pause
  <2> QED BY <1>16, <2>1 DEF PauseEngine
<1>17. CASE StopEngine
  <2>1. EngineTypeOK' BY <1>17 DEF StopEngine, Pause
  <2> QED BY <1>17, <2>1 DEF StopEngine
<1> QED BY <1>1, <1>2, <1>3, <1>4, <1>5, <1>6, <1>7, <1>8, <1>9, <1>10, <1>11, <1>12, <1>13,
           <1>14, <1>15, <1>16, <1>17 DEF ControlStep

-----------------------------------------------------------------------------
(* Plans and blends. *)

(* PlanOrder reads these variables only.                                    *)
LEMMA PlanFrame ==
  ASSUME PlanOrder, UNCHANGED <<obs_holder, obs, queue, buffer, executed, stretch>>,
         rtc' \in {"size", "infer", "merged", "fatal"} => obs # NoObs
  PROVE  PlanOrder'
BY DEF PlanOrder

(* The inference thread keeps the plans in order: what it takes is at least  *)
(* as young as what it worked on, and what it merges younger than the queue. *)
LEMMA RtcPlans ==
  ASSUME TypeOK, PlanOrder, RtcStep, UNCHANGED controlVars
  PROVE  PlanOrder'
<1> USE DEF RtcGoto
<1>0. UNCHANGED <<buffer, executed, stretch>> BY DEF controlVars
<1>1. CASE CheckActive BY <1>0, <1>1, PlanFrame DEF CheckActive
<1>2. CASE TakeObservation
  <2>1. obs' = obs_holder /\ UNCHANGED <<obs_holder, queue>> BY <1>2 DEF TakeObservation
  <2>2. rtc' = "loop" \/ (rtc' = "size" /\ obs' # NoObs) BY <1>2 DEF TakeObservation
  <2>3. CASE obs = NoObs
    <3>1. queue' = <<>> /\ executed'.plan = 0 BY <1>0, <2>1, <2>3 DEF PlanOrder
    <3>2. obs_holder \in Nat \cup {NoObs} /\ stretch \in Nat BY DEF TypeOK, EngineTypeOK
    <3> QED BY <1>0, <2>1, <2>2, <3>1, <3>2 DEF PlanOrder
  <2>4. CASE obs # NoObs
    <3>1. obs_holder \in Nat /\ obs \in Nat /\ obs <= obs_holder /\ executed.plan <= obs
      BY <2>4 DEF PlanOrder, TypeOK, EngineTypeOK
    <3>2. executed.plan \in Nat /\ queue \in Seq(Nat) BY DEF TypeOK, EngineTypeOK
    <3>3. obs' # NoObs /\ obs' <= obs_holder' /\ executed'.plan <= obs'
      BY <1>0, <2>1, <3>1, <3>2, EngineAssumption
    <3>4. \A i \in 1..Len(queue) : queue[i] <= obs_holder
      <4> TAKE i \in 1..Len(queue)
      <4>1. queue[i] \in Nat BY <3>2, ElementOfSeq
      <4>2. queue[i] <= obs BY DEF PlanOrder
      <4> QED BY <3>1, <4>1, <4>2
    <3> QED BY <1>0, <2>1, <2>2, <3>3, <3>4 DEF PlanOrder
  <2> QED BY <2>3, <2>4
<1>3. CASE CheckSize
  BY <1>0, <1>3, PlanFrame DEF CheckSize, PlanOrder
<1>4. CASE InferenceSucceeds
  <2>1. obs \in Nat BY <1>4 DEF InferenceSucceeds, PlanOrder, TypeOK, EngineTypeOK
  <2>2. PICK delay \in 0..ChunkLen : Merge(delay) BY <1>4 DEF InferenceSucceeds
  <2>3. /\ queue \in Seq(Nat) /\ executed.plan \in Nat /\ executed.plan <= obs
        /\ \A i \in 1..Len(queue) : executed.plan <= queue[i] /\ queue[i] <= obs
        /\ \A i, j \in 1..Len(queue) : i <= j => queue[i] <= queue[j]
    BY <2>1, EngineAssumption DEF PlanOrder, TypeOK, EngineTypeOK
  <2>4. /\ \A i \in 1..Len(queue') : executed.plan <= queue'[i] /\ queue'[i] <= obs
        /\ \A i, j \in 1..Len(queue') : i <= j => queue'[i] <= queue'[j]
    BY <2>1, <2>2, <2>3, MergeFacts
  <2>5. UNCHANGED <<obs, obs_holder>> BY <1>4 DEF InferenceSucceeds
  <2>6. obs # NoObs BY <2>1, EngineAssumption
  <2> QED BY <1>0, <2>4, <2>5, <2>6 DEF PlanOrder
<1>5. CASE WarmupStep BY <1>0, <1>5, PlanFrame DEF WarmupStep
<1>6. CASE InferenceFails
  <2>1. rtc = "infer" BY <1>6 DEF InferenceFails
  <2>2. obs # NoObs BY <2>1 DEF PlanOrder
  <2> QED BY <1>0, <1>6, <2>2, PlanFrame DEF InferenceFails
<1>7. CASE FatalError BY <1>0, <1>7, PlanFrame DEF FatalError
<1> QED BY <1>1, <1>2, <1>3, <1>4, <1>5, <1>6, <1>7 DEF RtcStep

(* Sending an action moves the executed plan forward, to the plan every     *)
(* step left in the buffer belongs to, and not past the queue.              *)
LEMMA SendPlans ==
  ASSUME TypeOK, PlanOrder, NoBlendAcrossHandover, SendNextAction
  PROVE  PlanOrder' /\ NoBlendAcrossHandover' /\ executed.plan <= executed'.plan
<1>1. /\ queue \in Seq(Nat) /\ buffer \in Seq(Interpolated) /\ stretch \in Nat
      /\ executed.plan \in Nat /\ obs \in Nat \cup {NoObs} /\ prev \in {stretch, NoAction}
      /\ \A i \in 1..Len(buffer) : buffer[i].since = stretch
  BY DEF TypeOK, EngineTypeOK, NoBlendAcrossHandover, SendNextAction, Goto
<1>2. UNCHANGED <<obs_holder, obs, stretch, rtc>>
  BY DEF SendNextAction, threadOnly, threadVars
<1>3. CASE ~NeedsNewAction
  <2>1. buffer # <<>> BY <1>3 DEF NeedsNewAction
  <2>2. /\ UNCHANGED <<queue, prev>> /\ buffer' = Tail(buffer)
        /\ executed' = [plan |-> Head(buffer).plan, at |-> stretch]
    BY <1>3 DEF SendNextAction, Execute
  <2>3. /\ Len(buffer) \in Nat \ {0} /\ Head(buffer) = buffer[1]
        /\ Len(Tail(buffer)) = Len(buffer) - 1
        /\ \A i \in 1..Len(Tail(buffer)) : Tail(buffer)[i] = buffer[i + 1]
    BY <1>1, <2>1, HeadTailProperties, EmptySeq
  <2>4. executed'.plan = executed.plan BY <2>2, <2>3 DEF PlanOrder
  <2>5. \A i \in 1..Len(buffer') : buffer'[i].plan = executed.plan /\ buffer'[i].since = stretch
    BY <1>1, <2>2, <2>3 DEF PlanOrder
  <2>6. PlanOrder' BY <1>1, <1>2, <2>2, <2>4, <2>5 DEF PlanOrder
  <2>7. NoBlendAcrossHandover' BY <1>1, <1>2, <2>2, <2>5 DEF NoBlendAcrossHandover
  <2> QED BY <1>1, <2>4, <2>6, <2>7
<1>4. CASE NeedsNewAction /\ queue # <<>>
  <2> DEFINE h == Head(queue)
  <2>1. obs \in Nat /\ obs # NoObs /\ obs_holder # NoObs /\ obs <= obs_holder
    BY <1>1, <1>4 DEF PlanOrder
  <2>2. /\ h \in Nat /\ Tail(queue) \in Seq(Nat)
        /\ \A i \in 1..Len(Tail(queue)) : h <= Tail(queue)[i] /\ Tail(queue)[i] <= obs
        /\ \A i, j \in 1..Len(Tail(queue)) : i <= j => Tail(queue)[i] <= Tail(queue)[j]
    BY <1>1, <1>4, <2>1, TailFacts DEF PlanOrder
  <2>3. executed.plan <= h /\ h <= obs
    BY <1>1, <1>4, EmptySeq DEF PlanOrder
  <2>4. /\ Steps(h) \in Seq(Interpolated) /\ Steps(h) # <<>>
        /\ \A i \in 1..Len(Steps(h)) : Steps(h)[i] = [plan |-> h, since |-> stretch]
    BY <1>1, <2>2, StepsFacts
  <2>5. /\ queue' = Tail(queue) /\ prev' = stretch /\ buffer' = Tail(Steps(h))
        /\ executed' = [plan |-> Head(Steps(h)).plan, at |-> stretch]
    BY <1>4 DEF SendNextAction, Execute
  <2> HIDE DEF h
  <2>6. /\ Len(Steps(h)) \in Nat \ {0} /\ Head(Steps(h)) = Steps(h)[1]
        /\ Len(Tail(Steps(h))) = Len(Steps(h)) - 1
        /\ \A i \in 1..Len(Tail(Steps(h))) : Tail(Steps(h))[i] = Steps(h)[i + 1]
    BY <2>4, HeadTailProperties, EmptySeq
  <2>7. executed'.plan = h BY <2>4, <2>5, <2>6
  <2>8. \A i \in 1..Len(buffer') : buffer'[i].plan = h /\ buffer'[i].since = stretch
    BY <2>4, <2>5, <2>6
  <2>9. PlanOrder' BY <1>2, <2>1, <2>2, <2>3, <2>5, <2>7, <2>8 DEF PlanOrder
  <2>10. NoBlendAcrossHandover' BY <1>1, <1>2, <2>5, <2>8 DEF NoBlendAcrossHandover
  <2> QED BY <2>3, <2>7, <2>9, <2>10
<1>5. CASE NeedsNewAction /\ queue = <<>>
  <2>1. UNCHANGED <<queue, prev, buffer, executed>> BY <1>5 DEF SendNextAction
  <2>2. PlanOrder' BY <1>2, <2>1, PlanFrame DEF PlanOrder
  <2>3. NoBlendAcrossHandover' BY <1>1, <1>2, <2>1 DEF NoBlendAcrossHandover
  <2> QED BY <1>1, <2>1, <2>2, <2>3
<1> QED BY <1>3, <1>4, <1>5

(* Apart from SendNextAction, the control loop changes the order of plans    *)
(* and the blends only by clearing the queue and the buffer, by publishing  *)
(* an observation of the current stretch and by starting a new stretch.     *)
LEMMA ControlPlans ==
  ASSUME TypeOK, PlanOrder, NoBlendAcrossHandover, ControlStep
  PROVE  PlanOrder' /\ NoBlendAcrossHandover'
<1> DEFINE still == UNCHANGED <<obs_holder, obs, rtc, queue, buffer, executed, prev, stretch>>
<1> USE DEF engineVars, threadOnly, threadVars, Goto, Goes
<1>1. ASSUME still, main # "reset" PROVE PlanOrder' /\ NoBlendAcrossHandover'
  <2>1. PlanOrder' BY <1>1, PlanFrame DEF PlanOrder
  <2>2. NoBlendAcrossHandover' BY <1>1 DEF NoBlendAcrossHandover
  <2> QED BY <2>1, <2>2
<1>2. ASSUME UNCHANGED <<obs_holder, obs, rtc, executed, stretch>>, queue' = <<>>, buffer' = <<>>,
             prev' = NoAction
      PROVE  PlanOrder' /\ NoBlendAcrossHandover'
  <2>1. PlanOrder' BY <1>2 DEF PlanOrder
  <2>2. NoBlendAcrossHandover' BY <1>2 DEF NoBlendAcrossHandover
  <2> QED BY <2>1, <2>2
<1>3. CASE NoTransition BY <1>1, <1>3 DEF NoTransition
<1>4. CASE ConsumePause BY <1>1, <1>4, ConsumeFacts DEF ConsumePause
<1>5. CASE ConsumeCorrection BY <1>1, <1>5, ConsumeFacts DEF ConsumeCorrection
<1>6. CASE ConsumeCorrectionEnd BY <1>1, <1>6, ConsumeFacts DEF ConsumeCorrectionEnd
<1>7. CASE ConsumeReturn
  <2>1. main' = "reset" /\ stretch' = stretch + 1
        /\ UNCHANGED <<obs_holder, obs, rtc, queue, buffer, executed>>
    BY <1>7 DEF ConsumeReturn
  <2>2. obs_holder \in Nat \cup {NoObs} /\ stretch \in Nat BY DEF TypeOK, EngineTypeOK
  <2>3. obs_holder' # NoObs => obs_holder' <= stretch' BY <2>1, <2>2 DEF PlanOrder
  <2>4. PlanOrder' BY <2>1, <2>3 DEF PlanOrder
  <2> QED BY <2>1, <2>4 DEF NoBlendAcrossHandover
<1>8. CASE ApplyPause BY <1>1, <1>8 DEF ApplyPause
<1>9. CASE ApplyReset BY <1>2, <1>9 DEF ApplyReset, Reset, ResetInterpolator
<1>10. CASE ApplyResume BY <1>1, <1>10 DEF ApplyResume
<1>11. CASE Correct BY <1>1, <1>11 DEF Correct
<1>12. CASE Hold BY <1>1, <1>12 DEF Hold
<1>13. CASE NotifyObservation
  <2>1. /\ UNCHANGED <<obs, rtc, queue, buffer, executed, prev, stretch>> /\ main = "act"
        /\ obs_holder' \in {obs_holder, stretch}
    BY <1>13 DEF NotifyObservation, Notify
  <2>2. obs \in Nat \cup {NoObs} /\ obs_holder \in Nat \cup {NoObs} /\ stretch \in Nat
    BY DEF TypeOK, EngineTypeOK
  <2>3. obs_holder' # NoObs => obs_holder' <= stretch' BY <2>1, <2>2 DEF PlanOrder
  <2>4. obs # NoObs => obs_holder' # NoObs /\ obs <= obs_holder'
    BY <2>1, <2>2, EngineAssumption DEF PlanOrder
  <2>5. PlanOrder' BY <2>1, <2>3, <2>4 DEF PlanOrder
  <2> QED BY <2>1, <2>5 DEF NoBlendAcrossHandover
<1>14. CASE HandleWarmup BY <1>1, <1>14 DEF HandleWarmup
<1>15. CASE FlushWarmup BY <1>2, <1>15 DEF FlushWarmup, Reset, ResetInterpolator
<1>16. CASE SendNextAction BY <1>16, SendPlans
<1>17. CASE LoopStopped BY <1>1, <1>17 DEF LoopStopped, LeaveLoop
<1>18. CASE PauseEngine BY <1>1, <1>18 DEF PauseEngine
<1>19. CASE StopEngine BY <1>1, <1>19 DEF StopEngine
<1> QED BY <1>3, <1>4, <1>5, <1>6, <1>7, <1>8, <1>9, <1>10, <1>11, <1>12, <1>13, <1>14, <1>15,
           <1>16, <1>17, <1>18, <1>19 DEF ControlStep

-----------------------------------------------------------------------------
(* Handovers. *)

(* Every request that is consumed is one of the four transitions.           *)
LEMMA PendingStep ==
  ASSUME TypeOK, PendingIsValid, [Next]_vars
  PROVE  PendingIsValid'
<1> USE DEF PendingIsValid
<1>1. ASSUME UNCHANGED <<phase, pending>> PROVE PendingIsValid' BY <1>1
<1>2. ASSUME pending' = NoAction PROVE PendingIsValid' BY <1>2
<1>3. CASE ControlStep
  <2>1. CASE ConsumePause \/ ConsumeCorrection \/ ConsumeCorrectionEnd \/ ConsumeReturn
    BY <1>2, <2>1, ConsumeFacts DEF ConsumePause, ConsumeCorrection, ConsumeCorrectionEnd, ConsumeReturn
  <2>3. CASE NoTransition BY <1>2, <2>3 DEF NoTransition
  <2>2. CASE ~(ConsumePause \/ ConsumeCorrection \/ ConsumeCorrectionEnd \/ ConsumeReturn
             \/ NoTransition)
    <3>1. UNCHANGED <<phase, pending>>
      BY <1>3, <2>2 DEF ControlStep, ApplyPause, ApplyReset, ApplyResume, Correct,
         Hold, NotifyObservation, HandleWarmup, FlushWarmup, SendNextAction, LoopStopped,
         LeaveLoop, PauseEngine, StopEngine
    <3> QED BY <1>1, <3>1
  <2> QED BY <2>1, <2>2, <2>3
<1>4. CASE EngineStep BY <1>1, <1>4 DEF EngineStep, controlVars
<1>5. CASE RequestTransition
  <2>1. phase' = phase /\ IsValid(phase, pending') BY <1>5 DEF RequestTransition
  <2> QED BY <2>1
<1>6. CASE StopRecording BY <1>1, <1>6 DEF StopRecording
<1>7. CASE LoopDone BY <1>1, <1>7 DEF LoopDone, LeaveLoop
<1>8. CASE Finished \/ UNCHANGED vars BY <1>1, <1>8 DEF Finished, vars, controlVars
<1> QED BY <1>3, <1>4, <1>5, <1>6, <1>7, <1>8 DEF Next

(* The engine is paused with the policy, and the chunk it may still merge   *)
(* is the one it worked on.                                                 *)
LEMMA ControlActive ==
  ASSUME TypeOK, ActiveWhileAutonomous, LateInv, ControlStep
  PROVE  ActiveWhileAutonomous' /\ LateInv'
<1> USE DEF ActiveWhileAutonomous, LateInv, AtMostOneLateChunk, Goto, Goes, engineVars, threadOnly,
            threadVars
<1>1. CASE NoTransition BY <1>1 DEF NoTransition
<1>2. CASE ConsumePause BY <1>2, ConsumeFacts DEF ConsumePause
<1>3. CASE ConsumeCorrection BY <1>3, ConsumeFacts DEF ConsumeCorrection
<1>4. CASE ConsumeCorrectionEnd BY <1>4, ConsumeFacts DEF ConsumeCorrectionEnd
<1>5. CASE ConsumeReturn BY <1>5, ConsumeFacts DEF ConsumeReturn
<1>6. CASE ApplyPause BY <1>6 DEF ApplyPause, Pause
<1>7. CASE ApplyReset BY <1>7 DEF ApplyReset
<1>8. CASE ApplyResume BY <1>8 DEF ApplyResume, Resume
<1>9. CASE Correct BY <1>9 DEF Correct
<1>10. CASE Hold BY <1>10 DEF Hold
<1>11. CASE NotifyObservation BY <1>11 DEF NotifyObservation
<1>12. CASE HandleWarmup BY <1>12 DEF HandleWarmup
<1>13. CASE FlushWarmup BY <1>13 DEF FlushWarmup, Resume
<1>14. CASE SendNextAction BY <1>14 DEF SendNextAction, Execute
<1>15. CASE LoopStopped BY <1>15 DEF LoopStopped, LeaveLoop
<1>16. CASE PauseEngine BY <1>16 DEF PauseEngine, Pause
<1>17. CASE StopEngine BY <1>17 DEF StopEngine, Pause
<1> QED BY <1>1, <1>2, <1>3, <1>4, <1>5, <1>6, <1>7, <1>8, <1>9, <1>10, <1>11, <1>12, <1>13,
           <1>14, <1>15, <1>16, <1>17 DEF ControlStep

(* last_action is the robot's last command, and the teleoperator holds the  *)
(* robot's pose where a correction begins.                                  *)
LEMMA ControlTakeover ==
  ASSUME TypeOK, ActiveWhileAutonomous, HoldsPosition, TakeoverInv, ControlStep
  PROVE  HoldsPosition' /\ TakeoverInv'
<1> USE ControlAssumption
    DEF ActiveWhileAutonomous, HoldsPosition, TakeoverInv, SmoothAfterAction, Goto, Goes, TypeOK, Phases
<1>1. CASE NoTransition BY <1>1 DEF NoTransition
<1>2. CASE ConsumePause BY <1>2, ConsumeFacts DEF ConsumePause
<1>3. CASE ConsumeCorrection BY <1>3, ConsumeFacts DEF ConsumeCorrection
<1>4. CASE ConsumeCorrectionEnd BY <1>4, ConsumeFacts DEF ConsumeCorrectionEnd
<1>5. CASE ConsumeReturn BY <1>5, ConsumeFacts DEF ConsumeReturn
<1>6. CASE ApplyPause BY <1>6 DEF ApplyPause, Pause
<1>7. CASE ApplyReset BY <1>7 DEF ApplyReset
<1>8. CASE ApplyResume BY <1>8 DEF ApplyResume, Resume
<1>9. CASE Correct BY <1>9 DEF Correct
<1>10. CASE Hold BY <1>10 DEF Hold
<1>11. CASE NotifyObservation BY <1>11 DEF NotifyObservation
<1>12. CASE HandleWarmup BY <1>12 DEF HandleWarmup
<1>13. CASE FlushWarmup BY <1>13 DEF FlushWarmup, Resume
<1>14. CASE SendNextAction BY <1>14 DEF SendNextAction, Execute
<1>15. CASE LoopStopped BY <1>15 DEF LoopStopped, LeaveLoop
<1>16. CASE PauseEngine BY <1>16 DEF PauseEngine, Pause
<1>17. CASE StopEngine BY <1>17 DEF StopEngine, Pause
<1> QED BY <1>1, <1>2, <1>3, <1>4, <1>5, <1>6, <1>7, <1>8, <1>9, <1>10, <1>11, <1>12, <1>13,
           <1>14, <1>15, <1>16, <1>17 DEF ControlStep

(* A thread that sees the engine active, or works on an observation, merges *)
(* its one late chunk at most.                                              *)
LEMMA RtcActive ==
  ASSUME TypeOK, ActiveWhileAutonomous, LateInv, RtcStep, UNCHANGED controlVars
  PROVE  ActiveWhileAutonomous' /\ LateInv'
<1> USE DEF ActiveWhileAutonomous, LateInv, AtMostOneLateChunk, RtcGoto, flagVars, controlVars
<1>0. late \in Nat BY DEF TypeOK, EngineTypeOK
<1>1. CASE CheckActive BY <1>1 DEF CheckActive
<1>2. CASE TakeObservation BY <1>2 DEF TakeObservation
<1>3. CASE CheckSize BY <1>3 DEF CheckSize
<1>4. CASE InferenceSucceeds BY <1>0, <1>4 DEF InferenceSucceeds
<1>5. CASE WarmupStep BY <1>5 DEF WarmupStep
<1>6. CASE InferenceFails BY <1>6 DEF InferenceFails
<1>7. CASE FatalError BY <1>7 DEF FatalError
<1> QED BY <1>1, <1>2, <1>3, <1>4, <1>5, <1>6, <1>7 DEF RtcStep

-----------------------------------------------------------------------------
(* The invariant. *)

LEMMA InvInit == Init => IInv
<1> SUFFICES ASSUME Init PROVE IInv OBVIOUS
<1>1. TypeOK BY InitType
<1>2. PlanOrder
  <2>1. obs = NoObs /\ obs_holder = NoObs /\ rtc = "loop" /\ queue = <<>> /\ buffer = <<>>
        /\ executed.plan = 0
    BY DEF Init, EngineInit
  <2> QED BY <2>1 DEF PlanOrder
<1>3. ActiveWhileAutonomous /\ LateInv
  BY DEF Init, EngineInit, ActiveWhileAutonomous, LateInv, AtMostOneLateChunk
<1>4. NoBlendAcrossHandover BY DEF Init, NoBlendAcrossHandover
<1>5. HoldsPosition /\ TakeoverInv /\ PendingIsValid
  BY DEF Init, HoldsPosition, TakeoverInv, SmoothAfterAction, PendingIsValid
<1> QED BY <1>1, <1>2, <1>3, <1>4, <1>5 DEF IInv

(* The listener thread, the end of the loop and stuttering disturb nothing  *)
(* but the pending request.                                                 *)
LEMMA OtherSteps ==
  ASSUME IInv, RequestTransition \/ StopRecording \/ LoopDone \/ Finished \/ UNCHANGED vars
  PROVE  /\ TypeOK' /\ PlanOrder' /\ ActiveWhileAutonomous' /\ LateInv'
         /\ NoBlendAcrossHandover' /\ HoldsPosition' /\ TakeoverInv'
<1>1. /\ UNCHANGED <<engineVars, phase, actuated, last_action, prev, buffer, warmup_flushed, stretch,
                     robot, aligned, executed>>
      /\ main' = main \/ (main = "top" /\ main' = "pausing")
      /\ pending' \in Events \cup {pending} /\ stop_recording' \in {stop_recording, TRUE}
  BY DEF RequestTransition, StopRecording, LoopDone, LeaveLoop, Goto, Finished, vars, controlVars
<1>2. UNCHANGED <<policy_active, late, rtc, obs_holder, obs, queue>>
  BY <1>1 DEF engineVars, threadVars
<1>3. EngineTypeOK' BY <1>1 DEF IInv, TypeOK, EngineTypeOK, engineVars, threadVars, configVars
<1>4. TypeOK'
  <2>1. main' \in {"top", "pause", "reset", "resume", "act", "warmup", "flush", "send",
                   "pausing", "stopping", "stopped"}
    BY <1>1 DEF IInv, TypeOK
  <2>2. pending' \in Events \cup {NoAction} /\ stop_recording' \in BOOLEAN
    BY <1>1 DEF IInv, TypeOK
  <2> QED BY <1>1, <1>3, <2>1, <2>2 DEF IInv, TypeOK
<1>5. PlanOrder' BY <1>1, <1>2, PlanFrame DEF IInv, PlanOrder
<1>6. ActiveWhileAutonomous' /\ LateInv'
  BY <1>1, <1>2 DEF IInv, ActiveWhileAutonomous, LateInv, AtMostOneLateChunk
<1>7. NoBlendAcrossHandover' BY <1>1 DEF IInv, NoBlendAcrossHandover
<1>8. HoldsPosition' /\ TakeoverInv'
  BY <1>1 DEF IInv, HoldsPosition, TakeoverInv, SmoothAfterAction
<1> QED BY <1>4, <1>5, <1>6, <1>7, <1>8

LEMMA InvStep == IInv /\ [Next]_vars => IInv'
<1> SUFFICES ASSUME IInv, [Next]_vars PROVE IInv' OBVIOUS
<1>1. PendingIsValid' BY PendingStep DEF IInv
<1>2. CASE ControlStep
  <2>1. TypeOK' BY <1>2, ControlTypes DEF IInv
  <2>2. PlanOrder' /\ NoBlendAcrossHandover' BY <1>2, ControlPlans DEF IInv
  <2>3. ActiveWhileAutonomous' /\ LateInv' BY <1>2, ControlActive DEF IInv
  <2>4. HoldsPosition' /\ TakeoverInv' BY <1>2, ControlTakeover DEF IInv
  <2> QED BY <1>1, <2>1, <2>2, <2>3, <2>4 DEF IInv
<1>3. CASE EngineStep
  <2>1. RtcStep /\ UNCHANGED controlVars BY <1>3 DEF EngineStep
  <2>2. rtc = "infer" => obs # NoObs BY DEF IInv, PlanOrder
  <2>3. EngineTypeOK' BY <2>1, <2>2, RtcTypes DEF IInv, TypeOK
  <2>4. TypeOK' BY <2>1, <2>3 DEF IInv, TypeOK, controlVars
  <2>5. PlanOrder' BY <2>1, RtcPlans DEF IInv
  <2>6. ActiveWhileAutonomous' /\ LateInv' BY <2>1, RtcActive DEF IInv
  <2>7. NoBlendAcrossHandover' /\ HoldsPosition' /\ TakeoverInv'
    BY <2>1 DEF IInv, NoBlendAcrossHandover, HoldsPosition, TakeoverInv, SmoothAfterAction, controlVars
  <2> QED BY <1>1, <2>4, <2>5, <2>6, <2>7 DEF IInv
<1>4. CASE RequestTransition \/ StopRecording \/ LoopDone \/ Finished \/ UNCHANGED vars
  BY <1>1, <1>4, OtherSteps DEF IInv
<1> QED BY <1>2, <1>3, <1>4 DEF Next

(* Whatever the operator, the inference thread and the control loop do, the *)
(* rollout keeps its types and the inductive invariant.                     *)
THEOREM Invariance == Spec => []IInv
<1>1. Init => IInv BY InvInit
<1>2. IInv /\ [Next]_vars => IInv' BY InvStep
<1> QED BY <1>1, <1>2, PTL DEF Spec

(* Type correctness. *)
THEOREM TypeCorrect == Spec => []TypeOK
<1>1. IInv => TypeOK BY DEF IInv
<1> QED BY <1>1, Invariance, PTL

(* A paused engine merges at most the one chunk it was computing.           *)
THEOREM OneLateChunk == Spec => []AtMostOneLateChunk
<1>1. IInv => AtMostOneLateChunk BY DEF IInv, LateInv
<1> QED BY <1>1, Invariance, PTL

(* No interpolated action lies across a handover.                           *)
THEOREM NoBlend == Spec => []NoBlendAcrossHandover
<1>1. IInv => NoBlendAcrossHandover BY DEF IInv
<1> QED BY <1>1, Invariance, PTL

(* A paused robot is sent its last command.                                 *)
THEOREM RobotHolds == Spec => []HoldsPosition
<1>1. IInv => HoldsPosition BY DEF IInv
<1> QED BY <1>1, Invariance, PTL

(* No key press is dropped by the loop that consumes it.                    *)
THEOREM NoRequestDropped == Spec => []PendingIsValid
<1>1. IInv => PendingIsValid BY DEF IInv
<1> QED BY <1>1, Invariance, PTL

(* A correction starts smoothly once the policy has acted.                  *)
THEOREM SmoothTakeovers == Spec => []SmoothAfterAction
<1>1. IInv => SmoothAfterAction BY DEF IInv, TakeoverInv
<1> QED BY <1>1, Invariance, PTL

(* Around a change of hands one chunk at most is merged too late, nothing   *)
(* is blended across it, a paused robot holds, and a correction does not jump once the policy has acted.         *)
THEOREM HandoversSafe == Spec => []HandoverSafe
<1> QED BY OneLateChunk, NoBlend, RobotHolds, SmoothTakeovers, PTL DEF HandoverSafe

(* The plans the robot executes only move forward.                          *)
LEMMA PlansStep == IInv /\ [Next]_vars => executed.plan <= executed'.plan \/ UNCHANGED vars
<1> SUFFICES ASSUME IInv, Next PROVE executed.plan <= executed'.plan OBVIOUS
<1>1. executed.plan \in Nat BY DEF IInv, TypeOK
<1>2. CASE SendNextAction BY <1>2, SendPlans DEF IInv
<1>3. CASE ~SendNextAction
  <2>1. executed' = executed
    BY <1>3 DEF Next, ControlStep, NoTransition, ConsumePause, ConsumeCorrection,
       ConsumeCorrectionEnd, ConsumeReturn, ApplyPause, ApplyReset, ApplyResume, Correct, Hold,
       NotifyObservation, HandleWarmup, FlushWarmup, LoopStopped, LeaveLoop, PauseEngine, StopEngine,
       EngineStep, controlVars, RequestTransition, StopRecording, LoopDone, Finished, vars
  <2> QED BY <1>1, <2>1
<1> QED BY <1>2, <1>3

THEOREM PlansForward == Spec => PlansMoveForward
<1>1. IInv /\ [Next]_vars => [executed.plan <= executed'.plan]_vars BY PlansStep
<1> QED BY <1>1, Invariance, PTL DEF Spec, PlansMoveForward

=============================================================================
