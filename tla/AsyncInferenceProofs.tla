------------------------- MODULE AsyncInferenceProofs -------------------------
(***************************************************************************)
(* Proofs about AsyncInference, for every number of worker threads, every  *)
(* chunk length, threshold, bound and fault budget.  The invariant IInv    *)
(* says that the observations in the server are not ahead of the robot,    *)
(* that neither the queue nor the one being built jumps over a timestep    *)
(* that was not executed, and that each thread's call has its worker; it   *)
(* is inductive, and NoTimestepSkipped follows from it.  The last part is  *)
(* about the same server in PolicySessions, under one client that may      *)
(* leave at any point (SessionsInv).                                       *)
(***************************************************************************)
EXTENDS AsyncInference, PolicySessions, FiniteSetTheorems, TLAPS

(* Queue.get on a queue that is not empty yields an observation and a queue. *)
LEMMA PoppedType ==
  ASSUME ServerTypeOK, NEW q \in 0..MaxSession, queues[q] # <<>>
  PROVE  Popped(q) \in [0..MaxSession -> Seq(Obs)] /\ Head(queues[q]) \in Obs
<1>1. queues[q] \in Seq(Obs) BY DEF ServerTypeOK
<1>2. Tail(queues[q]) \in Seq(Obs) /\ Head(queues[q]) \in Obs BY <1>1
<1> QED BY <1>2 DEF Popped, ServerTypeOK

(* Queue.put keeps every queue a sequence of observations.                  *)
LEMMA PushedType ==
  ASSUME ServerTypeOK, NEW q \in 0..MaxSession, NEW o \in Obs
  PROVE  Pushed(q, o) \in [0..MaxSession -> Seq(Obs)]
<1>1. queues[q] \in Seq(Obs) BY DEF ServerTypeOK
<1>2. Append(queues[q], o) \in Seq(Obs) BY <1>1
<1> QED BY <1>2 DEF Pushed, ServerTypeOK

(* A step of an RPC handler keeps the server state well typed.              *)
LEMMA HandlerTypes ==
  ASSUME ServerTypeOK, ArgHeld, NEW w \in Workers, HandlerStep(w) \/ PredictFails(w),
         handler[w] = "flush" => current < MaxSession
  PROVE  ServerTypeOK'
<1> USE ServerAssumption, TimedDataAssumption
    DEF ServerTypeOK, Goto, Move, callVars, queueVars, stateVars, Finished, SendPc, GetPc, AdminPc
<1>1. CASE ReadyStop(w) BY <1>1 DEF ReadyStop
<1>2. CASE ReadyFlush(w) BY <1>2 DEF ReadyFlush
<1>3. CASE ReadyForget(w) BY <1>3 DEF ReadyForget
<1>4. CASE ReadyResume(w) BY <1>4 DEF ReadyResume
<1>5. CASE LoadPolicy(w) BY <1>5 DEF LoadPolicy
<1>6. CASE MakeProcessors(w) BY <1>6 DEF MakeProcessors
<1>7. CASE Receive(w) BY <1>7 DEF Receive
<1>8. CASE Filter(w) BY <1>8 DEF Filter
<1>9. CASE CheckFull(w) BY <1>9 DEF CheckFull
<1>10. CASE Evict(w)
  <2>1. CASE queues[current] = <<>> BY <1>10, <2>1 DEF Evict
  <2>2. CASE queues[current] # <<>> BY <1>10, <2>2, PoppedType DEF Evict
  <2> QED BY <2>1, <2>2
<1>11. CASE Put(w)
  <2>1. arg[w] \in Obs BY <1>11 DEF Put, ArgHeld
  <2>2. CASE Full(current) BY <1>11, <2>2 DEF Put
  <2>3. CASE ~Full(current)
    <3>1. Pushed(current, arg[w]) \in [0..MaxSession -> Seq(Obs)] BY <2>1, PushedType
    <3> QED BY <1>11, <2>3, <3>1 DEF Put
  <2> QED BY <2>2, <2>3
<1>12. CASE PutUnblocked(w)
  <2>1. arg[w] \in Obs BY <1>12 DEF PutUnblocked, ArgHeld
  <2> QED BY <1>12, <2>1, PushedType DEF PutUnblocked
<1>13. CASE TakeObservation(w) BY <1>13, PoppedType DEF TakeObservation
<1>14. CASE ObsQueueTimeout(w) BY <1>14 DEF ObsQueueTimeout
<1>15. CASE MarkPredicted(w) BY <1>15 DEF MarkPredicted, ArgHeld, Obs, ObsSteps
<1>16. CASE Prepare(w) BY <1>16 DEF Prepare
<1>17. CASE Infer(w) BY <1>17 DEF Infer
<1>18. CASE PredictFails(w) BY <1>18 DEF PredictFails
<1> QED BY <1>1, <1>2, <1>3, <1>4, <1>5, <1>6, <1>7, <1>8, <1>9, <1>10, <1>11, <1>12, <1>13, <1>14, <1>15, <1>16, <1>17, <1>18
     DEF HandlerStep, AdminStep, SendObservationsStep, GetActionsStep

(* What one step of a handler does to its program counter and observation.  *)
LEMMA HandlerMoves ==
  ASSUME ServerTypeOK, ArgHeld, NEW w \in Workers, HandlerStep(w) \/ PredictFails(w)
  PROVE  /\ handler' = [handler EXCEPT ![w] = handler'[w]]
         /\ arg' = [arg EXCEPT ![w] = arg'[w]]
         /\ \/ /\ handler[w] \in SendPc
               /\ handler'[w] \in SendPc \cup {"ok", "err"}
               /\ arg'[w] = arg[w] /\ current' = current
            \/ /\ handler[w] \in AdminPc
               /\ handler'[w] \in {"flush", "forget", "resume", "make", "ok"}
               /\ handler'[w] = "flush" => handler[w] = "stop" /\ current' = current
               /\ current' # current => handler[w] = "flush"
               /\ arg'[w] = arg[w]
            \/ /\ handler[w] \in GetPc
               /\ handler'[w] \in {"predict", "prepare", "infer", "ok", "empty"}
               /\ handler'[w] # "empty" => arg'[w] \in Obs
               /\ current' = current
<1> USE DEF ServerTypeOK, Goto, Move, callVars, queueVars, stateVars, SendPc, GetPc, AdminPc, ArgHeld
<1>1. CASE AdminStep(w)
  BY <1>1 DEF AdminStep, ReadyStop, ReadyFlush, ReadyForget, ReadyResume, LoadPolicy, MakeProcessors
<1>2. CASE SendObservationsStep(w)
  BY <1>2 DEF SendObservationsStep, Receive, Filter, CheckFull, Evict, Put, PutUnblocked
<1>3. CASE GetActionsStep(w)
  <2>1. CASE TakeObservation(w)
    BY <2>1, PoppedType DEF TakeObservation
  <2> QED BY <1>3, <2>1 DEF GetActionsStep, ObsQueueTimeout, MarkPredicted, Prepare, Infer
<1>4. CASE PredictFails(w) BY <1>4 DEF PredictFails
<1> QED BY <1>1, <1>2, <1>3, <1>4 DEF HandlerStep

(* What a handler does to the server beside its own program counter: the    *)
(* handshake changes flags and queue object, the others only the queue.     *)
LEMMA HandlerEffects ==
  ASSUME ServerTypeOK, ArgHeld, NEW w \in Workers, HandlerStep(w) \/ PredictFails(w)
  PROVE  /\ caller' = caller
         /\ \/ ReadyStop(w) \/ ReadyFlush(w) \/ ReadyForget(w) \/ ReadyResume(w)
            \/ LoadPolicy(w) \/ MakeProcessors(w)
            \/ /\ UNCHANGED <<current, shutdown, policy, processors>>
               /\ \/ handler[w] \in SendPc /\ handler'[w] \in SendPc \cup {"ok", "err"}
                  \/ handler[w] \in GetPc /\ handler'[w] \in GetPc \cup {"ok", "empty"}
<1> USE DEF ServerTypeOK, Goto, Move, callVars, queueVars, stateVars, SendPc, GetPc
<1>1. CASE AdminStep(w)
  BY <1>1 DEF AdminStep, ReadyStop, ReadyFlush, ReadyForget, ReadyResume, LoadPolicy, MakeProcessors
<1>2. CASE SendObservationsStep(w)
  BY <1>2 DEF SendObservationsStep, Receive, Filter, CheckFull, Evict, Put, PutUnblocked
<1>3. CASE GetActionsStep(w)
  BY <1>3 DEF GetActionsStep, TakeObservation, ObsQueueTimeout, MarkPredicted, Prepare, Infer
<1>4. CASE PredictFails(w) BY <1>4 DEF PredictFails
<1> QED BY <1>1, <1>2, <1>3, <1>4 DEF HandlerStep

(* What a state holds of the handlers that reset the server.                *)
LEMMA ResettingTypes ==
  ASSUME IInv
  PROVE  /\ IsFiniteSet(Resetting) /\ Cardinality(Resetting) \in Nat
         /\ current \in Nat /\ faults \in Nat /\ MaxSession \in Nat
         /\ handler \in [Workers -> {"idle"} \cup Finished \cup SendPc \cup GetPc \cup AdminPc]
<1>1. IsFiniteSet(Resetting) /\ Cardinality(Resetting) \in Nat
  BY FS_CardinalityType DEF IInv, ReadysCounted
<1>2. current \in 0..MaxSession /\ faults \in 0..FaultBudget
      /\ handler \in [Workers -> {"idle"} \cup Finished \cup SendPc \cup GetPc \cup AdminPc]
  BY DEF IInv, TypeOK, CallsTypeOK, ServerTypeOK
<1> QED BY <1>1, <1>2, AsyncAssumption, ServerAssumption

(* No more of them begin.                                                   *)
LEMMA ReadysRest ==
  ASSUME IInv, Resetting' = Resetting, current' = current, faults' \in Nat, faults' <= faults,
         control' = "start" => control = "start"
  PROVE  ReadysCounted'
<1>1. IsFiniteSet(Resetting') /\ Cardinality(Resetting') = Cardinality(Resetting)
  BY ResettingTypes
<1> QED BY <1>1, ResettingTypes DEF IInv, ReadysCounted

(* One more begins, of the handshake or retried at the price of a fault.    *)
LEMMA ReadyBegins ==
  ASSUME IInv, NEW w \in Workers, handler[w] = "idle", handler' = [handler EXCEPT ![w] = "stop"],
         current' = current, control' # "start", faults' \in Nat,
         \/ control = "start" /\ faults' = faults
         \/ faults' = faults - 1
  PROVE  ReadysCounted'
<1>1. w \notin Resetting /\ Resetting' = Resetting \cup {w} BY ResettingTypes DEF Resetting
<1>2. IsFiniteSet(Resetting') /\ Cardinality(Resetting') = Cardinality(Resetting) + 1
  BY <1>1, ResettingTypes, FS_AddElement
<1> QED BY <1>2, ResettingTypes DEF IInv, ReadysCounted

(* The queue is replaced.                                                   *)
LEMMA ReadyFlushes ==
  ASSUME IInv, NEW w \in Workers, ReadyFlush(w), UNCHANGED control, faults' \in Nat, faults' <= faults
  PROVE  ReadysCounted'
<1>1. /\ w \in Resetting /\ current' = current + 1 /\ Resetting' = Resetting \ {w}
  BY ResettingTypes DEF ReadyFlush, Move, Goto, Resetting
<1>2. IsFiniteSet(Resetting') /\ Cardinality(Resetting') = Cardinality(Resetting) - 1
  BY <1>1, ResettingTypes, FS_RemoveElement
<1> QED BY <1>1, <1>2, ResettingTypes DEF IInv, ReadysCounted

(* A handler about to replace the queue may.                                *)
LEMMA RoomForQueue ==
  ASSUME IInv, NEW w \in Workers, handler[w] = "flush"
  PROVE  current < MaxSession
<1>1. w \in Resetting BY DEF Resetting
<1>2. Cardinality(Resetting) # 0 BY <1>1, ResettingTypes, FS_EmptySet
<1> QED BY <1>2, ResettingTypes DEF IInv, ReadysCounted

(* The properties of handlers hold after a step of one of them.             *)
LEMMA HandlerCalls ==
  ASSUME IInv, NEW w \in Workers, HandlerStep(w) \/ PredictFails(w),
         UNCHANGED <<control, callOf>>, faults' \in Nat, faults' <= faults
  PROVE  ArgHeld' /\ ReadysCounted' /\ CallsServed'
<1>0. /\ ServerTypeOK /\ ArgHeld /\ CallsServed
      /\ controlCall \in Workers \cup {NoCall} /\ receiverCall \in Workers \cup {NoCall}
  BY DEF IInv, TypeOK, CallsTypeOK
<1>1. ArgHeld' BY <1>0, HandlerMoves DEF ArgHeld, ServerTypeOK, SendPc, GetPc, AdminPc, Finished
<1>2. UNCHANGED control OBVIOUS
<1>3. ReadysCounted'
  <2>1. CASE ReadyFlush(w) BY <1>2, <2>1, ReadyFlushes
  <2>2. CASE ~ReadyFlush(w)
    <3>1. handler' = [handler EXCEPT ![w] = handler'[w]] BY <1>0, HandlerMoves
    <3>2. /\ current' = current
          /\ handler'[w] \in {"stop", "flush"} <=> handler[w] \in {"stop", "flush"}
      BY <1>0, <2>2, HandlerEffects, ResettingTypes
         DEF ReadyStop, ReadyForget, ReadyResume, LoadPolicy, MakeProcessors, Move, Goto, queueVars,
             SendPc, GetPc
    <3>3. Resetting' = Resetting BY <3>1, <3>2, ResettingTypes DEF Resetting
    <3> QED BY <1>2, <3>2, <3>3, ReadysRest
  <2> QED BY <2>1, <2>2
<1>4. CallsServed'
  BY <1>0, HandlerMoves DEF CallsServed, callOf, ServerTypeOK, SendPc, GetPc, AdminPc, Finished
<1> QED BY <1>1, <1>3, <1>4

(* A handler moves observations around and makes none up.                   *)
LEMMA HandlerReached ==
  ASSUME ServerTypeOK, maxExec \in Int, ArgHeld, ObsReached, NEW w \in Workers,
         HandlerStep(w) \/ PredictFails(w), UNCHANGED maxExec
  PROVE  ObsReached'
<1>1. Reached' = Reached BY DEF Reached
<1>2. \A q \in 0..MaxSession : queues[q] \in Seq(Obs) BY DEF ServerTypeOK
<1>3. CASE arg' = arg /\ \A q \in 0..MaxSession : queues'[q] = queues[q] \/ queues'[q] = <<>>
  <2>1. ASSUME NEW q \in 0..MaxSession, NEW i \in 1..Len(queues'[q])
        PROVE  queues'[q][i].step <= Reached
    BY <1>3, <2>1 DEF ObsReached
  <2> QED BY <1>1, <1>3, <2>1 DEF ObsReached
<1>4. ASSUME NEW q \in 0..MaxSession, queues[q] # <<>>,
             queues' = Popped(q), arg' = arg \/ arg' = [arg EXCEPT ![w] = Head(queues[q])]
      PROVE  ObsReached'
  <2>1. Head(queues[q]) = queues[q][1] /\ 1 \in 1..Len(queues[q]) BY <1>2, <1>4
  <2>2. ASSUME NEW v \in Workers, arg'[v] # NoObs
        PROVE  arg'[v].step <= Reached
    BY <1>4, <2>1, <2>2 DEF ObsReached, ServerTypeOK
  <2>3. \A i \in 1..Len(Tail(queues[q])) :
          Tail(queues[q])[i] = queues[q][i + 1] /\ i + 1 \in 1..Len(queues[q])
    BY <1>2, <1>4
  <2>4. \A p \in 0..MaxSession :
          queues'[p] = IF p = q THEN Tail(queues[q]) ELSE queues[p]
    BY <1>4 DEF Popped, ServerTypeOK
  <2>5. ASSUME NEW p \in 0..MaxSession, NEW i \in 1..Len(queues'[p])
        PROVE  queues'[p][i].step <= Reached
    BY <2>3, <2>4, <2>5 DEF ObsReached
  <2> QED BY <1>1, <2>2, <2>5 DEF ObsReached
<1>5. ASSUME NEW q \in 0..MaxSession, arg[w] \in Obs, queues' = Pushed(q, arg[w]), arg' = arg
      PROVE  ObsReached'
  <2>1. arg[w].step <= Reached BY <1>5, ServerAssumption DEF ObsReached
  <2>2. \A i \in 1..Len(Append(queues[q], arg[w])) :
          \/ i \in 1..Len(queues[q]) /\ Append(queues[q], arg[w])[i] = queues[q][i]
          \/ Append(queues[q], arg[w])[i] = arg[w]
    BY <1>2, <1>5
  <2>3. \A p \in 0..MaxSession :
          queues'[p] = IF p = q THEN Append(queues[q], arg[w]) ELSE queues[p]
    BY <1>5 DEF Pushed, ServerTypeOK
  <2>4. ASSUME NEW p \in 0..MaxSession, NEW i \in 1..Len(queues'[p])
        PROVE  queues'[p][i].step <= Reached
    BY <2>1, <2>2, <2>3, <2>4 DEF ObsReached
  <2> QED BY <1>1, <1>5, <2>4 DEF ObsReached
<1> USE DEF callVars, queueVars
<1>6. CASE AdminStep(w)
  BY <1>3, <1>6 DEF AdminStep, ReadyStop, ReadyFlush, ReadyForget, ReadyResume,
     LoadPolicy, MakeProcessors, ServerTypeOK
<1>7. CASE SendObservationsStep(w)
  <2>1. CASE Evict(w) BY <1>3, <1>4, <2>1 DEF Evict, ServerTypeOK
  <2>2. CASE Put(w)
    <3>1. arg[w] \in Obs BY <2>2 DEF Put, ArgHeld, SendPc
    <3> QED BY <1>3, <1>5, <2>2, <3>1 DEF Put, ServerTypeOK
  <2>3. CASE PutUnblocked(w)
    <3>1. arg[w] \in Obs BY <2>3 DEF PutUnblocked, Move, ArgHeld, SendPc
    <3> QED BY <1>5, <2>3, <3>1 DEF PutUnblocked, ServerTypeOK
  <2> QED BY <1>3, <1>7, <2>1, <2>2, <2>3 DEF SendObservationsStep, Receive, Filter, CheckFull
<1>8. CASE GetActionsStep(w)
  <2>1. CASE TakeObservation(w) BY <1>4, <2>1 DEF TakeObservation, ServerTypeOK
  <2> QED BY <1>3, <1>8, <2>1 DEF GetActionsStep, ObsQueueTimeout, MarkPredicted, Prepare, Infer
<1>9. CASE PredictFails(w) BY <1>3, <1>9 DEF PredictFails
<1> QED BY <1>6, <1>7, <1>8, <1>9 DEF HandlerStep

-----------------------------------------------------------------------------
(* The client's steps keep its types and the plan's invariant.              *)

(* The chunk _time_action_chunk builds holds timesteps from its first on.   *)
LEMMA ChunkType ==
  ASSUME NEW first \in ObsSteps
  PROVE  /\ Chunk(first) \in Seq(Steps)
         /\ Len(Chunk(first)) = ChunkLen
         /\ \A i \in 1..ChunkLen : Chunk(first)[i] = first + i - 1
BY TimedDataAssumption DEF Chunk, Steps, ObsSteps

(* Steps that leave the plan, its history and the merge alone.              *)
LEMMA QuietStep ==
  ASSUME ClientTypeOK, PlanInv,
         UNCHANGED <<latest_action, action_queue, out_step, incoming, pos, future, lastExec, maxExec>>,
         control' \in ControlPc, receiver' \in ReceiverPc,
         running' \in BOOLEAN, must_go' \in BOOLEAN, out_go' \in BOOLEAN, popped' \in BOOLEAN,
         action_chunk_size' \in {-1, ChunkLen},
         control' = "pop" => maxExec < MaxStep,
         receiver' \notin {"merge", "swap", "signal"} => pos = 1 /\ future = <<>>
  PROVE  ClientTypeOK' /\ PlanInv'
<1>1. ClientTypeOK' BY DEF ClientTypeOK
<1>2. PlanInv' BY DEF PlanInv, Reached, Gapless, MergedKept
<1> QED BY <1>1, <1>2

(* A step of the control loop (pop, store latest_action, observe) keeps the *)
(* types and the plan without gaps.                                         *)
LEMMA ControlKeeps ==
  ASSUME ClientTypeOK, PlanInv, ControlStep \/ ObservationSent
  PROVE  ClientTypeOK' /\ PlanInv' /\ maxExec' >= maxExec
<1> USE TimedDataAssumption, ClientAssumption
    DEF controlVars, receiverVars, sharedVars, historyVars, ControlGoto
<1>1. CASE \/ ActionsAvailable \/ PopEmpty \/ ReadyToSendObservation \/ StopClient
           \/ ObservationSent
  <2>1. /\ UNCHANGED <<latest_action, action_queue, out_step, incoming, pos, future,
                         lastExec, maxExec>>
        /\ UNCHANGED <<receiver, must_go, out_go, popped, action_chunk_size>>
        /\ control' \in ControlPc /\ running' \in BOOLEAN
        /\ control' = "pop" => maxExec < MaxStep
    BY <1>1 DEF ActionsAvailable, PopEmpty, ReadyToSendObservation, StopClient,
       ObservationSent, ControlPc, ClientTypeOK
  <2>3. ClientTypeOK' /\ PlanInv'
    <3>1. /\ receiver \in ReceiverPc /\ must_go \in BOOLEAN /\ out_go \in BOOLEAN
          /\ popped \in BOOLEAN /\ action_chunk_size \in {-1, ChunkLen}
          /\ receiver \notin {"merge", "swap", "signal"} => pos = 1 /\ future = <<>>
      BY DEF ClientTypeOK, PlanInv
    <3> QED BY <2>1, <3>1, QuietStep
  <2>2. maxExec' = maxExec /\ maxExec \in Int
    BY <1>1 DEF ActionsAvailable, PopEmpty, ReadyToSendObservation, StopClient,
       ObservationSent, ClientTypeOK, Steps
  <2> QED BY <2>2, <2>3
<1>2. CASE PopAction
  <2> DEFINE head == action_queue[1]
  <2> USE <1>2 DEF PopAction
  <2>1. /\ action_queue \in Seq(Steps) /\ Len(action_queue) >= 1
        /\ Head(action_queue) = head /\ head \in Steps
        /\ maxExec \in Steps \cup {-1}
    BY DEF ClientTypeOK
  <2>2. head <= maxExec + 1
    <3>1. SUFFICES ASSUME head > maxExec + 1 PROVE FALSE
      BY <2>1 DEF Steps
    <3>2. maxExec + 1 \in Steps BY <2>1, <3>1 DEF Steps
    <3>3. \E j \in 1..(1 - 1) : action_queue[j] = maxExec + 1
      BY <2>1, <3>1, <3>2 DEF PlanInv, Gapless, Steps
    <3> QED BY <3>3
  <2>3. maxExec < MaxStep BY DEF PlanInv
  <2>4. maxExec' >= maxExec /\ maxExec' >= head /\ maxExec' <= MaxStep /\ maxExec' \in Steps
    BY <2>1, <2>2, <2>3 DEF Steps
  <2>5. ClientTypeOK'
    BY <2>1, <2>4 DEF ClientTypeOK, ControlPc
  <2>6. Gapless(action_queue)'
    <3>1. SUFFICES ASSUME NEW i \in 1..Len(Tail(action_queue)), NEW s \in Steps,
                          maxExec' < s, s < Tail(action_queue)[i]
                   PROVE  \E j \in 1..(i - 1) : Tail(action_queue)[j] = s
      BY DEF Gapless
    <3>2. i + 1 \in 1..Len(action_queue) /\ Tail(action_queue)[i] = action_queue[i + 1]
      BY <2>1
    <3>3. PICK j \in 1..i : action_queue[j] = s
      BY <2>1, <2>4, <3>1, <3>2 DEF PlanInv, Gapless, Steps
    <3>4. j # 1 BY <2>1, <2>4, <3>1, <3>3 DEF Steps
    <3>5. j - 1 \in 1..(i - 1) /\ Tail(action_queue)[j - 1] = action_queue[j]
      BY <2>1, <3>2, <3>4
    <3> QED BY <3>3, <3>5
  <2>7. Gapless(future)' BY <2>1, <2>4 DEF PlanInv, Gapless, Steps
  <2>8. MergedKept'
    <3>1. SUFFICES ASSUME NEW p \in 1..(pos - 1)
                   PROVE  incoming[p] <= maxExec' \/ \E j \in 1..Len(future) : future[j] = incoming[p]
      BY DEF MergedKept
    <3>2. incoming[p] \in Steps BY DEF ClientTypeOK, PlanInv
    <3>3. incoming[p] <= maxExec \/ \E j \in 1..Len(future) : future[j] = incoming[p]
      BY DEF PlanInv, MergedKept
    <3> QED BY <2>1, <2>4, <3>2, <3>3 DEF Steps
  <2>9. Reached <= Reached' BY <2>1, <2>4 DEF Reached, Steps
  <2>10. PlanInv'
    <3>1. latest_action <= maxExec' /\ lastExec' <= maxExec' /\ out_step <= Reached'
      BY <2>1, <2>4, <2>9 DEF PlanInv, ClientTypeOK, Reached, Steps, ObsSteps
    <3>2. incoming = <<>> \/ \E first \in 0..Reached' : incoming = Chunk(first)
      BY <2>1, <2>4, <2>9 DEF PlanInv, Reached, Steps
    <3> QED BY <2>4, <2>6, <2>7, <2>8, <3>1, <3>2 DEF PlanInv
  <2> QED BY <2>4, <2>5, <2>10
<1>3. CASE SetLatestAction
  <2> USE <1>3 DEF SetLatestAction
  <2>1. ClientTypeOK' BY DEF ClientTypeOK, ControlPc
  <2>2. PlanInv' BY DEF PlanInv, Reached, Gapless, MergedKept
  <2> QED BY <2>1, <2>2 DEF ClientTypeOK, Steps
<1>4. CASE CaptureObservation
  <2> USE <1>4 DEF CaptureObservation
  <2>1. out_step' \in ObsSteps /\ out_step' <= Reached
    BY DEF ClientTypeOK, PlanInv, Reached, Steps, ObsSteps
  <2>2. ClientTypeOK' BY <2>1 DEF ClientTypeOK, ControlPc
  <2>3. PlanInv' BY <2>1 DEF PlanInv, Reached, Gapless, MergedKept
  <2> QED BY <2>2, <2>3 DEF ClientTypeOK, Steps
<1>5. CASE ClearMustGo
  <2> USE <1>5 DEF ClearMustGo
  <2>1. out_step' \in ObsSteps /\ out_step' <= Reached
    BY DEF ClientTypeOK, Reached, Steps, ObsSteps
  <2>2. ClientTypeOK' BY <2>1 DEF ClientTypeOK, ControlPc
  <2>3. PlanInv' BY <2>1 DEF PlanInv, Reached, Gapless, MergedKept
  <2> QED BY <2>2, <2>3 DEF ClientTypeOK, Steps
<1> QED BY <1>1, <1>2, <1>3, <1>4, <1>5 DEF ControlStep

(* A step of the receiver (aggregate, swap, set must_go) keeps the types    *)
(* and the plan without gaps: what the merge drops was executed.            *)
LEMMA ReceiverKeeps ==
  ASSUME ClientTypeOK, PlanInv,
         \/ ReceiverStep \/ PollAgain
         \/ \E first \in ObsSteps : first <= Reached /\ ReceiveChunk(first)
  PROVE  ClientTypeOK' /\ PlanInv' /\ maxExec' = maxExec /\ control' = control
<1> USE TimedDataAssumption, ClientAssumption
    DEF controlVars, sharedVars, historyVars, ReceiverGoto
<1>1. CASE \/ PassBarrier \/ PollAgain \/ BeginIteration \/ EndIteration \/ IterationFails
           \/ MergeDone \/ ReceiverExits
  <2>1. /\ UNCHANGED <<latest_action, action_queue, out_step, incoming, pos, future,
                         lastExec, maxExec>>
        /\ UNCHANGED <<control, must_go, running, out_go, action_chunk_size>>
        /\ receiver' \in ReceiverPc /\ popped' \in BOOLEAN
        /\ receiver' \notin {"merge", "swap", "signal"} => receiver \notin {"merge", "swap", "signal"}
    BY <1>1 DEF PassBarrier, PollAgain, BeginIteration, EndIteration, IterationFails,
       MergeDone, ReceiverExits, ReceiverPc, ClientTypeOK
  <2>2. /\ control \in ControlPc /\ must_go \in BOOLEAN /\ running \in BOOLEAN
        /\ out_go \in BOOLEAN /\ action_chunk_size \in {-1, ChunkLen}
        /\ receiver \notin {"merge", "swap", "signal"} => pos = 1 /\ future = <<>>
        /\ control = "pop" => maxExec < MaxStep
    BY DEF ClientTypeOK, PlanInv
  <2> QED BY <2>1, <2>2, QuietStep
<1>2. CASE \E first \in ObsSteps : first <= Reached /\ ReceiveChunk(first)
  <2>1. PICK first \in ObsSteps : first <= Reached /\ ReceiveChunk(first) BY <1>2
  <2> USE <2>1 DEF ReceiveChunk
  <2>2. pos = 1 /\ future = <<>> BY DEF PlanInv
  <2>3. incoming' \in Seq(Steps) /\ Len(incoming') = ChunkLen BY ChunkType
  <2>4. ClientTypeOK' BY <2>3 DEF ClientTypeOK, ReceiverPc
  <2>5. first \in 0..Reached' BY DEF Reached, ObsSteps, ClientTypeOK, Steps
  <2>6. PlanInv'
    BY <2>2, <2>3, <2>5 DEF PlanInv, Reached, Gapless, MergedKept
  <2> QED BY <2>4, <2>6
<1>3. CASE MergeAction
  <2> USE <1>3 DEF MergeAction
  <2> DEFINE next == incoming[pos]
  <2>1. /\ pos \in 1..Len(incoming) /\ incoming \in Seq(Steps) /\ next \in Steps
        /\ future \in Seq(Steps) /\ maxExec \in Int /\ latest_action \in Int
        /\ latest_action <= maxExec
    BY DEF ClientTypeOK, PlanInv, Steps
  <2>2. PICK first \in 0..Reached : incoming = Chunk(first)
    BY <2>1 DEF PlanInv
  <2>3. /\ Len(incoming) = ChunkLen
        /\ \A i \in 1..ChunkLen : incoming[i] = first + i - 1
    BY <2>1, <2>2, ChunkType DEF Chunk, Reached
  <2>4. future' \in Seq(Steps) /\ pos' \in 1..(Len(incoming) + 1)
    BY <2>1
  <2>5. ClientTypeOK' BY <2>4 DEF ClientTypeOK, ReceiverPc
  <2>6. \A j \in 1..Len(future) : j \in 1..Len(future') /\ future'[j] = future[j]
    BY <2>1
  <2>7. MergedKept'
    <3>1. SUFFICES ASSUME NEW p \in 1..pos
                   PROVE  incoming[p] <= maxExec \/ \E j \in 1..Len(future') : future'[j] = incoming[p]
      BY <2>1 DEF MergedKept
    <3>2. CASE p < pos
      BY <2>1, <2>6, <3>2 DEF PlanInv, MergedKept
    <3>3. CASE p = pos /\ next <= latest_action
      BY <2>1, <3>3 DEF Steps
    <3>4. CASE p = pos /\ ~(next <= latest_action)
      <4>1. future' = Append(future, next) BY <3>4
      <4>2. Len(future) + 1 \in 1..Len(future') /\ future'[Len(future) + 1] = next
        BY <2>1, <4>1
      <4> QED BY <3>4, <4>2
    <3> QED BY <2>1, <3>2, <3>3, <3>4
  <2>8. Gapless(future)'
    <3>1. SUFFICES ASSUME NEW i \in 1..Len(future'), NEW s \in Steps, maxExec < s, s < future'[i]
                   PROVE  \E j \in 1..(i - 1) : future'[j] = s
      BY DEF Gapless
    <3>2. CASE i \in 1..Len(future)
      <4>1. PICK j \in 1..(i - 1) : future[j] = s
        BY <2>6, <3>1, <3>2 DEF PlanInv, Gapless
      <4> QED BY <2>1, <2>6, <3>2, <4>1
    <3>3. CASE i \notin 1..Len(future)
      <4>1. future' = Append(future, next) /\ i = Len(future) + 1 /\ future'[i] = next
        BY <2>1, <3>1, <3>3
      <4>2. first <= s /\ s < first + pos - 1
        BY <2>1, <2>2, <2>3, <3>1, <4>1 DEF Reached, Steps
      <4>3. s - first + 1 \in 1..(pos - 1) /\ incoming[s - first + 1] = s
        BY <2>1, <2>2, <2>3, <4>2 DEF Steps
      <4>4. \A p \in 1..(pos - 1) :
              incoming[p] <= maxExec \/ \E j \in 1..Len(future) : future[j] = incoming[p]
        BY DEF PlanInv, MergedKept
      <4>5. s <= maxExec \/ \E j \in 1..Len(future) : future[j] = s
        BY <4>3, <4>4
      <4>6. PICK j \in 1..Len(future) : future[j] = s
        BY <2>1, <3>1, <4>5 DEF Steps
      <4> QED BY <2>6, <4>1, <4>6
    <3> QED BY <3>2, <3>3
  <2>9. PlanInv'
    BY <2>4, <2>7, <2>8 DEF PlanInv, Reached, Gapless
  <2> QED BY <2>5, <2>9
<1>4. CASE SwapQueue
  <2> USE <1>4 DEF SwapQueue
  <2>1. ClientTypeOK' BY DEF ClientTypeOK, ReceiverPc
  <2>2. PlanInv' BY DEF PlanInv, Reached, Gapless, MergedKept
  <2> QED BY <2>1, <2>2
<1>5. CASE SetMustGo
  <2> USE <1>5 DEF SetMustGo
  <2>1. ClientTypeOK' BY DEF ClientTypeOK, ReceiverPc
  <2>2. PlanInv' BY DEF PlanInv, Reached, Gapless, MergedKept
  <2> QED BY <2>1, <2>2
<1> QED BY <1>1, <1>2, <1>3, <1>4, <1>5 DEF ReceiverStep

-----------------------------------------------------------------------------
(* Calls and returns, as the two threads and the network make them.         *)

(* A call that reaches the server carries no observation, or one the robot  *)
(* has reached.                                                             *)
LEMMA CallKeeps ==
  ASSUME ServerTypeOK, ArgHeld, ObsReached, UNCHANGED maxExec,
         NEW w \in Workers, NEW step \in {"stop", "load", "recv", "get"},
         NEW o \in Obs \cup {NoObs}, NEW c \in 0..MaxSession, Call(w, step, o, c),
         step = "recv" => o \in Obs,
         o \in Obs => o.step <= Reached
  PROVE  ServerTypeOK' /\ ArgHeld' /\ ObsReached'
<1> USE DEF Call, Goto, queueVars, stateVars
<1>1. ServerTypeOK' BY DEF ServerTypeOK, SendPc, GetPc, AdminPc
<1>2. ArgHeld' BY DEF ArgHeld, ServerTypeOK, SendPc
<1>3. ObsReached' BY DEF ObsReached, ServerTypeOK, Reached
<1> QED BY <1>1, <1>2, <1>3

(* A worker that is freed holds no observation any more.                    *)
LEMMA FreeKeeps ==
  ASSUME ServerTypeOK, ArgHeld, ObsReached, UNCHANGED maxExec, NEW w \in Workers, Free(w),
         UNCHANGED <<queueVars, stateVars>>
  PROVE  ServerTypeOK' /\ ArgHeld' /\ ObsReached'
<1> USE DEF Free, Goto, queueVars, stateVars
<1>1. ServerTypeOK' BY ServerAssumption DEF ServerTypeOK
<1>2. ArgHeld' BY DEF ArgHeld, ServerTypeOK, SendPc
<1>3. ObsReached' BY DEF ObsReached, ServerTypeOK, Reached
<1> QED BY <1>1, <1>2, <1>3

(* The server's side when only the client moves.                            *)
LEMMA ServerRests ==
  ASSUME IInv, UNCHANGED <<serverVars, callOf, faults>>,
         control' = "start" => control = "start", maxExec' \in Int, maxExec' >= maxExec
  PROVE  /\ ServerTypeOK' /\ ObsReached' /\ ArgHeld' /\ ReadysCounted' /\ CallsServed'
         /\ controlCall' \in Workers \cup {NoCall} /\ receiverCall' \in Workers \cup {NoCall}
         /\ faults' \in 0..FaultBudget
<1> USE DEF IInv, TypeOK, CallsTypeOK, serverVars, callVars, queueVars, stateVars, callOf
<1>1. ServerTypeOK' BY DEF ServerTypeOK
<1>2. ObsReached'
  <2>1. maxExec \in Int /\ Reached <= Reached' BY DEF ClientTypeOK, Reached, Steps
  <2>2. ASSUME NEW w \in Workers, arg[w] # NoObs PROVE arg[w].step <= Reached'
    <3>1. arg[w].step \in Int BY <2>2 DEF ServerTypeOK, Obs, ObsSteps
    <3> QED BY <2>1, <2>2, <3>1 DEF ObsReached, Reached
  <2>3. ASSUME NEW q \in 0..MaxSession, NEW i \in 1..Len(queues[q])
        PROVE  queues[q][i].step <= Reached'
    <3>1. queues[q] \in Seq(Obs) BY DEF ServerTypeOK
    <3>2. queues[q][i] \in Obs BY <2>3, <3>1
    <3>3. queues[q][i].step \in Int BY <3>2 DEF Obs, ObsSteps
    <3> QED BY <2>1, <2>3, <3>3 DEF ObsReached, Reached
  <2> QED BY <2>2, <2>3 DEF ObsReached
<1>3. ArgHeld' BY DEF ArgHeld
<1>4. ReadysCounted'
  <2>1. Resetting' = Resetting BY DEF Resetting
  <2> QED BY <2>1, ResettingTypes, ReadysRest
<1>5. CallsServed' BY DEF CallsServed
<1> QED BY <1>1, <1>2, <1>3, <1>4, <1>5

(* A call takes an idle worker, so never one that serves the other thread.  *)
LEMMA CallServed ==
  ASSUME IInv, NEW w \in Workers, NEW step \in {"stop", "load", "recv", "get"},
         NEW o \in Obs \cup {NoObs}, NEW c \in 0..MaxSession, Call(w, step, o, c)
  PROVE  /\ w # controlCall \/ controlCall = NoCall
         /\ w # receiverCall \/ receiverCall = NoCall
         /\ w # NoCall
         /\ handler' = [handler EXCEPT ![w] = step] /\ arg' = [arg EXCEPT ![w] = o]
         /\ current' = current
BY AsyncAssumption, CallsAssumption
   DEF IInv, TypeOK, CallsTypeOK, ServerTypeOK, CallsServed, Call, Goto, SendPc, GetPc, AdminPc, queueVars

(* A call of the control thread is served by a worker of its own.           *)
LEMMA ControlCallKeeps ==
  ASSUME IInv, NEW w \in Workers, NEW step \in {"stop", "load", "recv"},
         NEW o \in Obs \cup {NoObs}, Call(w, step, o, Me),
         UNCHANGED <<maxExec, receiverCall>>, controlCall' = w, control' # "start",
         faults' \in Nat,
         \/ faults' = faults /\ (step = "stop" => control = "start")
         \/ faults' = faults - 1,
         step = "recv" => o \in Obs,
         o \in Obs => o.step <= Reached
  PROVE  ServerTypeOK' /\ ArgHeld' /\ ObsReached' /\ ReadysCounted' /\ CallsServed'
<1>1. Me \in 0..MaxSession BY ServerAssumption DEF Me
<1>2. ServerTypeOK' /\ ArgHeld' /\ ObsReached' BY <1>1, CallKeeps DEF IInv, TypeOK, CallsTypeOK
<1>3. /\ w # receiverCall \/ receiverCall = NoCall
      /\ w # NoCall /\ handler[w] = "idle"
      /\ handler' = [handler EXCEPT ![w] = step] /\ arg' = [arg EXCEPT ![w] = o]
      /\ current' = current
  BY <1>1, CallServed DEF Call
<1>4. /\ handler \in [Workers -> {"idle"} \cup Finished \cup SendPc \cup GetPc \cup AdminPc]
      /\ arg \in [Workers -> Obs \cup {NoObs}]
      /\ receiverCall \in Workers \cup {NoCall} /\ CallsServed
      /\ faults \in Nat
  BY ResettingTypes DEF IInv, TypeOK, CallsTypeOK, ServerTypeOK
<1>5. ReadysCounted'
  <2>1. CASE step = "stop"
    <3>1. \/ control = "start" /\ faults' = faults
          \/ faults' = faults - 1
      BY <2>1
    <3> QED BY <1>3, <2>1, <3>1, ReadyBegins
  <2>2. CASE step # "stop"
    <3>1. Resetting' = Resetting BY <1>3, <1>4, <2>2 DEF Resetting
    <3>2. faults' <= faults BY <1>4
    <3> QED BY <1>3, <3>1, <3>2, ReadysRest
  <2> QED BY <2>1, <2>2
<1>6. CallsServed'
  <2>1. controlCall' = w /\ receiverCall' = receiverCall /\ w # receiverCall'
    BY <1>3
  <2>2. handler'[w] \in AdminPc \cup SendPc \cup {"ok", "err"}
    BY <1>3, <1>4 DEF AdminPc, SendPc
  <2>3. receiverCall # NoCall => /\ receiverCall \in Workers
                                 /\ handler'[receiverCall] = handler[receiverCall]
                                 /\ arg'[receiverCall] = arg[receiverCall]
    BY <1>3, <1>4
  <2> QED BY <1>4, <2>1, <2>2, <2>3 DEF CallsServed
<1> QED BY <1>2, <1>5, <1>6

(* The control thread may go on after its call returned.                    *)
LEMMA ControlReturnKeeps ==
  ASSUME IInv, controlCall \in Workers, Free(controlCall), UNCHANGED <<queueVars, stateVars>>,
         UNCHANGED <<maxExec, receiverCall>>, controlCall' = NoCall, control' # "start",
         handler[controlCall] \notin {"stop", "flush"}, faults' \in Nat, faults' <= faults
  PROVE  ServerTypeOK' /\ ArgHeld' /\ ObsReached' /\ ReadysCounted' /\ CallsServed'
<1>1. ServerTypeOK' /\ ArgHeld' /\ ObsReached' BY FreeKeeps DEF IInv, TypeOK, CallsTypeOK
<1> USE DEF IInv, TypeOK, CallsTypeOK, ServerTypeOK, Free, Goto, queueVars
<1>2. ReadysCounted'
  <2>1. Resetting' = Resetting /\ current' = current BY DEF Resetting
  <2> QED BY <2>1, ReadysRest
<1>3. CallsServed' BY AsyncAssumption, CallsAssumption DEF CallsServed
<1> QED BY <1>1, <1>2, <1>3

(* Moving a thread between two calls leaves everything else of it alone.    *)
LEMMA MovesKeep ==
  ASSUME ClientTypeOK, PlanInv,
         \/ \E from \in ControlPc, to \in ControlPc \ {"pop", "start"} : ControlMoves(from, to)
         \/ ReceiverMoves("poll", "wait")
  PROVE  ClientTypeOK' /\ PlanInv' /\ UNCHANGED maxExec
<1> USE DEF controlVars, receiverVars, sharedVars, historyVars, ControlGoto, ReceiverGoto
<1>1. /\ UNCHANGED <<latest_action, action_queue, out_step, incoming, pos, future, lastExec, maxExec>>
      /\ UNCHANGED <<running, must_go, out_go, popped, action_chunk_size>>
      /\ control' \in ControlPc /\ receiver' \in ReceiverPc
      /\ control' = "pop" => control = "pop"
      /\ receiver' \notin {"merge", "swap", "signal"} => receiver \notin {"merge", "swap", "signal"}
  BY DEF ControlMoves, ReceiverMoves, ClientTypeOK, ReceiverPc
<1>2. /\ running \in BOOLEAN /\ must_go \in BOOLEAN /\ out_go \in BOOLEAN
      /\ popped \in BOOLEAN /\ action_chunk_size \in {-1, ChunkLen}
      /\ control = "pop" => maxExec < MaxStep
      /\ receiver \notin {"merge", "swap", "signal"} => pos = 1 /\ future = <<>>
  BY DEF ClientTypeOK, PlanInv
<1> QED BY <1>1, <1>2, QuietStep

(* A client and a server that just started satisfy the invariant.           *)
THEOREM Initially == Init => IInv
<1> SUFFICES ASSUME Init PROVE IInv OBVIOUS
<1> USE ServerAssumption, ClientAssumption, TimedDataAssumption, AsyncAssumption, CallsAssumption
    DEF Init, CallsInit, ServerInit, ClientInit
<1>1. TypeOK
  <2>1. <<>> \in Seq(Obs) /\ <<>> \in Seq(Steps) /\ {} \subseteq ObsSteps OBVIOUS
  <2>2. ServerTypeOK
    <3>1. /\ handler \in [Workers -> {"idle"} \cup Finished \cup SendPc \cup GetPc \cup AdminPc]
          /\ arg \in [Workers -> Obs \cup {NoObs}]
          /\ caller \in [Workers -> 0..MaxSession] /\ waits \in [Workers -> 0..MaxSession]
      OBVIOUS
    <3>2. queues \in [0..MaxSession -> Seq(Obs)] BY <2>1
    <3>3. /\ current \in 0..MaxSession /\ predicted \subseteq ObsSteps
          /\ policy \in 0..MaxSession /\ processors \in 0..MaxSession
      OBVIOUS
    <3>4. last_processed_obs \in BOOLEAN /\ shutdown \in BOOLEAN
      OBVIOUS
    <3> HIDE DEF Init, CallsInit, ServerInit, ClientInit
    <3> QED BY <3>1, <3>2, <3>3, <3>4 DEF ServerTypeOK
  <2>3. 0 \in ObsSteps /\ -1 \in Steps \cup {-1} /\ 1 \in Nat BY DEF ObsSteps
  <2>4. ClientTypeOK BY <2>1, <2>3 DEF ClientTypeOK, ControlPc, ReceiverPc
  <2> QED BY <2>2, <2>4 DEF TypeOK, CallsTypeOK
<1>2. ObsReached BY DEF ObsReached
<1>3. PlanInv BY DEF PlanInv, Gapless, MergedKept, Reached
<1>4. ArgHeld /\ CallsServed BY DEF ArgHeld, CallsServed, SendPc
<1>5. ReadysCounted
  <2>1. Resetting = {} BY DEF Resetting
  <2> QED BY <2>1, FS_EmptySet DEF ReadysCounted
<1> QED BY <1>1, <1>2, <1>3, <1>4, <1>5 DEF IInv

(* Every step of the two client threads, of a handler, and every network or *)
(* inference fault preserves the invariant.                                 *)
THEOREM Inductive == IInv /\ [Next]_vars => IInv'
<1> SUFFICES ASSUME IInv, [Next]_vars PROVE IInv' OBVIOUS
<1>i. /\ ServerTypeOK /\ ClientTypeOK /\ ObsReached /\ PlanInv
      /\ ArgHeld /\ ReadysCounted /\ CallsServed
      /\ controlCall \in Workers \cup {NoCall} /\ receiverCall \in Workers \cup {NoCall}
      /\ faults \in 0..FaultBudget /\ maxExec \in Int /\ NoCall \notin Workers
  BY AsyncAssumption, CallsAssumption DEF IInv, TypeOK, CallsTypeOK, ClientTypeOK, Steps
<1>f. faults \in Nat BY ResettingTypes
<1>c. ClientTypeOK' => maxExec' \in Int BY DEF ClientTypeOK, Steps
<1>1. CASE LocalStep(ControlStep)
  <2>1. ControlStep /\ UNCHANGED <<serverVars, callOf, faults>> BY <1>1 DEF LocalStep
  <2>2. ClientTypeOK' /\ PlanInv' /\ maxExec' >= maxExec BY <1>i, <2>1, ControlKeeps
  <2>3. control' # "start"
    BY <2>1 DEF ControlStep, ActionsAvailable, PopAction, PopEmpty, SetLatestAction, ControlGoto,
       ReadyToSendObservation, CaptureObservation, ClearMustGo, StopClient
  <2> QED BY <1>c, <2>1, <2>2, <2>3, ServerRests DEF IInv, TypeOK, CallsTypeOK
<1>2. CASE LocalStep(ReceiverStep)
  <2>1. ReceiverStep /\ UNCHANGED <<serverVars, callOf, faults>> BY <1>2 DEF LocalStep
  <2>2. ClientTypeOK' /\ PlanInv' /\ maxExec' = maxExec /\ control' = control
    BY <1>i, <2>1, ReceiverKeeps
  <2> QED BY <1>i, <1>c, <2>1, <2>2, ServerRests DEF IInv, TypeOK, CallsTypeOK
<1>3. CASE StartReady
  <2>1. PICK w \in Workers : /\ ControlMoves("start", "readying") /\ Call(w, "stop", NoObs, Me)
                             /\ controlCall' = w /\ UNCHANGED <<receiverCall, faults>>
    BY <1>3 DEF StartReady, CallReady
  <2>2. ClientTypeOK' /\ PlanInv' /\ UNCHANGED maxExec
    BY <1>i, <2>1, MovesKeep DEF ControlPc
  <2>3. control = "start" /\ control' # "start" BY <2>1 DEF ControlMoves, ControlGoto
  <2>4. NoObs \notin Obs BY ServerAssumption
  <2>5. ServerTypeOK' /\ ArgHeld' /\ ObsReached' /\ ReadysCounted' /\ CallsServed'
    BY <1>f, <2>1, <2>2, <2>3, <2>4, ControlCallKeeps
  <2> QED BY <1>i, <2>1, <2>2, <2>5 DEF IInv, TypeOK, CallsTypeOK
<1>4. CASE StartPolicy
  <2>1. PICK w \in Workers : /\ ControlMoves("instruct", "instructing") /\ Call(w, "load", NoObs, Me)
                             /\ controlCall' = w /\ UNCHANGED <<receiverCall, faults>>
    BY <1>4 DEF StartPolicy, CallSendPolicyInstructions
  <2>2. ClientTypeOK' /\ PlanInv' /\ UNCHANGED maxExec
    BY <1>i, <2>1, MovesKeep DEF ControlPc
  <2>3. control' # "start" BY <2>1 DEF ControlMoves, ControlGoto
  <2>4. NoObs \notin Obs BY ServerAssumption
  <2>5. ServerTypeOK' /\ ArgHeld' /\ ObsReached' /\ ReadysCounted' /\ CallsServed'
    BY <1>f, <2>1, <2>2, <2>3, <2>4, ControlCallKeeps
  <2> QED BY <1>i, <2>1, <2>2, <2>5 DEF IInv, TypeOK, CallsTypeOK
<1>5. CASE HandshakeReturns
  <2>1. /\ controlCall \in Workers /\ Free(controlCall) /\ UNCHANGED <<queueVars, stateVars>>
        /\ handler[controlCall] \notin {"stop", "flush"} /\ faults' \in Nat /\ faults' <= faults
        /\ controlCall' = NoCall /\ UNCHANGED <<receiverCall, faults>>
        /\ ControlMoves("readying", "instruct") \/ ControlMoves("instructing", "top")
    BY <1>i, <1>f, <1>5 DEF HandshakeReturns, Return, Finished
  <2>2. ClientTypeOK' /\ PlanInv' /\ UNCHANGED maxExec
    BY <1>i, <2>1, MovesKeep DEF ControlPc
  <2>3. control' # "start" BY <2>1 DEF ControlMoves, ControlGoto
  <2>4. ServerTypeOK' /\ ArgHeld' /\ ObsReached' /\ ReadysCounted' /\ CallsServed'
    BY <2>1, <2>2, <2>3, ControlReturnKeeps
  <2> QED BY <1>i, <2>1, <2>2, <2>4 DEF IInv, TypeOK, CallsTypeOK
<1>6. CASE SendObservation
  <2> DEFINE o == [step |-> out_step, go |-> out_go, from |-> Me]
  <2>1. PICK w \in Workers : /\ ControlMoves("send", "sent") /\ Call(w, "recv", o, Me)
                             /\ controlCall' = w /\ UNCHANGED <<receiverCall, faults>>
    BY <1>6 DEF SendObservation, CallSendObservations
  <2>2. ClientTypeOK' /\ PlanInv' /\ UNCHANGED maxExec
    BY <1>i, <2>1, MovesKeep DEF ControlPc
  <2>3. control' # "start" BY <2>1 DEF ControlMoves, ControlGoto
  <2>4. o \in Obs /\ o.step <= Reached
    BY <1>i, ServerAssumption DEF Obs, Me, ClientTypeOK, PlanInv
  <2>5. ServerTypeOK' /\ ArgHeld' /\ ObsReached' /\ ReadysCounted' /\ CallsServed'
    BY <1>f, <2>1, <2>2, <2>3, <2>4, ControlCallKeeps
  <2> QED BY <1>i, <2>1, <2>2, <2>5 DEF IInv, TypeOK, CallsTypeOK
<1>7. CASE SendReturns
  <2>1. /\ controlCall \in Workers /\ Free(controlCall) /\ UNCHANGED <<queueVars, stateVars>>
        /\ handler[controlCall] \notin {"stop", "flush"} /\ faults' \in Nat /\ faults' <= faults
        /\ controlCall' = NoCall /\ UNCHANGED <<receiverCall, faults>> /\ ObservationSent
    BY <1>i, <1>f, <1>7 DEF SendReturns, Return, Finished
  <2>2. ClientTypeOK' /\ PlanInv' BY <1>i, <2>1, ControlKeeps
  <2>3. control' # "start" /\ UNCHANGED maxExec
    BY <2>1 DEF ObservationSent, ControlGoto, historyVars
  <2>4. ServerTypeOK' /\ ArgHeld' /\ ObsReached' /\ ReadysCounted' /\ CallsServed'
    BY <2>1, <2>3, ControlReturnKeeps
  <2> QED BY <1>i, <2>1, <2>2, <2>4 DEF IInv, TypeOK, CallsTypeOK
<1>8. CASE PollActions
  <2>1. PICK w \in Workers : /\ ReceiverMoves("poll", "wait") /\ Call(w, "get", NoObs, Me)
                             /\ receiverCall' = w /\ UNCHANGED <<controlCall, faults>>
    BY <1>8 DEF PollActions, CallGetActions
  <2>2. ClientTypeOK' /\ PlanInv' /\ UNCHANGED maxExec BY <1>i, <2>1, MovesKeep
  <2>3. UNCHANGED control BY <2>1 DEF ReceiverMoves, controlVars
  <2>4. NoObs \notin Obs /\ Me \in 0..MaxSession BY ServerAssumption DEF Me
  <2>5. ServerTypeOK' /\ ArgHeld' /\ ObsReached' BY <1>i, <2>1, <2>2, <2>4, CallKeeps
  <2>6. /\ w # controlCall \/ controlCall = NoCall
        /\ w # NoCall
        /\ handler' = [handler EXCEPT ![w] = "get"] /\ arg' = [arg EXCEPT ![w] = NoObs]
        /\ current' = current
    BY <1>i, <2>1, <2>4, CallServed
  <2>7. ReadysCounted'
    <3>1. handler[w] = "idle" BY <2>1 DEF Call
    <3>2. Resetting' = Resetting BY <2>6, <3>1, ResettingTypes DEF Resetting
    <3> QED BY <2>1, <2>3, <2>6, <3>2, ResettingTypes, ReadysRest
  <2>8. CallsServed' BY <1>i, <2>1, <2>6 DEF CallsServed, ServerTypeOK, GetPc
  <2> QED BY <1>i, <2>1, <2>2, <2>5, <2>7, <2>8 DEF IInv, TypeOK, CallsTypeOK
<1>9. CASE ActionsReturn
  <2>1. /\ receiverCall \in Workers /\ Free(receiverCall) /\ UNCHANGED <<queueVars, stateVars>>
        /\ receiverCall' = NoCall /\ UNCHANGED <<controlCall, faults>>
        /\ handler[receiverCall] \in Finished
        /\ IF handler[receiverCall] = "ok" THEN ReceiveChunk(arg[receiverCall].step) ELSE PollAgain
    BY <1>i, <1>9 DEF ActionsReturn, Return
  <2>2. handler[receiverCall] = "ok" => arg[receiverCall] \in Obs
    BY <1>i, <2>1 DEF CallsServed, GetPc
  <2>3. handler[receiverCall] = "ok" =>
          arg[receiverCall].step \in ObsSteps /\ arg[receiverCall].step <= Reached
    BY <1>i, <2>1, <2>2, ServerAssumption DEF Obs, ObsReached
  <2>4. ClientTypeOK' /\ PlanInv' /\ UNCHANGED <<maxExec, control>>
    BY <1>i, <2>1, <2>3, ReceiverKeeps
  <2>5. ServerTypeOK' /\ ArgHeld' /\ ObsReached' BY <1>i, <2>1, <2>4, FreeKeeps
  <2>6. handler' = [handler EXCEPT ![receiverCall] = "idle"] /\ current' = current
    BY <2>1 DEF Free, Goto, queueVars
  <2>7. ReadysCounted'
    <3>1. Resetting' = Resetting BY <2>1, <2>6, ResettingTypes DEF Resetting, Finished
    <3> QED BY <2>1, <2>4, <2>6, <3>1, ResettingTypes, ReadysRest
  <2>8. CallsServed' BY <1>i, <2>1, <2>6 DEF CallsServed, ServerTypeOK
  <2> QED BY <1>i, <2>1, <2>4, <2>5, <2>7, <2>8 DEF IInv, TypeOK, CallsTypeOK
<1>10. CASE OrphanReturns
  <2>1. PICK w \in Workers \ {controlCall, receiverCall} :
          /\ Free(w) /\ UNCHANGED <<queueVars, stateVars>> /\ UNCHANGED <<clientVars, callOf, faults>>
          /\ handler[w] \in Finished
    BY <1>10 DEF OrphanReturns, OrphanReturn, Return
  <2> USE <2>1 DEF clientVars, controlVars, receiverVars, sharedVars, historyVars, callOf
  <2>2. ClientTypeOK' /\ PlanInv'
    BY <1>i DEF ClientTypeOK, PlanInv, Reached, Gapless, MergedKept
  <2>3. ServerTypeOK' /\ ArgHeld' /\ ObsReached' BY <1>i, FreeKeeps
  <2>4. handler' = [handler EXCEPT ![w] = "idle"] /\ current' = current
        /\ arg' = [arg EXCEPT ![w] = NoObs]
    BY DEF Free, Goto, queueVars
  <2>5. ReadysCounted'
    <3>1. Resetting' = Resetting BY <2>1, <2>4, ResettingTypes DEF Resetting, Finished
    <3> QED BY <2>4, <3>1, ResettingTypes, ReadysRest
  <2>6. CallsServed' BY <1>i, <2>4 DEF CallsServed, ServerTypeOK
  <2> QED BY <1>i, <2>2, <2>3, <2>5, <2>6 DEF IInv, TypeOK, CallsTypeOK
<1>11. CASE ServerStep \/ PredictionFails
  <2>1. PICK w \in Workers : /\ HandlerStep(w) \/ PredictFails(w)
                             /\ UNCHANGED <<clientVars, callOf>> /\ faults' \in 0..FaultBudget
                             /\ faults' \in Nat /\ faults' <= faults
    BY <1>i, <1>f, <1>11, AsyncAssumption, CallsAssumption DEF ServerStep, Server, PredictionFails, Fault
  <2> USE <2>1 DEF clientVars, controlVars, receiverVars, sharedVars, historyVars, callOf
  <2>2. ClientTypeOK' /\ PlanInv'
    BY <1>i DEF ClientTypeOK, PlanInv, Reached, Gapless, MergedKept
  <2>3. ServerTypeOK'
    <3>1. handler[w] = "flush" => current < MaxSession BY RoomForQueue
    <3> QED BY <1>i, <2>1, <3>1, HandlerTypes
  <2>4. ObsReached' BY <1>i, HandlerReached
  <2>5. ArgHeld' /\ ReadysCounted' /\ CallsServed' BY <1>i, HandlerCalls
  <2> QED BY <1>i, <2>2, <2>3, <2>4, <2>5 DEF IInv, TypeOK, CallsTypeOK
<1>12. CASE HandshakeFails \/ SendDropped \/ GetDropped
  <2>1. /\ UNCHANGED serverVars /\ faults' \in 0..FaultBudget
        /\ faults' \in Nat /\ faults' <= faults
        /\ \/ controlCall' = NoCall /\ UNCHANGED receiverCall
           \/ receiverCall' = NoCall /\ UNCHANGED controlCall
    BY <1>i, <1>f, <1>12, AsyncAssumption, CallsAssumption DEF HandshakeFails, SendDropped, GetDropped, Fault
  <2>2. ClientTypeOK' /\ PlanInv' /\ maxExec' = maxExec /\ (control' = "start" => control = "start")
    <3>1. CASE HandshakeFails
      BY <1>i, <3>1, MovesKeep DEF HandshakeFails, ControlPc, ControlMoves, ControlGoto
    <3>2. CASE SendDropped
      BY <1>i, <3>2, ControlKeeps DEF SendDropped, ObservationSent, ControlGoto, historyVars
    <3>3. CASE GetDropped
      BY <1>i, <3>3, ReceiverKeeps DEF GetDropped
    <3> QED BY <1>12, <3>1, <3>2, <3>3
  <2> USE <2>1, <2>2 DEF serverVars, callVars, queueVars, stateVars
  <2>3. ServerTypeOK' BY <1>i DEF ServerTypeOK
  <2>4. ObsReached' /\ ArgHeld' BY <1>i DEF ObsReached, ArgHeld, Reached
  <2>5. ReadysCounted'
    <3>1. Resetting' = Resetting /\ current' = current BY DEF Resetting
    <3> QED BY <2>1, <2>2, <3>1, ReadysRest
  <2>6. CallsServed' BY <1>i DEF CallsServed
  <2> QED BY <1>i, <2>3, <2>4, <2>5, <2>6 DEF IInv, TypeOK, CallsTypeOK
<1>13. CASE RequestLost
  <2>1. /\ controlCall \in Workers /\ Free(controlCall) /\ UNCHANGED <<queueVars, stateVars>>
        /\ controlCall' = NoCall /\ UNCHANGED receiverCall /\ ObservationSent
        /\ handler[controlCall] = "recv"
        /\ faults' \in 0..FaultBudget /\ faults' \in Nat /\ faults' <= faults
    BY <1>i, <1>f, <1>13, AsyncAssumption, CallsAssumption DEF RequestLost, Fault
  <2>2. ClientTypeOK' /\ PlanInv' BY <1>i, <2>1, ControlKeeps
  <2>3. control' # "start" /\ UNCHANGED maxExec
    BY <2>1 DEF ObservationSent, ControlGoto, historyVars
  <2>4. ServerTypeOK' /\ ArgHeld' /\ ObsReached' /\ ReadysCounted' /\ CallsServed'
    BY <2>1, <2>3, ControlReturnKeeps
  <2> QED BY <1>i, <2>1, <2>2, <2>4 DEF IInv, TypeOK, CallsTypeOK
<1>14. CASE ControlRetried
  <2> DEFINE o == [step |-> out_step, go |-> out_go, from |-> Me]
  <2>1. PICK w \in Workers :
          /\ \/ control = "readying" /\ Call(w, "stop", NoObs, Me)
             \/ control = "instructing" /\ Call(w, "load", NoObs, Me)
             \/ control = "sent" /\ Call(w, "recv", o, Me)
          /\ controlCall' = w /\ UNCHANGED <<clientVars, receiverCall>>
          /\ faults' = faults - 1 /\ faults' \in 0..FaultBudget /\ faults' \in Nat
    BY <1>i, <1>f, <1>14, AsyncAssumption, CallsAssumption
       DEF ControlRetried, CallReady, CallSendPolicyInstructions, CallSendObservations, Fault
  <2>2. ClientTypeOK' /\ PlanInv'
    BY <1>i, <2>1 DEF ClientTypeOK, PlanInv, Reached, Gapless, MergedKept,
       clientVars, controlVars, receiverVars, sharedVars, historyVars
  <2>3. control' # "start" /\ UNCHANGED maxExec
    BY <2>1 DEF clientVars, controlVars, historyVars
  <2>4. o \in Obs /\ o.step <= Reached
    BY <1>i, ServerAssumption DEF Obs, Me, ClientTypeOK, PlanInv
  <2>5. NoObs \notin Obs BY ServerAssumption
  <2> HIDE DEF o
  <2>6. ServerTypeOK' /\ ArgHeld' /\ ObsReached' /\ ReadysCounted' /\ CallsServed'
    <3>1. CASE Call(w, "stop", NoObs, Me)
      BY <2>1, <2>3, <2>5, <3>1, ControlCallKeeps
    <3>2. CASE Call(w, "load", NoObs, Me)
      BY <2>1, <2>3, <2>5, <3>2, ControlCallKeeps
    <3>3. CASE Call(w, "recv", o, Me)
      BY <2>1, <2>3, <2>4, <3>3, ControlCallKeeps
    <3> QED BY <2>1, <3>1, <3>2, <3>3
  <2> QED BY <1>i, <2>1, <2>2, <2>6 DEF IInv, TypeOK, CallsTypeOK
<1>16. CASE GetRetried
  <2>1. PICK w \in Workers : /\ Call(w, "get", NoObs, Me) /\ receiverCall' = w
                             /\ UNCHANGED <<clientVars, controlCall>>
                             /\ faults' \in 0..FaultBudget /\ faults' \in Nat /\ faults' <= faults
    BY <1>i, <1>f, <1>16, AsyncAssumption, CallsAssumption DEF GetRetried, CallGetActions, Fault
  <2>2. ClientTypeOK' /\ PlanInv' /\ UNCHANGED <<maxExec, control>>
    BY <1>i, <2>1 DEF ClientTypeOK, PlanInv, Reached, Gapless, MergedKept,
       clientVars, controlVars, receiverVars, sharedVars, historyVars
  <2>3. NoObs \notin Obs /\ Me \in 0..MaxSession BY ServerAssumption DEF Me
  <2>4. ServerTypeOK' /\ ArgHeld' /\ ObsReached' BY <1>i, <2>1, <2>2, <2>3, CallKeeps
  <2>5. /\ w # controlCall \/ controlCall = NoCall
        /\ w # NoCall
        /\ handler' = [handler EXCEPT ![w] = "get"] /\ arg' = [arg EXCEPT ![w] = NoObs]
        /\ current' = current
    BY <1>i, <2>1, <2>3, CallServed
  <2>6. ReadysCounted'
    <3>1. handler[w] = "idle" BY <2>1 DEF Call
    <3>2. Resetting' = Resetting BY <2>5, <3>1, ResettingTypes DEF Resetting
    <3> QED BY <2>1, <2>2, <2>5, <3>2, ReadysRest
  <2>7. CallsServed' BY <1>i, <2>1, <2>5 DEF CallsServed, ServerTypeOK, GetPc
  <2> QED BY <1>i, <2>1, <2>2, <2>4, <2>6, <2>7 DEF IInv, TypeOK, CallsTypeOK
<1>15. CASE Ended \/ UNCHANGED vars
  <2>1. UNCHANGED <<serverVars, callOf, faults>> /\ UNCHANGED clientVars
    BY <1>15 DEF Ended, vars
  <2> USE <2>1 DEF clientVars, controlVars, receiverVars, sharedVars, historyVars
  <2>2. ClientTypeOK' BY <1>i DEF ClientTypeOK
  <2>3. PlanInv' BY <1>i DEF PlanInv, Reached, Gapless, MergedKept
  <2>4. maxExec' = maxExec /\ control' = control OBVIOUS
  <2> QED BY <1>i, <2>1, <2>2, <2>3, <2>4, ServerRests DEF IInv, TypeOK, CallsTypeOK
<1> QED
  BY <1>1, <1>2, <1>3, <1>4, <1>5, <1>6, <1>7, <1>8, <1>9, <1>10, <1>11, <1>12, <1>13, <1>14, <1>15, <1>16
  DEF Next, ControlNext, ReceiverNext, FaultNext

(* Every value of every variable is of its type, and no plan has a gap.     *)
THEOREM Invariance == Spec => []IInv
BY Initially, Inductive, PTL DEF Spec

(* TypeOK holds for any number of workers, steps, sessions and faults.      *)
THEOREM TypeCorrect == Spec => []TypeOK
<1>1. IInv => TypeOK BY DEF IInv
<1> QED BY <1>1, Invariance, PTL

(* The head of a queue without gaps is at most one past what was executed:  *)
(* control_loop_action pops no timestep further away.                       *)
LEMMA NextActionIsReached ==
  ASSUME ClientTypeOK, PlanInv, action_queue # <<>>
  PROVE  Head(action_queue) <= maxExec + 1
<1>1. /\ action_queue \in Seq(Steps) /\ 1 \in 1..Len(action_queue)
      /\ Head(action_queue) = action_queue[1] /\ action_queue[1] \in Steps
      /\ maxExec \in Steps \cup {-1}
  BY DEF ClientTypeOK
<1>2. SUFFICES ASSUME action_queue[1] > maxExec + 1 PROVE FALSE
  BY <1>1, TimedDataAssumption DEF Steps
<1>3. maxExec + 1 \in Steps BY <1>1, <1>2, TimedDataAssumption DEF Steps
<1>4. \E j \in 1..(1 - 1) : action_queue[j] = maxExec + 1
  BY <1>1, <1>2, <1>3, TimedDataAssumption DEF PlanInv, Gapless, Steps
<1> QED BY <1>4

(* Whatever arrives late or gets lost, the robot never jumps over a timestep. *)
THEOREM NoSkip == Spec => NoTimestepSkipped
<1>1. IInv /\ [Next]_vars => [Executes => lastExec' <= maxExec + 1]_vars
  <2> SUFFICES ASSUME IInv, Next, Executes PROVE lastExec' <= maxExec + 1
    OBVIOUS
  <2>1. PopAction
    BY DEF Next, ControlNext, ReceiverNext, FaultNext, ServerStep, Server, OrphanReturns, Ended,
       StartReady, StartPolicy, HandshakeReturns, SendObservation, SendReturns, PollActions,
       ActionsReturn, HandshakeFails, RequestLost, SendDropped, GetDropped, ControlRetried, GetRetried,
       PredictionFails, LocalStep, ControlStep, ReceiverStep, ActionsAvailable, PopEmpty,
       SetLatestAction, ReadyToSendObservation, CaptureObservation, ClearMustGo, StopClient,
       PassBarrier, BeginIteration, EndIteration, IterationFails, MergeAction, MergeDone,
       SwapQueue, SetMustGo, ReceiverExits, PollAgain, ReceiveChunk, ObservationSent,
       ControlMoves, ReceiverMoves, ControlGoto, ReceiverGoto, controlVars, clientVars, vars,
       Executes
  <2> QED BY <2>1, NextActionIsReached DEF PopAction, IInv, TypeOK, CallsTypeOK
<1> QED BY <1>1, Invariance, PTL DEF Spec, NoTimestepSkipped

-----------------------------------------------------------------------------
(* The queue runs forward. *)

Rises(s) == \A i, j \in 1..Len(s) : i < j => s[i] < s[j]

(* What is merged so far comes before what is still to be merged.           *)
ForwardInv ==
  /\ QueueRunsForward
  /\ Rises(future)
  /\ \A i \in 1..Len(future) : \A p \in pos..Len(incoming) : future[i] < incoming[p]

LEMMA TailRises ==
  ASSUME NEW s \in Seq(Steps), s # <<>>, Rises(s)
  PROVE  Rises(Tail(s))
<1>1. Len(Tail(s)) = Len(s) - 1 /\ Len(s) \in Nat \ {0}
  OBVIOUS
<1>2. \A i \in 1..(Len(s) - 1) : Tail(s)[i] = s[i + 1]
  OBVIOUS
<1>3. SUFFICES ASSUME NEW i \in 1..(Len(s) - 1), NEW j \in 1..(Len(s) - 1), i < j
               PROVE  Tail(s)[i] < Tail(s)[j]
  BY <1>1 DEF Rises
<1>4. i + 1 \in 1..Len(s) /\ j + 1 \in 1..Len(s) /\ i + 1 < j + 1
  BY <1>1, <1>3
<1>5. s[i + 1] < s[j + 1]
  BY <1>4 DEF Rises
<1>6. QED
  BY <1>2, <1>5

LEMMA AppendRises ==
  ASSUME NEW s \in Seq(Steps), NEW e \in Steps, Rises(s), \A i \in 1..Len(s) : s[i] < e
  PROVE  Rises(Append(s, e))
<1> DEFINE t == Append(s, e)
<1>1. /\ Len(t) = Len(s) + 1 /\ Len(s) \in Nat
      /\ \A i \in 1..Len(s) : t[i] = s[i]
      /\ t[Len(s) + 1] = e
  OBVIOUS
<1> HIDE DEF t
<1>2. SUFFICES ASSUME NEW i \in 1..Len(t), NEW j \in 1..Len(t), i < j
               PROVE  t[i] < t[j]
  BY DEF Rises, t
<1>3. i \in 1..Len(s)
  BY <1>1, <1>2
<1>4. CASE j \in 1..Len(s)
  BY <1>1, <1>2, <1>3, <1>4 DEF Rises
<1>5. CASE j = Len(s) + 1
  BY <1>1, <1>3, <1>5
<1>6. QED
  BY <1>1, <1>4, <1>5

(* Which steps touch the queue or the merge.                                *)
LEMMA QueueSteps ==
  ASSUME receiverCall \in Workers \cup {NoCall}, [Next]_vars
  PROVE  \/ UNCHANGED <<action_queue, future, incoming, pos>>
         \/ PopAction \/ MergeAction \/ SwapQueue \/ SetMustGo
         \/ \E w \in Workers : handler[w] = "ok" /\ w = receiverCall /\ ReceiveChunk(arg[w].step)
<1> USE DEF clientVars, controlVars, receiverVars, sharedVars
<1>1. CASE ControlNext
  BY <1>1 DEF ControlNext, StartReady, StartPolicy, HandshakeReturns, SendObservation, SendReturns,
       LocalStep, ControlStep, ActionsAvailable, PopEmpty, SetLatestAction,
       ReadyToSendObservation, CaptureObservation, ClearMustGo, StopClient, ObservationSent,
       ControlMoves
<1>2. CASE PollActions \/ LocalStep(ReceiverStep)
  BY <1>2 DEF PollActions, LocalStep, ReceiverStep, PassBarrier, BeginIteration, EndIteration,
       IterationFails, MergeDone, ReceiverExits, ReceiverMoves
<1>3. CASE ActionsReturn
  <2>1. receiverCall \in Workers
    BY <1>3 DEF ActionsReturn
  <2>2. \/ handler[receiverCall] = "ok" /\ ReceiveChunk(arg[receiverCall].step)
        \/ PollAgain
    BY <1>3 DEF ActionsReturn
  <2>3. PollAgain => UNCHANGED <<action_queue, future, incoming, pos>>
    BY DEF PollAgain
  <2>4. QED
    BY <2>1, <2>2, <2>3
<1>4. CASE ServerStep \/ OrphanReturns \/ Ended \/ UNCHANGED vars
  BY <1>4 DEF ServerStep, Server, OrphanReturns, Ended, vars
<1>5. CASE FaultNext
  BY <1>5 DEF FaultNext, HandshakeFails, RequestLost, SendDropped, GetDropped, ControlRetried, GetRetried,
       PredictionFails, ObservationSent, PollAgain, ControlMoves
<1>6. QED
  BY <1>1, <1>2, <1>3, <1>4, <1>5 DEF Next, ReceiverNext

LEMMA StepForward == IInv /\ ForwardInv /\ [Next]_vars => ForwardInv'
<1> SUFFICES ASSUME IInv, ForwardInv, [Next]_vars
             PROVE  ForwardInv'
  OBVIOUS
<1>1. /\ action_queue \in Seq(Steps) /\ future \in Seq(Steps) /\ incoming \in Seq(Steps)
      /\ pos \in 1..(Len(incoming) + 1)
      /\ Rises(action_queue) /\ Rises(future)
      /\ \A i \in 1..Len(future) : \A p \in pos..Len(incoming) : future[i] < incoming[p]
  BY DEF IInv, TypeOK, CallsTypeOK, ClientTypeOK, PlanInv, ForwardInv, QueueRunsForward, Rises
<1>2. CASE UNCHANGED <<action_queue, future, incoming, pos>>
  BY <1>2 DEF ForwardInv, QueueRunsForward
<1>3. CASE PopAction
  <2>1. /\ action_queue # <<>> /\ action_queue' = Tail(action_queue)
        /\ UNCHANGED <<future, incoming, pos>>
    BY <1>3 DEF PopAction, receiverVars
  <2>2. Rises(Tail(action_queue))
    BY <1>1, <2>1, TailRises
  <2>3. QED
    BY <1>1, <2>1, <2>2 DEF ForwardInv, QueueRunsForward, Rises
<1>4. CASE MergeAction
  <2>1. /\ pos \in 1..Len(incoming) /\ pos' = pos + 1
        /\ future' = future \/ future' = Append(future, incoming[pos])
        /\ UNCHANGED <<action_queue, incoming>>
    BY <1>1, <1>4 DEF MergeAction, sharedVars
  <2>2. CASE future' = future
    <3>1. \A p \in (pos + 1)..Len(incoming) : p \in pos..Len(incoming)
      BY <1>1
    <3>2. QED
      BY <1>1, <2>1, <2>2, <3>1 DEF ForwardInv, QueueRunsForward
  <2>3. CASE future' = Append(future, incoming[pos])
    <3>1. incoming[pos] \in Steps /\ pos \in pos..Len(incoming) /\ Len(incoming) \in Nat
      BY <1>1, <2>1
    <3>2. Rises(Append(future, incoming[pos]))
      BY <1>1, <3>1, AppendRises
    <3>3. ASSUME NEW p \in (pos + 1)..Len(incoming)
          PROVE  incoming[pos] < incoming[p]
      <4>1. PICK first \in 0..Reached : incoming = Chunk(first)
        BY <2>1 DEF IInv, PlanInv
      <4>2. /\ Len(incoming) = ChunkLen
            /\ \A i \in 1..ChunkLen : incoming[i] = first + i - 1
        BY <4>1, TimedDataAssumption DEF Chunk
      <4>3. first \in Int /\ pos \in 1..ChunkLen /\ p \in 1..ChunkLen /\ pos < p
        BY <2>1, <3>3, <4>2
      <4>4. QED
        BY <4>2, <4>3
    <3>4. ASSUME NEW i \in 1..Len(future'), NEW p \in pos'..Len(incoming')
          PROVE  future'[i] < incoming'[p]
      <4>1. p \in (pos + 1)..Len(incoming) /\ p \in pos..Len(incoming)
        BY <1>1, <2>1, <3>4
      <4>2. CASE i \in 1..Len(future)
        <5>1. future'[i] = future[i]
          BY <1>1, <2>3, <3>1, <4>2
        <5>2. QED
          BY <1>1, <2>1, <4>1, <4>2, <5>1
      <4>3. CASE i = Len(future) + 1
        <5>1. future'[i] = incoming[pos]
          BY <1>1, <2>3, <3>1, <4>3
        <5>2. QED
          BY <2>1, <3>3, <4>1, <5>1
      <4>4. i \in 1..(Len(future) + 1) /\ Len(future) \in Nat
        BY <1>1, <2>3, <3>1, <3>4
      <4>5. QED
        BY <4>2, <4>3, <4>4
    <3>5. QED
      BY <1>1, <2>1, <2>3, <3>2, <3>4 DEF ForwardInv, QueueRunsForward
  <2>4. QED
    BY <2>1, <2>2, <2>3
<1>5. CASE SwapQueue
  <2>1. action_queue' = future /\ UNCHANGED <<future, incoming, pos>>
    BY <1>5 DEF SwapQueue
  <2>2. QED
    BY <1>1, <2>1 DEF ForwardInv, QueueRunsForward, Rises
<1>6. CASE SetMustGo
  <2>1. future' = <<>> /\ UNCHANGED action_queue
    BY <1>6 DEF SetMustGo
  <2>2. QED
    BY <1>1, <2>1 DEF ForwardInv, QueueRunsForward, Rises
<1>7. CASE \E w \in Workers : handler[w] = "ok" /\ w = receiverCall /\ ReceiveChunk(arg[w].step)
  <2>1. receiver = "wait" /\ UNCHANGED <<action_queue, future, pos>>
    BY <1>7 DEF ReceiveChunk, ReceiverGoto
  <2>2. future = <<>>
    BY <2>1 DEF IInv, PlanInv
  <2>3. QED
    BY <1>1, <2>1, <2>2 DEF ForwardInv, QueueRunsForward, Rises
<1>8. QED
  <2>1. receiverCall \in Workers \cup {NoCall}
    BY DEF IInv, TypeOK, CallsTypeOK
  <2>2. QED
    BY <1>2, <1>3, <1>4, <1>5, <1>6, <1>7, <2>1, QueueSteps

(* get_nowait() returns the timesteps of a queue in increasing order, for   *)
(* any chunk length and however the merge and the pops interleave.          *)
THEOREM QueueForward == Spec => []QueueRunsForward
<1>1. Init => ForwardInv
  BY DEF Init, ClientInit, ForwardInv, QueueRunsForward, Rises
<1>2. ForwardInv => QueueRunsForward
  BY DEF ForwardInv
<1>3. QED
  BY <1>1, <1>2, StepForward, Invariance, PTL DEF Spec

-----------------------------------------------------------------------------
(* The server under clients that may leave at any point (PolicySessions).   *)

(* A handler of a call of the main thread, which makes one after the other. *)
MainPc == SendPc \cup AdminPc

(* A handler that runs was called by the client that connected.             *)
Held == \A w \in Workers : handler[w] # "idle" => caller[w] = 1 /\ session = 1

(* At most one call of a main thread runs, and while the client is there it *)
(* is the one it waits for.                                                 *)
OneMain ==
  /\ \A v, w \in Workers : handler[v] \in MainPc /\ handler[w] \in MainPc => v = w
  /\ phase # "gone" => \A w \in Workers : handler[w] \in MainPc => w = controlCall

(* How far the handshake is, and what it left.                              *)
Readying ==
  IF controlCall = NoCall THEN current = 0
  ELSE /\ handler[controlCall] \in {"stop", "flush", "forget", "resume", "ok"}
       /\ handler[controlCall] = "ok" => ~shutdown

Instructing ==
  /\ ~shutdown
  /\ controlCall # NoCall =>
       /\ handler[controlCall] \in {"load", "make", "ok"}
       /\ handler[controlCall] \in {"make", "ok"} => policy = 1
       /\ handler[controlCall] = "ok" => processors = 1

Serving ==
  /\ policy = 1 /\ processors = 1
  /\ controlCall # NoCall => handler[controlCall] \in SendPc \cup Finished

Polling ==
  receiverCall # NoCall =>
    phase = "run" /\ receiverCall # controlCall /\ handler[receiverCall] \in GetPc \cup Finished

Shaken ==
  /\ session = 0 => current = 0 /\ phase = "gone"
  /\ phase = "gone" => controlCall = NoCall /\ receiverCall = NoCall
  /\ phase = "ready" => Readying
  /\ phase = "instruct" => Instructing
  /\ phase = "run" => Serving
  /\ Polling

Loaded ==
  \A w \in Workers :
    /\ handler[w] \in {"stop", "flush"} => current = 0
    /\ handler[w] \in GetPc => policy = 1 /\ processors = 1

(* The queue has its one place, and a sender has made room in it.           *)
RoomMade ==
  /\ Len(queues[current]) <= 1
  /\ \A w \in Workers : handler[w] # "blocked" /\ (handler[w] = "put" => queues[current] = <<>>)

SessionsInv == SessionsTypeOK /\ ArgHeld /\ Held /\ OneMain /\ Shaken /\ Loaded /\ RoomMade

(* The queue after a step of a handler: a put finds the room it was made.   *)
LEMMA HandlerRoom ==
  ASSUME ServerTypeOK, ArgHeld, OneMain, RoomMade, NEW w \in Workers,
         HandlerStep(w) \/ PredictFails(w), handler[w] = "flush" => current = 0
  PROVE  RoomMade'
<1> USE DEF ServerTypeOK, Goto, Move, callVars, queueVars, stateVars
<1>1. queues[current] \in Seq(Obs) /\ current \in 0..MaxSession OBVIOUS
<1>2. ASSUME UNCHANGED queueVars, handler' = [handler EXCEPT ![w] = handler'[w]],
             handler'[w] # "blocked", handler'[w] = "put" => queues[current] = <<>>
      PROVE  RoomMade'
  BY <1>2 DEF RoomMade
<1>3. CASE ReadyStop(w) BY <1>2, <1>3 DEF ReadyStop
<1>4. CASE ReadyFlush(w)
  <2>1. handler[w] = "flush" /\ current + 1 \in 0..MaxSession BY <1>4, ServerAssumption DEF ReadyFlush
  <2>2. queues'[current'] = <<>> BY <1>4, <2>1 DEF ReadyFlush
  <2>3. \A v \in Workers : handler'[v] # "blocked"
    BY <1>4, <2>1 DEF ReadyFlush, RoomMade
  <2> QED BY <2>2, <2>3 DEF RoomMade
<1>5. CASE ReadyForget(w) BY <1>2, <1>5 DEF ReadyForget
<1>6. CASE ReadyResume(w) BY <1>2, <1>6 DEF ReadyResume
<1>7. CASE LoadPolicy(w) BY <1>2, <1>7 DEF LoadPolicy
<1>8. CASE MakeProcessors(w) BY <1>2, <1>8 DEF MakeProcessors
<1>9. CASE Receive(w) BY <1>2, <1>9 DEF Receive
<1>10. CASE Filter(w) BY <1>2, <1>10 DEF Filter
<1>11. CASE CheckFull(w)
  <2>1. ~Full(current) => queues[current] = <<>> BY <1>1 DEF Full
  <2> QED BY <1>2, <1>11, <2>1 DEF CheckFull
<1>12. \A v \in Workers : v # w /\ handler[w] \in MainPc => handler[v] # "put"
  BY DEF OneMain, MainPc, SendPc
<1>13. CASE Evict(w)
  <2>1. CASE queues[current] = <<>> BY <1>2, <1>13, <2>1 DEF Evict
  <2>2. CASE queues[current] # <<>>
    <3>1. Tail(queues[current]) = <<>> BY <1>1, <2>2 DEF RoomMade
    <3>2. queues'[current'] = <<>> BY <1>13, <2>2, <3>1 DEF Evict, Popped
    <3>3. \A v \in Workers : handler'[v] # "blocked" BY <1>13, <2>2 DEF Evict, RoomMade
    <3> QED BY <3>2, <3>3 DEF RoomMade
  <2> QED BY <2>1, <2>2
<1>14. CASE Put(w)
  <2>1. handler[w] = "put" /\ arg[w] \in Obs BY <1>14 DEF Put, ArgHeld, SendPc
  <2>2. queues[current] = <<>> BY <2>1 DEF RoomMade
  <2>3. ~Full(current) BY <2>2 DEF Full
  <2>4. queues'[current'] = Append(queues[current], arg[w]) BY <1>14, <2>3 DEF Put, Pushed
  <2>5. Len(queues'[current']) <= 1 BY <2>1, <2>2, <2>4
  <2>6. \A v \in Workers : handler'[v] # "blocked" /\ handler'[v] # "put"
    BY <1>12, <1>14, <2>1, <2>3 DEF Put, RoomMade, MainPc, SendPc
  <2> QED BY <2>5, <2>6 DEF RoomMade
<1>15. CASE PutUnblocked(w) BY <1>15 DEF PutUnblocked, RoomMade
<1>16. CASE TakeObservation(w)
  <2>1. waits[w] \in 0..MaxSession /\ queues[waits[w]] # <<>> BY <1>16 DEF TakeObservation
  <2>2. CASE waits[w] = current
    <3>1. Tail(queues[current]) = <<>> BY <1>1, <2>1, <2>2 DEF RoomMade
    <3>2. queues'[current'] = <<>> BY <1>16, <2>2, <3>1 DEF TakeObservation, Popped
    <3>3. \A v \in Workers : handler'[v] # "blocked" BY <1>16 DEF TakeObservation, RoomMade
    <3> QED BY <3>2, <3>3 DEF RoomMade
  <2>3. CASE waits[w] # current
    <3>1. queues'[current'] = queues[current] BY <1>16, <2>3 DEF TakeObservation, Popped
    <3>2. \A v \in Workers : handler'[v] # "blocked" /\ (handler'[v] = "put" => handler[v] = "put")
      BY <1>16 DEF TakeObservation, RoomMade
    <3> QED BY <3>1, <3>2 DEF RoomMade
  <2> QED BY <2>2, <2>3
<1>17. CASE ObsQueueTimeout(w) BY <1>2, <1>17 DEF ObsQueueTimeout
<1>18. CASE MarkPredicted(w) BY <1>2, <1>18 DEF MarkPredicted
<1>19. CASE Prepare(w) BY <1>2, <1>19 DEF Prepare
<1>20. CASE Infer(w) BY <1>2, <1>20 DEF Infer
<1>21. CASE PredictFails(w) BY <1>2, <1>21 DEF PredictFails
<1> QED BY <1>3, <1>4, <1>5, <1>6, <1>7, <1>8, <1>9, <1>10, <1>11, <1>13, <1>14, <1>15, <1>16, <1>17, <1>18,
           <1>19, <1>20, <1>21
     DEF HandlerStep, AdminStep, SendObservationsStep, GetActionsStep

(* A step of a handler, of the client that is there or of one that left.    *)
LEMMA ServerKeepsSession ==
  ASSUME SessionsInv, NEW w \in Workers,
         HandlerStep(w) \/ PredictFails(w), UNCHANGED clientState
  PROVE  SessionsInv'
<1> USE DEF SessionsInv
<1>1. ServerTypeOK /\ handler \in [Workers -> {"idle"} \cup Finished \cup SendPc \cup GetPc \cup AdminPc]
      /\ current \in 0..MaxSession
  BY DEF SessionsTypeOK, CallsTypeOK, ServerTypeOK
<1>2. handler[w] = "flush" => current = 0 BY DEF Loaded
<1>3. SessionsTypeOK' BY <1>1, <1>2, ServerAssumption, HandlerTypes DEF SessionsTypeOK, CallsTypeOK, clientState, callOf
<1>4. /\ handler' = [handler EXCEPT ![w] = handler'[w]]
      /\ \A v \in Workers : v # w => handler'[v] = handler[v]
  BY <1>1, HandlerMoves
<1>5. /\ handler[w] # "idle"
      /\ handler'[w] \in SendPc => handler[w] \in SendPc
      /\ handler'[w] \in GetPc => handler[w] \in GetPc
      /\ handler'[w] \in MainPc => handler[w] \in MainPc
      /\ handler'[w] \in {"stop", "flush"} => handler[w] = "stop" /\ current' = current
      /\ current' # current => handler[w] = "flush"
  BY <1>1, HandlerMoves DEF SendPc, GetPc, AdminPc, MainPc
<1>6. ArgHeld' BY <1>1, HandlerMoves DEF ServerTypeOK, ArgHeld, SendPc, GetPc, AdminPc, Finished
<1>7. Held' BY <1>1, <1>4, <1>5, HandlerEffects DEF Held, clientState, callOf
<1>8. OneMain' BY <1>4, <1>5 DEF OneMain, clientState, callOf
<1>9. RoomMade' BY <1>1, <1>2, HandlerRoom
<1>10. caller[w] = 1 /\ session = 1 BY <1>5 DEF Held
<1>11. controlCall # w /\ handler[w] \in MainPc => phase = "gone" BY DEF OneMain
<1>12. Shaken' /\ Loaded'
  <2> USE <1>1, <1>4, <1>10 DEF clientState, callOf, Goto, Move, callVars, queueVars, stateVars
  <2>0. phase \in {"gone", "ready", "instruct", "run"} /\ NoCall \notin Workers
    BY CallsAssumption DEF SessionsTypeOK, CallsTypeOK
  <2>1. CASE ReadyStop(w) \/ ReadyFlush(w) \/ ReadyForget(w) \/ ReadyResume(w)
    <3>1. handler[w] \in {"stop", "flush", "forget", "resume"} /\ handler[w] \in MainPc
      BY <2>1 DEF ReadyStop, ReadyFlush, ReadyForget, ReadyResume, MainPc, AdminPc
    <3>2. phase # "gone" => phase = "ready" /\ controlCall = w
      BY <1>11, <2>0, <3>1 DEF Shaken, Instructing, Serving, SendPc, Finished
    <3>3. receiverCall = NoCall
      BY <2>0, <3>2 DEF Shaken, Polling
    <3>4. phase = "ready" => Readying'
      BY <2>0, <2>1, <3>2 DEF Readying, ReadyStop, ReadyFlush, ReadyForget, ReadyResume
    <3>5. Shaken' BY <1>10, <3>2, <3>3, <3>4 DEF Shaken, Polling
    <3>6. policy' = policy /\ processors' = processors
      BY <2>1 DEF ReadyStop, ReadyFlush, ReadyForget, ReadyResume
    <3>7. \A v \in Workers : handler'[v] \in {"stop", "flush"} => v = w /\ handler[w] = "stop" /\ current' = current
      BY <1>5, <3>1 DEF OneMain, MainPc, AdminPc
    <3>8. Loaded' BY <1>5, <3>6, <3>7 DEF Loaded
    <3> QED BY <3>5, <3>8
  <2>2. CASE LoadPolicy(w) \/ MakeProcessors(w)
    <3>1. handler[w] \in {"load", "make"} /\ handler[w] \in MainPc
      BY <2>2 DEF LoadPolicy, MakeProcessors, MainPc, AdminPc
    <3>2. phase # "gone" => phase = "instruct" /\ controlCall = w
      BY <1>11, <2>0, <3>1 DEF Shaken, Readying, Serving, SendPc, Finished
    <3>3. receiverCall = NoCall
      BY <2>0, <3>2 DEF Shaken, Polling
    <3>4. phase = "instruct" => Instructing'
      BY <2>0, <2>2, <3>2 DEF Shaken, Instructing, LoadPolicy, MakeProcessors
    <3>5. Shaken' BY <1>10, <3>2, <3>3, <3>4 DEF Shaken, Polling
    <3>6. /\ current' = current
          /\ policy' \in {policy, 1} /\ processors' \in {processors, 1}
      BY <2>2 DEF LoadPolicy, MakeProcessors
    <3>8. Loaded' BY <1>5, <3>6 DEF Loaded
    <3> QED BY <3>5, <3>8
  <2>3. CASE /\ UNCHANGED <<current, shutdown, policy, processors>>
             /\ \/ handler[w] \in SendPc /\ handler'[w] \in SendPc \cup {"ok", "err"}
                \/ handler[w] \in GetPc /\ handler'[w] \in GetPc \cup {"ok", "empty"}
    <3>1. w = controlCall => phase = "run"
      <4>1. handler[w] \notin {"stop", "flush", "forget", "resume", "load", "make", "ok"}
        BY <2>3 DEF SendPc, GetPc
      <4>2. phase = "ready" => w # controlCall BY <2>0, <4>1 DEF Shaken, Readying
      <4>3. phase = "instruct" => w # controlCall BY <2>0, <4>1 DEF Shaken, Instructing
      <4>4. phase = "gone" => w # controlCall BY <2>0 DEF Shaken
      <4> QED BY <2>0, <4>2, <4>3, <4>4
    <3>2. phase = "ready" => Readying'
      <4>1. SUFFICES ASSUME phase = "ready" PROVE Readying' OBVIOUS
      <4>2. w # controlCall /\ Readying BY <3>1, <4>1 DEF Shaken
      <4>3. controlCall # NoCall => handler'[controlCall] = handler[controlCall]
        BY <4>2 DEF SessionsTypeOK, CallsTypeOK
      <4> QED BY <2>3, <4>2, <4>3 DEF Readying
    <3>3. phase = "instruct" => Instructing'
      <4>1. SUFFICES ASSUME phase = "instruct" PROVE Instructing' OBVIOUS
      <4>2. w # controlCall /\ Instructing BY <3>1, <4>1 DEF Shaken
      <4>3. controlCall # NoCall => handler'[controlCall] = handler[controlCall]
        BY <4>2 DEF SessionsTypeOK, CallsTypeOK
      <4> QED BY <2>3, <4>2, <4>3 DEF Instructing
    <3>4. phase = "run" => Serving'
      <4>1. SUFFICES ASSUME phase = "run" PROVE Serving' OBVIOUS
      <4>2. Serving BY <4>1 DEF Shaken
      <4>3. CASE w = controlCall BY <2>3, <4>2, <4>3 DEF Serving, SendPc, GetPc, Finished
      <4>4. CASE w # controlCall
        <5>1. controlCall # NoCall => handler'[controlCall] = handler[controlCall]
          BY <4>4 DEF SessionsTypeOK, CallsTypeOK
        <5> QED BY <2>3, <4>2, <5>1 DEF Serving
      <4> QED BY <4>3, <4>4
    <3>5. Polling'
      <4>1. SUFFICES ASSUME receiverCall # NoCall PROVE Polling' BY DEF Polling
      <4>2. Polling BY DEF Shaken
      <4>3. CASE w = receiverCall BY <2>3, <4>1, <4>2, <4>3 DEF Polling, SendPc, GetPc, Finished
      <4>4. CASE w # receiverCall
        <5>1. handler'[receiverCall] = handler[receiverCall] BY <4>1, <4>4 DEF SessionsTypeOK, CallsTypeOK
        <5> QED BY <4>2, <5>1 DEF Polling
      <4> QED BY <4>3, <4>4
    <3>6. Shaken' BY <1>10, <3>2, <3>3, <3>4, <3>5 DEF Shaken
    <3>7. Loaded' BY <1>5, <2>3 DEF Loaded
    <3> QED BY <3>6, <3>7
  <2> QED BY <1>1, <2>1, <2>2, <2>3, HandlerEffects
<1> QED BY <1>3, <1>6, <1>7, <1>8, <1>9, <1>12

(* A call arrives: the main thread's when it has none, the receiver's while *)
(* the client runs.                                                         *)
LEMMA CallKeepsSession ==
  ASSUME SessionsInv, NEW w \in Workers, NEW step, NEW o,
         Call(w, step, o, session), session = 1, UNCHANGED <<session, phase>>,
         \/ /\ controlCall = NoCall /\ controlCall' = w /\ UNCHANGED receiverCall
            /\ \/ phase = "ready" /\ step = "stop" /\ o = NoObs
               \/ phase = "instruct" /\ step = "load" /\ o = NoObs
               \/ phase = "run" /\ step = "recv" /\ o \in Obs
         \/ /\ receiverCall = NoCall /\ receiverCall' = w /\ UNCHANGED controlCall
            /\ phase = "run" /\ step = "get" /\ o = NoObs
  PROVE  SessionsInv'
<1> USE DEF SessionsInv
<1>1. /\ handler[w] = "idle" /\ handler' = [handler EXCEPT ![w] = step]
      /\ arg' = [arg EXCEPT ![w] = o] /\ caller' = [caller EXCEPT ![w] = 1]
      /\ waits' = [waits EXCEPT ![w] = current]
      /\ UNCHANGED <<queues, current, predicted, last_processed_obs, shutdown, policy, processors>>
  BY DEF Call, Goto, queueVars, stateVars
<1>2. /\ ServerTypeOK /\ NoCall \notin Workers
      /\ handler \in [Workers -> {"idle"} \cup Finished \cup SendPc \cup GetPc \cup AdminPc]
      /\ arg \in [Workers -> Obs \cup {NoObs}] /\ caller \in [Workers -> 0..MaxSession]
      /\ waits \in [Workers -> 0..MaxSession] /\ current \in 0..MaxSession
  BY CallsAssumption DEF SessionsTypeOK, CallsTypeOK, ServerTypeOK
<1>3. step \in {"stop", "load", "recv", "get"} /\ o \in Obs \cup {NoObs} /\ (step = "recv" => o \in Obs)
  OBVIOUS
<1>4. SessionsTypeOK'
  <2>1. ServerTypeOK'
    BY <1>1, <1>2, <1>3, ServerAssumption DEF ServerTypeOK, SendPc, GetPc, AdminPc
  <2>2. controlCall' \in Workers \cup {NoCall} /\ receiverCall' \in Workers \cup {NoCall}
    BY DEF SessionsTypeOK, CallsTypeOK
  <2> QED BY <2>1, <2>2 DEF SessionsTypeOK, CallsTypeOK
<1>5. handler'[w] = step /\ \A v \in Workers : v # w => handler'[v] = handler[v]
  BY <1>1, <1>2
<1>6. ArgHeld' BY <1>1, <1>2, <1>3 DEF ArgHeld, SendPc
<1>7. Held' BY <1>1, <1>2 DEF Held
<1>8. RoomMade' BY <1>1, <1>3, <1>5 DEF RoomMade
<1>9. CASE controlCall = NoCall /\ controlCall' = w /\ UNCHANGED receiverCall /\ step # "get"
  <2>1. phase \in {"ready", "instruct", "run"} BY <1>9
  <2>2. \A v \in Workers : handler[v] \notin MainPc BY <1>2, <1>9, <2>1 DEF OneMain
  <2>3. OneMain' BY <1>5, <1>9, <2>2 DEF OneMain
  <2>4. receiverCall # NoCall => receiverCall # w /\ handler'[receiverCall] = handler[receiverCall]
    BY <1>1, <1>2, <1>5 DEF Shaken, Polling, GetPc, Finished, SessionsTypeOK, CallsTypeOK
  <2>5. Polling' BY <1>9, <2>4 DEF Shaken, Polling
  <2>6. phase = "ready" => current = 0 /\ step = "stop" BY <1>9 DEF Shaken, Readying
  <2>7. phase = "instruct" => ~shutdown /\ step = "load" BY <1>9 DEF Shaken, Instructing
  <2>8. phase = "run" => policy = 1 /\ processors = 1 /\ step = "recv" BY <1>9 DEF Shaken, Serving
  <2>9. phase = "ready" => Readying' BY <1>2, <1>5, <1>9, <2>6 DEF Readying
  <2>10. phase = "instruct" => Instructing' BY <1>1, <1>5, <1>9, <2>7 DEF Instructing
  <2>11. phase = "run" => Serving' BY <1>1, <1>5, <1>9, <2>8 DEF Serving, SendPc
  <2>12. Shaken' BY <2>1, <2>5, <2>9, <2>10, <2>11 DEF Shaken
  <2>13. Loaded' BY <1>1, <1>3, <1>5, <1>9, <2>1, <2>6, <2>7, <2>8 DEF Loaded, GetPc
  <2> QED BY <1>4, <1>6, <1>7, <1>8, <2>3, <2>12, <2>13
<1>10. CASE receiverCall = NoCall /\ receiverCall' = w /\ UNCHANGED controlCall /\ phase = "run" /\ step = "get"
  <2>1. "get" \notin MainPc BY DEF MainPc, SendPc, AdminPc
  <2>2. OneMain' BY <1>5, <1>10, <2>1 DEF OneMain
  <2>3. policy = 1 /\ processors = 1 BY <1>10 DEF Shaken, Serving
  <2>4. controlCall # NoCall => controlCall # w /\ handler'[controlCall] = handler[controlCall]
    BY <1>1, <1>5, <1>10 DEF Shaken, Serving, SendPc, Finished, SessionsTypeOK, CallsTypeOK
  <2>5. Serving' BY <1>1, <1>10, <2>4 DEF Shaken, Serving
  <2>6. Polling' BY <1>5, <1>10, <2>4, <1>2 DEF Polling, GetPc
  <2>7. Shaken' BY <1>10, <2>5, <2>6 DEF Shaken
  <2>8. Loaded' BY <1>1, <1>5, <1>10, <2>3 DEF Loaded
  <2> QED BY <1>4, <1>6, <1>7, <1>8, <2>2, <2>7, <2>8
<1> QED BY <1>9, <1>10

(* A reply frees the worker.                                                *)
LEMMA ReturnKeepsSession ==
  ASSUME SessionsInv, NEW w \in Workers, Return(w), UNCHANGED session,
         \/ /\ w = controlCall /\ controlCall' = NoCall /\ UNCHANGED receiverCall
            /\ phase' = IF phase = "ready" THEN "instruct" ELSE "run"
         \/ w = receiverCall /\ receiverCall' = NoCall /\ UNCHANGED <<controlCall, phase>>
         \/ w \notin {controlCall, receiverCall} /\ UNCHANGED clientState
  PROVE  SessionsInv'
<1> USE DEF SessionsInv
<1>1. /\ handler[w] \in Finished /\ handler' = [handler EXCEPT ![w] = "idle"]
      /\ arg' = [arg EXCEPT ![w] = NoObs] /\ caller' = [caller EXCEPT ![w] = 0]
      /\ waits' = [waits EXCEPT ![w] = 0]
      /\ UNCHANGED <<queues, current, predicted, last_processed_obs, shutdown, policy, processors>>
  BY DEF Return, Free, Goto, queueVars, stateVars
<1>2. /\ ServerTypeOK /\ NoCall \notin Workers
      /\ handler \in [Workers -> {"idle"} \cup Finished \cup SendPc \cup GetPc \cup AdminPc]
      /\ arg \in [Workers -> Obs \cup {NoObs}] /\ caller \in [Workers -> 0..MaxSession]
      /\ waits \in [Workers -> 0..MaxSession] /\ phase \in {"gone", "ready", "instruct", "run"}
  BY CallsAssumption DEF SessionsTypeOK, CallsTypeOK, ServerTypeOK
<1>3. SessionsTypeOK'
  <2>1. ServerTypeOK' BY <1>1, <1>2, ServerAssumption DEF ServerTypeOK
  <2>2. /\ controlCall' \in Workers \cup {NoCall} /\ receiverCall' \in Workers \cup {NoCall}
        /\ phase' \in {"gone", "ready", "instruct", "run"}
    BY DEF SessionsTypeOK, CallsTypeOK, clientState, callOf
  <2> QED BY <2>1, <2>2 DEF SessionsTypeOK, CallsTypeOK
<1>4. handler'[w] = "idle" /\ \A v \in Workers : v # w => handler'[v] = handler[v]
  BY <1>1, <1>2
<1>5. ArgHeld' BY <1>1, <1>2, <1>4 DEF ArgHeld, SendPc
<1>6. Held' BY <1>1, <1>2, <1>4 DEF Held
<1>7. RoomMade' BY <1>1, <1>4 DEF RoomMade
<1>8. Loaded' BY <1>1, <1>4 DEF Loaded, GetPc
<1>9. "idle" \notin MainPc /\ handler[w] \notin MainPc
  BY <1>1 DEF MainPc, SendPc, AdminPc, Finished
<1>10. \A v \in Workers : handler'[v] \in MainPc => handler[v] \in MainPc /\ v # w
  BY <1>4, <1>9
<1>11. CASE /\ w = controlCall /\ controlCall' = NoCall /\ UNCHANGED receiverCall
            /\ phase' = IF phase = "ready" THEN "instruct" ELSE "run"
  <2>1. phase # "gone" BY <1>2, <1>11 DEF Shaken
  <2>2. OneMain' BY <1>10, <1>11, <2>1 DEF OneMain
  <2>3. phase = "ready" => ~shutdown BY <1>1, <1>2, <1>11 DEF Shaken, Readying, Finished
  <2>4. phase = "instruct" => policy = 1 /\ processors = 1
    BY <1>1, <1>2, <1>11 DEF Shaken, Instructing, Finished
  <2>5. phase = "run" => policy = 1 /\ processors = 1 BY DEF Shaken, Serving
  <2>6. Polling'
    BY <1>2, <1>4, <1>11 DEF Shaken, Polling, SessionsTypeOK, CallsTypeOK
  <2>7. phase' = "instruct" => Instructing' BY <1>1, <1>11, <2>3 DEF Instructing
  <2>8. phase' = "run" => Serving' BY <1>1, <1>2, <1>11, <2>1, <2>4, <2>5 DEF Serving
  <2>9. Shaken' BY <1>11, <2>1, <2>6, <2>7, <2>8 DEF Shaken
  <2> QED BY <1>3, <1>5, <1>6, <1>7, <1>8, <2>2, <2>9
<1>12. ASSUME w # controlCall, UNCHANGED <<controlCall, phase>>,
              receiverCall' = NoCall \/ (w # receiverCall /\ receiverCall' = receiverCall)
       PROVE  SessionsInv'
  <2>1. OneMain' BY <1>10, <1>12 DEF OneMain
  <2>2. controlCall # NoCall => handler'[controlCall] = handler[controlCall]
    BY <1>4, <1>12 DEF SessionsTypeOK, CallsTypeOK
  <2>3. phase = "ready" => Readying' BY <1>1, <1>12, <2>2 DEF Shaken, Readying
  <2>4. phase = "instruct" => Instructing' BY <1>1, <1>12, <2>2 DEF Shaken, Instructing
  <2>5. phase = "run" => Serving' BY <1>1, <1>12, <2>2 DEF Shaken, Serving
  <2>6. receiverCall' # NoCall => handler'[receiverCall] = handler[receiverCall]
    BY <1>4, <1>12 DEF SessionsTypeOK, CallsTypeOK
  <2>7. Polling' BY <1>12, <2>6 DEF Shaken, Polling
  <2>8. Shaken' BY <1>1, <1>12, <2>3, <2>4, <2>5, <2>7 DEF Shaken
  <2> QED BY <1>3, <1>5, <1>6, <1>7, <1>8, <2>1, <2>8
<1>13. CASE w = receiverCall /\ receiverCall' = NoCall /\ UNCHANGED <<controlCall, phase>>
  <2>1. w # controlCall BY <1>2, <1>13 DEF Shaken, Polling
  <2> HIDE DEF SessionsInv
  <2> QED BY <1>12, <1>13, <2>1
<1>14. CASE w \notin {controlCall, receiverCall} /\ UNCHANGED clientState
  BY <1>12, <1>14 DEF clientState, callOf
<1> QED BY <1>11, <1>13, <1>14

(* Every step of PolicySessions up to the second client keeps the invariant. *)
LEMMA SessionsStep ==
  ASSUME SessionsInv, [SessionsNext]_sessionsVars, session <= 1, session' <= 1
  PROVE  SessionsInv'
<1>1. CASE UNCHANGED sessionsVars
  <2>1. /\ UNCHANGED <<handler, arg, caller, waits, queues, current, predicted,
                        last_processed_obs, shutdown, policy, processors>>
        /\ UNCHANGED <<session, phase, controlCall, receiverCall>>
    BY <1>1 DEF sessionsVars, serverVars, clientState, callOf
  <2> QED BY <2>1 DEF SessionsInv, SessionsTypeOK, CallsTypeOK, ServerTypeOK, ArgHeld, Held, OneMain, Shaken,
                      Readying, Instructing, Serving, Polling, Loaded, RoomMade
<1>2. CASE Connect
  <2>1. /\ UNCHANGED <<handler, arg, caller, waits, queues, current, predicted,
                        last_processed_obs, shutdown, policy, processors>>
        /\ UNCHANGED <<controlCall, receiverCall>>
        /\ phase = "gone" /\ phase' = "ready" /\ session < MaxSession /\ session' = session + 1
    BY <1>2 DEF Connect, serverVars
  <2>2. session = 0 /\ session' = 1 BY <2>1 DEF SessionsInv, SessionsTypeOK, CallsTypeOK
  <2>3. \A w \in Workers : handler[w] = "idle" BY <2>2 DEF SessionsInv, Held
  <2>4. current = 0 /\ controlCall = NoCall /\ receiverCall = NoCall
    BY <2>1, <2>2 DEF SessionsInv, Shaken
  <2>5. SessionsTypeOK' BY <2>1, <2>2, ServerAssumption DEF SessionsInv, SessionsTypeOK, CallsTypeOK, ServerTypeOK
  <2>6. ArgHeld' BY <2>1 DEF SessionsInv, ArgHeld
  <2>7. Held' BY <2>1, <2>3 DEF Held
  <2>8. OneMain' BY <2>1, <2>3 DEF OneMain, MainPc, SendPc, AdminPc
  <2>9. Shaken' BY <2>1, <2>2, <2>4 DEF Shaken, Readying, Polling
  <2>10. Loaded' BY <2>1 DEF SessionsInv, Loaded
  <2>11. RoomMade' BY <2>1 DEF SessionsInv, RoomMade
  <2> QED BY <2>5, <2>6, <2>7, <2>8, <2>9, <2>10, <2>11 DEF SessionsInv
<1>3. CASE Disconnect
  <2>1. /\ UNCHANGED <<handler, arg, caller, waits, queues, current, predicted,
                        last_processed_obs, shutdown, policy, processors>>
        /\ session' = session
        /\ phase # "gone" /\ phase' = "gone" /\ controlCall' = NoCall /\ receiverCall' = NoCall
    BY <1>3 DEF Disconnect, serverVars
  <2>2. SessionsTypeOK' BY <2>1 DEF SessionsInv, SessionsTypeOK, CallsTypeOK, ServerTypeOK
  <2>3. ArgHeld' /\ Held' BY <2>1 DEF SessionsInv, ArgHeld, Held
  <2>4. OneMain' BY <2>1 DEF SessionsInv, OneMain
  <2>5. Shaken' BY <2>1 DEF SessionsInv, Shaken, Polling
  <2>6. Loaded' /\ RoomMade' BY <2>1 DEF SessionsInv, Loaded, RoomMade
  <2> QED BY <2>2, <2>3, <2>4, <2>5, <2>6 DEF SessionsInv
<1>4. controlCall # NoCall \/ phase # "gone" => session = 1
  BY DEF SessionsInv, SessionsTypeOK, CallsTypeOK, Shaken
<1>5. CASE MainThreadCalls
  <2>1. PICK w \in Workers :
          /\ controlCall = NoCall
          /\ \/ phase = "ready" /\ Call(w, "stop", NoObs, session)
             \/ phase = "instruct" /\ Call(w, "load", NoObs, session)
             \/ phase = "run" /\ \E o \in Obs : o.from = session /\ Call(w, "recv", o, o.from)
          /\ controlCall' = w
          /\ UNCHANGED <<session, phase, receiverCall>>
    BY <1>5 DEF MainThreadCalls, CallReady, CallSendPolicyInstructions, CallSendObservations
  <2>2. session = 1 BY <1>4, <2>1
  <2>3. CASE phase = "ready" /\ Call(w, "stop", NoObs, session)
    BY <2>1, <2>2, <2>3, CallKeepsSession
  <2>4. CASE phase = "instruct" /\ Call(w, "load", NoObs, session)
    BY <2>1, <2>2, <2>4, CallKeepsSession
  <2>5. CASE phase = "run" /\ \E o \in Obs : o.from = session /\ Call(w, "recv", o, o.from)
    <3>1. PICK o \in Obs : Call(w, "recv", o, session) BY <2>5
    <3> QED BY <2>1, <2>2, <2>5, <3>1, CallKeepsSession
  <2> QED BY <2>1, <2>3, <2>4, <2>5
<1>6. CASE MainThreadReturns
  <2>1. /\ controlCall # NoCall /\ Return(controlCall) /\ controlCall' = NoCall
        /\ phase' = IF phase = "ready" THEN "instruct" ELSE "run"
        /\ UNCHANGED <<session, receiverCall>>
    BY <1>6 DEF MainThreadReturns, NextPhase
  <2>2. controlCall \in Workers BY <2>1 DEF SessionsInv, SessionsTypeOK, CallsTypeOK
  <2> QED BY <2>1, <2>2, ReturnKeepsSession
<1>7. CASE ReceiverCalls
  <2>1. PICK w \in Workers :
          /\ phase = "run" /\ receiverCall = NoCall /\ Call(w, "get", NoObs, session)
          /\ receiverCall' = w /\ UNCHANGED <<session, phase, controlCall>>
    BY <1>7 DEF ReceiverCalls, CallGetActions
  <2>2. session = 1 BY <1>4, <2>1
  <2> QED BY <2>1, <2>2, CallKeepsSession
<1>8. CASE ReceiverReturns
  <2>1. /\ receiverCall # NoCall /\ Return(receiverCall) /\ receiverCall' = NoCall
        /\ UNCHANGED <<session, phase, controlCall>>
    BY <1>8 DEF ReceiverReturns
  <2>2. receiverCall \in Workers BY <2>1 DEF SessionsInv, SessionsTypeOK, CallsTypeOK
  <2> QED BY <2>1, <2>2, ReturnKeepsSession
<1>9. CASE LeftoverReturns
  <2>1. PICK w \in Workers : w \notin {controlCall, receiverCall} /\ Return(w) /\ UNCHANGED clientState
    BY <1>9 DEF LeftoverReturns, OrphanReturn, clientState, callOf
  <2> QED BY <2>1, ReturnKeepsSession DEF clientState, callOf
<1>10. CASE HandlersRun \/ InferenceFails
  <2>1. PICK w \in Workers : (HandlerStep(w) \/ PredictFails(w)) /\ UNCHANGED clientState
    BY <1>10 DEF HandlersRun, InferenceFails, clientState, callOf
  <2> QED BY <2>1, ServerKeepsSession
<1> QED BY <1>1, <1>2, <1>3, <1>5, <1>6, <1>7, <1>8, <1>9, <1>10 DEF SessionsNext

-----------------------------------------------------------------------------
(* Any number of clients, one after the other.                              *)

(* The client may still call Ready, whose handlers replace the queue        *)
(* (Resetting): each client does so at most once, whatever it left behind,  *)
(* so that there are never more queues than clients.                        *)
MayReset == IF phase = "ready" /\ controlCall = NoCall THEN 1 ELSE 0

ResetsCounted ==
  /\ IsFiniteSet(Resetting)
  /\ current + Cardinality(Resetting) + MayReset <= session

ClientsInv == SessionsTypeOK /\ ArgHeld /\ ResetsCounted

LEMMA CountTypes ==
  ASSUME ClientsInv
  PROVE  /\ session \in 0..MaxSession /\ current \in 0..MaxSession /\ MaxSession \in Nat
         /\ Cardinality(Resetting) \in Nat /\ MayReset \in {0, 1}
         /\ handler \in [Workers -> {"idle"} \cup Finished \cup SendPc \cup GetPc \cup AdminPc]
  BY ServerAssumption, FS_CardinalityType
     DEF ClientsInv, ResetsCounted, SessionsTypeOK, CallsTypeOK, ServerTypeOK, MayReset

(* A handler on its way to a new queue has a client to answer for it.       *)
LEMMA ResettingHasClient ==
  ASSUME ClientsInv, NEW w \in Resetting
  PROVE  current < session
<1>1. Cardinality(Resetting) # 0 BY FS_EmptySet DEF ClientsInv, ResetsCounted
<1> QED BY <1>1, CountTypes DEF ClientsInv, ResetsCounted

LEMMA HandlersCounted ==
  ASSUME ClientsInv, NEW w \in Workers, HandlerStep(w) \/ PredictFails(w), UNCHANGED clientState
  PROVE  ClientsInv'
<1>1. ServerTypeOK /\ ArgHeld BY DEF ClientsInv, SessionsTypeOK, CallsTypeOK
<1>2. handler[w] = "flush" => current < MaxSession
  BY CountTypes, ResettingHasClient DEF Resetting
<1>3. ServerTypeOK' BY <1>1, <1>2, HandlerTypes
<1>4. SessionsTypeOK' BY <1>3 DEF ClientsInv, SessionsTypeOK, CallsTypeOK, clientState, callOf
<1>5. ArgHeld' BY <1>1, HandlerMoves DEF ServerTypeOK, ArgHeld, SendPc, GetPc, AdminPc, Finished
<1>6. handler' = [handler EXCEPT ![w] = handler'[w]] BY <1>1, HandlerMoves
<1>7. \A v \in Workers : v # w => handler'[v] = handler[v] BY <1>6, CountTypes
<1>8. CASE ReadyFlush(w)
  <2>1. /\ w \in Resetting /\ current' = current + 1 /\ handler'[w] = "forget"
    BY <1>8, CountTypes DEF ReadyFlush, Move, Goto, Resetting
  <2>2. Resetting' = Resetting \ {w} BY <1>7, <2>1 DEF Resetting
  <2>3. IsFiniteSet(Resetting) BY DEF ClientsInv, ResetsCounted
  <2>4. IsFiniteSet(Resetting') /\ Cardinality(Resetting') = Cardinality(Resetting) - 1
    BY <2>1, <2>2, <2>3, FS_RemoveElement
  <2>5. ResetsCounted'
    BY <2>1, <2>4, CountTypes DEF ClientsInv, ResetsCounted, MayReset, clientState, callOf
  <2> QED BY <1>4, <1>5, <2>5 DEF ClientsInv
<1>9. CASE ~ReadyFlush(w)
  <2>1. current' = current /\ (handler'[w] \in {"stop", "flush"} <=> handler[w] \in {"stop", "flush"})
    BY <1>1, <1>9, HandlerEffects, CountTypes
       DEF ReadyStop, ReadyForget, ReadyResume, LoadPolicy, MakeProcessors, Move, Goto, queueVars,
           SendPc, GetPc
  <2>2. Resetting' = Resetting BY <1>7, <2>1 DEF Resetting
  <2>3. ResetsCounted'
    BY <2>1, <2>2 DEF ClientsInv, ResetsCounted, MayReset, clientState, callOf
  <2> QED BY <1>4, <1>5, <2>3 DEF ClientsInv
<1> QED BY <1>8, <1>9

(* A call: only that of a client that shook no hands yet is for a reset.    *)
LEMMA CallCounted ==
  ASSUME ClientsInv, NEW w \in Workers, NEW step \in {"stop", "load", "recv", "get"},
         NEW o \in Obs \cup {NoObs}, Call(w, step, o, session), step = "recv" => o \in Obs,
         UNCHANGED <<session, phase>>, controlCall' \in Workers \cup {NoCall},
         receiverCall' \in Workers \cup {NoCall},
         step = "stop" => MayReset = 1 /\ MayReset' = 0, step # "stop" => MayReset' = MayReset
  PROVE  ClientsInv'
<1>1. /\ handler[w] = "idle" /\ handler' = [handler EXCEPT ![w] = step]
      /\ arg' = [arg EXCEPT ![w] = o] /\ caller' = [caller EXCEPT ![w] = session]
      /\ waits' = [waits EXCEPT ![w] = current]
      /\ UNCHANGED <<queues, current, predicted, last_processed_obs, shutdown, policy, processors>>
  BY DEF Call, Goto, queueVars, stateVars
<1>2. ServerTypeOK BY DEF ClientsInv, SessionsTypeOK, CallsTypeOK
<1>types. ServerTypeOK' BY <1>1, <1>2, CountTypes DEF ServerTypeOK, SendPc, GetPc, AdminPc
<1>3. SessionsTypeOK' BY <1>types DEF ClientsInv, SessionsTypeOK, CallsTypeOK
<1>4. ArgHeld' BY <1>1, <1>2 DEF ClientsInv, ArgHeld, ServerTypeOK, SendPc
<1>5. handler'[w] = step /\ \A v \in Workers : v # w => handler'[v] = handler[v]
  BY <1>1, CountTypes
<1>6. w \notin Resetting /\ IsFiniteSet(Resetting) BY <1>1 DEF ClientsInv, ResetsCounted, Resetting
<1>7. CASE step = "stop"
  <2>1. Resetting' = Resetting \cup {w} BY <1>5, <1>7 DEF Resetting
  <2>2. IsFiniteSet(Resetting') /\ Cardinality(Resetting') = Cardinality(Resetting) + 1
    BY <1>6, <2>1, FS_AddElement
  <2>3. ResetsCounted' BY <1>1, <1>7, <2>2, CountTypes DEF ClientsInv, ResetsCounted
  <2> QED BY <1>3, <1>4, <2>3 DEF ClientsInv
<1>8. CASE step # "stop"
  <2>1. step \notin {"stop", "flush"} BY <1>8
  <2>2. Resetting' = Resetting BY <1>1, <1>5, <2>1 DEF Resetting
  <2>3. ResetsCounted' BY <1>1, <1>8, <2>2 DEF ClientsInv, ResetsCounted
  <2> QED BY <1>3, <1>4, <2>3 DEF ClientsInv
<1> QED BY <1>7, <1>8

(* A reply: the client goes on to the next phase, not back to the handshake. *)
LEMMA ReturnCounted ==
  ASSUME ClientsInv, NEW w \in Workers, Return(w), session' = session,
         phase' \in {"gone", "ready", "instruct", "run"}, controlCall' \in Workers \cup {NoCall},
         receiverCall' \in Workers \cup {NoCall}, MayReset' = 0 \/ MayReset' = MayReset
  PROVE  ClientsInv'
<1>1. /\ handler[w] \in Finished /\ handler' = [handler EXCEPT ![w] = "idle"]
      /\ arg' = [arg EXCEPT ![w] = NoObs] /\ caller' = [caller EXCEPT ![w] = 0]
      /\ waits' = [waits EXCEPT ![w] = 0]
      /\ UNCHANGED <<queues, current, predicted, last_processed_obs, shutdown, policy, processors>>
  BY DEF Return, Free, Goto, queueVars, stateVars
<1>2. ServerTypeOK BY DEF ClientsInv, SessionsTypeOK, CallsTypeOK
<1>3. ServerTypeOK'
  <2>1. 0 \in 0..MaxSession BY ServerAssumption
  <2> QED BY <1>1, <1>2, <2>1 DEF ServerTypeOK
<1>4. SessionsTypeOK' BY <1>3 DEF ClientsInv, SessionsTypeOK, CallsTypeOK
<1>5. ArgHeld' BY <1>1, <1>2 DEF ClientsInv, ArgHeld, ServerTypeOK, SendPc
<1>6. Resetting' = Resetting BY <1>1, CountTypes DEF Resetting, Finished
<1>7. ResetsCounted' BY <1>1, <1>6, CountTypes DEF ClientsInv, ResetsCounted
<1> QED BY <1>4, <1>5, <1>7 DEF ClientsInv

LEMMA ClientsStep == ClientsInv /\ [SessionsNext]_sessionsVars => ClientsInv'
<1> SUFFICES ASSUME ClientsInv, [SessionsNext]_sessionsVars PROVE ClientsInv' OBVIOUS
<1>1. /\ controlCall \in Workers \cup {NoCall} /\ receiverCall \in Workers \cup {NoCall}
      /\ phase \in {"gone", "ready", "instruct", "run"} /\ NoCall \notin Workers
  BY CallsAssumption DEF ClientsInv, SessionsTypeOK, CallsTypeOK
<1>2. ASSUME UNCHANGED serverVars, UNCHANGED callOf \/ (controlCall' = NoCall /\ receiverCall' = NoCall),
             session' \in 0..MaxSession, phase' \in {"gone", "ready", "instruct", "run"},
             MayReset' + session <= session' + MayReset
      PROVE  ClientsInv'
  <2>1. /\ UNCHANGED <<handler, arg, caller, waits, queues, current, predicted,
                        last_processed_obs, shutdown, policy, processors>>
        /\ controlCall' \in Workers \cup {NoCall} /\ receiverCall' \in Workers \cup {NoCall}
    BY <1>1, <1>2 DEF serverVars, callOf
  <2>2. SessionsTypeOK' /\ ArgHeld'
    BY <1>2, <2>1 DEF ClientsInv, SessionsTypeOK, CallsTypeOK, ServerTypeOK, ArgHeld
  <2>3. Resetting' = Resetting BY <2>1 DEF Resetting
  <2>4. MayReset' \in {0, 1} BY DEF MayReset
  <2>5. ResetsCounted' BY <1>2, <2>1, <2>3, <2>4, CountTypes DEF ClientsInv, ResetsCounted
  <2> QED BY <2>2, <2>5 DEF ClientsInv
<1>3. CASE UNCHANGED sessionsVars
  <2>1. UNCHANGED <<serverVars, callOf, session, phase, controlCall>>
    BY <1>3 DEF sessionsVars, clientState, callOf
  <2>2. MayReset' = MayReset BY <2>1 DEF MayReset
  <2> QED BY <1>1, <1>2, <2>1, <2>2, CountTypes
<1>4. CASE Connect
  <2>1. /\ UNCHANGED <<serverVars, callOf>> /\ session < MaxSession /\ session' = session + 1
        /\ phase = "gone" /\ phase' = "ready"
    BY <1>4 DEF Connect, callOf
  <2>2. MayReset = 0 /\ MayReset' \in {0, 1} BY <2>1 DEF MayReset
  <2> QED BY <1>2, <2>1, <2>2, CountTypes
<1>5. CASE Disconnect
  <2>1. /\ UNCHANGED serverVars /\ session' = session /\ phase' = "gone"
        /\ controlCall' = NoCall /\ receiverCall' = NoCall
    BY <1>5 DEF Disconnect
  <2>2. MayReset' = 0 BY <2>1 DEF MayReset
  <2> QED BY <1>2, <2>1, <2>2, CountTypes
<1>6. CASE MainThreadCalls
  <2>1. PICK w \in Workers :
          /\ controlCall = NoCall
          /\ \/ phase = "ready" /\ Call(w, "stop", NoObs, session)
             \/ phase = "instruct" /\ Call(w, "load", NoObs, session)
             \/ phase = "run" /\ \E o \in Obs : Call(w, "recv", o, session)
          /\ controlCall' = w
          /\ UNCHANGED <<session, phase, receiverCall>>
    BY <1>6 DEF MainThreadCalls, CallReady, CallSendPolicyInstructions, CallSendObservations
  <2>2. /\ MayReset' = 0 /\ (phase = "ready" => MayReset = 1) /\ (phase # "ready" => MayReset = 0)
    BY <1>1, <2>1 DEF MayReset
  <2>3. controlCall' \in Workers \cup {NoCall} /\ receiverCall' \in Workers \cup {NoCall}
    BY <1>1, <2>1
  <2>4. CASE phase = "ready" /\ Call(w, "stop", NoObs, session)
    BY <2>1, <2>2, <2>3, <2>4, CallCounted
  <2>5. CASE phase = "instruct" /\ Call(w, "load", NoObs, session)
    BY <2>1, <2>2, <2>3, <2>5, CallCounted
  <2>6. CASE phase = "run" /\ \E o \in Obs : Call(w, "recv", o, session)
    BY <2>1, <2>2, <2>3, <2>6, CallCounted
  <2> QED BY <2>1, <2>4, <2>5, <2>6
<1>7. CASE ReceiverCalls
  <2>1. PICK w \in Workers :
          /\ phase = "run" /\ Call(w, "get", NoObs, session)
          /\ receiverCall' = w /\ UNCHANGED <<session, phase, controlCall>>
    BY <1>7 DEF ReceiverCalls, CallGetActions
  <2>2. MayReset' = MayReset BY <2>1 DEF MayReset
  <2> QED BY <1>1, <2>1, <2>2, CallCounted
<1>8. CASE MainThreadReturns
  <2>1. /\ controlCall \in Workers /\ Return(controlCall) /\ controlCall' = NoCall
        /\ phase' \in {"instruct", "run"} /\ UNCHANGED <<session, receiverCall>>
    BY <1>1, <1>8 DEF MainThreadReturns, NextPhase
  <2>2. MayReset' = 0 BY <2>1 DEF MayReset
  <2> QED BY <1>1, <2>1, <2>2, ReturnCounted
<1>9. CASE ReceiverReturns
  <2>1. /\ receiverCall \in Workers /\ Return(receiverCall) /\ receiverCall' = NoCall
        /\ UNCHANGED <<session, phase, controlCall>>
    BY <1>1, <1>9 DEF ReceiverReturns
  <2>2. MayReset' = MayReset BY <2>1 DEF MayReset
  <2> QED BY <1>1, <2>1, <2>2, ReturnCounted
<1>10. CASE LeftoverReturns
  <2>1. PICK w \in Workers : Return(w) /\ UNCHANGED <<session, phase, controlCall, receiverCall>>
    BY <1>10 DEF LeftoverReturns, OrphanReturn, callOf
  <2>2. MayReset' = MayReset BY <2>1 DEF MayReset
  <2> QED BY <1>1, <2>1, <2>2, ReturnCounted
<1>11. CASE HandlersRun \/ InferenceFails
  BY <1>11, HandlersCounted DEF HandlersRun, InferenceFails
<1> QED BY <1>3, <1>4, <1>5, <1>6, <1>7, <1>8, <1>9, <1>10, <1>11 DEF SessionsNext

LEMMA SessionsInitially == SessionsInit => SessionsInv /\ ClientsInv
<1> SUFFICES ASSUME SessionsInit PROVE SessionsInv /\ ClientsInv OBVIOUS
<1>1. /\ handler = [w \in Workers |-> "idle"] /\ arg = [w \in Workers |-> NoObs]
      /\ caller = [w \in Workers |-> 0] /\ waits = [w \in Workers |-> 0]
      /\ queues = [q \in 0..MaxSession |-> <<>>] /\ current = 0 /\ predicted = {}
      /\ last_processed_obs = FALSE /\ shutdown = FALSE /\ policy = 0 /\ processors = 0
      /\ session = 0 /\ phase = "gone" /\ controlCall = NoCall /\ receiverCall = NoCall
  BY DEF SessionsInit, CallsInit, ServerInit
<1>2. SessionsTypeOK
  <2>1. <<>> \in Seq(Obs) /\ 0 \in 0..MaxSession BY ServerAssumption
  <2>2. ServerTypeOK BY <1>1, <2>1 DEF ServerTypeOK
  <2> QED BY <1>1, <2>1, <2>2 DEF SessionsTypeOK, CallsTypeOK
<1>3. ArgHeld /\ Held BY <1>1 DEF ArgHeld, Held, SendPc
<1>4. OneMain BY <1>1 DEF OneMain, MainPc, SendPc, AdminPc
<1>5. Shaken BY <1>1 DEF Shaken, Polling
<1>6. Loaded BY <1>1 DEF Loaded, GetPc
<1>7. RoomMade
  <2>1. queues[current] = <<>> BY <1>1, ServerAssumption
  <2> QED BY <1>1, <2>1 DEF RoomMade
<1>8. Resetting = {} /\ MayReset = 0 BY <1>1 DEF Resetting, MayReset
<1>9. ResetsCounted BY <1>1, <1>8, FS_EmptySet DEF ResetsCounted
<1> QED BY <1>2, <1>3, <1>4, <1>5, <1>6, <1>7, <1>9 DEF SessionsInv, ClientsInv

(* However many clients come and go, with calls they left behind still      *)
(* running: types, and Ready makes a queue for each client at most.         *)
THEOREM SessionsTyped == SessionsSpec => [](SessionsTypeOK /\ current <= session)
<1>1. ClientsInv => SessionsTypeOK /\ current <= session
  BY CountTypes DEF ClientsInv, ResetsCounted
<1> QED BY <1>1, SessionsInitially, ClientsStep, PTL DEF SessionsSpec

(* Until a second client comes, the first may call what it likes and leave  *)
(* at any point: no handler blocks in the observation queue, and the policy *)
(* is run only when it and its processors are loaded.                       *)
THEOREM SessionsAreSafe == SessionsSpec => [](session <= 1 => SessionsSafe)
<1> DEFINE J == ClientsInv /\ (session <= 1 => SessionsInv)
<1>1. J /\ [SessionsNext]_sessionsVars => J'
  <2> SUFFICES ASSUME J, [SessionsNext]_sessionsVars PROVE J' OBVIOUS
  <2>1. ClientsInv' BY ClientsStep
  <2>2. session' <= 1 => session <= 1
    <3>1. session' = session \/ session' = session + 1
      BY DEF SessionsNext, Connect, Disconnect, MainThreadCalls, MainThreadReturns, ReceiverCalls,
         ReceiverReturns, LeftoverReturns, HandlersRun, InferenceFails, clientState, sessionsVars
    <3> QED BY <3>1, CountTypes
  <2> QED BY <2>1, <2>2, SessionsStep
<1>2. J => (session <= 1 => SessionsSafe)
  BY DEF SessionsInv, SessionsSafe, PutNeverBlocks, PolicyLoaded, RoomMade, Loaded, GetPc
<1>3. SessionsInit => J BY SessionsInitially
<1> HIDE DEF J
<1> QED BY <1>1, <1>2, <1>3, PTL DEF SessionsSpec
=============================================================================
