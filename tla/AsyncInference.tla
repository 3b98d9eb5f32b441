--------------------------- MODULE AsyncInference ---------------------------
(***************************************************************************)
(* One robot client connected to one policy server: the handshake of       *)
(* RobotClient.start, then the control loop's SendObservations calls and   *)
(* the receiver thread's GetActions calls, each executed by a worker of    *)
(* the server.  The network may fail a call at any moment, FaultBudget     *)
(* times in a behaviour: the client sees an RpcError while the handler, if *)
(* the request reached it, goes on alone, or gRPC's retry policy sends the *)
(* request again.                                                          *)
(***************************************************************************)
EXTENDS ClientCalls, RobotClient

CONSTANT
  FaultBudget    \* bound: number of network and inference faults

(* Each fault may be one more Ready, which resets the server again.         *)
ASSUME AsyncAssumption == FaultBudget \in 0..(MaxSession - 1)

VARIABLE
  faults         \* faults still allowed

vars == <<serverVars, clientVars, callOf, faults>>

Me == 1          \* the one client session of this model

TypeOK ==
  /\ CallsTypeOK
  /\ ClientTypeOK
  /\ faults \in 0..FaultBudget

Init ==
  /\ CallsInit
  /\ ClientInit
  /\ faults = FaultBudget

ControlMoves(from, to) ==
  /\ ControlGoto(from, to)
  /\ UNCHANGED <<out_step, out_go, receiverVars, sharedVars, historyVars>>

ReceiverMoves(from, to) ==
  /\ ReceiverGoto(from, to)
  /\ UNCHANGED <<controlVars, incoming, pos, future, sharedVars, historyVars>>

-----------------------------------------------------------------------------
(* Calls of the main thread: the handshake, then observations.              *)

StartReady ==
  \E w \in Workers :
    /\ ControlMoves("start", "readying")
    /\ CallReady(w, Me)
    /\ controlCall' = w
    /\ UNCHANGED <<receiverCall, faults>>

StartPolicy ==
  \E w \in Workers :
    /\ ControlMoves("instruct", "instructing")
    /\ CallSendPolicyInstructions(w, Me)
    /\ controlCall' = w
    /\ UNCHANGED <<receiverCall, faults>>

HandshakeReturns ==
  /\ \/ ControlMoves("readying", "instruct")
     \/ ControlMoves("instructing", "top")
  /\ controlCall # NoCall
  /\ Return(controlCall)
  /\ controlCall' = NoCall
  /\ UNCHANGED <<receiverCall, faults>>

SendObservation ==
  \E w \in Workers :
    /\ ControlMoves("send", "sent")
    /\ CallSendObservations(w, [step |-> out_step, go |-> out_go, from |-> Me])
    /\ controlCall' = w
    /\ UNCHANGED <<receiverCall, faults>>

SendReturns ==
  /\ controlCall # NoCall
  /\ ObservationSent
  /\ Return(controlCall)
  /\ controlCall' = NoCall
  /\ UNCHANGED <<receiverCall, faults>>

(* Calls of the receiver thread.                                            *)

PollActions ==
  \E w \in Workers :
    /\ running
    /\ ReceiverMoves("poll", "wait")
    /\ CallGetActions(w, Me)
    /\ receiverCall' = w
    /\ UNCHANGED <<controlCall, faults>>

ActionsReturn ==
  /\ receiverCall # NoCall
  /\ IF handler[receiverCall] = "ok" THEN ReceiveChunk(arg[receiverCall].step) ELSE PollAgain
  /\ Return(receiverCall)
  /\ receiverCall' = NoCall
  /\ UNCHANGED <<controlCall, faults>>

-----------------------------------------------------------------------------
(* Faults. *)

Fault == faults > 0 /\ faults' = faults - 1

(* start() catches the RpcError and the program ends.                       *)
HandshakeFails ==
  /\ Fault
  /\ \/ ControlMoves("readying", "stopped")
     \/ ControlMoves("instructing", "stopped")
  /\ controlCall' = NoCall
  /\ UNCHANGED <<serverVars, receiverCall>>

(* The request never reaches the server.                                    *)
RequestLost ==
  /\ Fault
  /\ ObservationSent
  /\ controlCall # NoCall
  /\ handler[controlCall] = "recv"
  /\ Free(controlCall)
  /\ controlCall' = NoCall
  /\ UNCHANGED <<queueVars, stateVars, receiverCall>>

(* The connection drops: the client sees an error, the handler goes on.     *)
SendDropped ==
  /\ Fault
  /\ ObservationSent
  /\ controlCall' = NoCall
  /\ UNCHANGED <<serverVars, receiverCall>>

GetDropped ==
  /\ Fault
  /\ PollAgain
  /\ receiverCall' = NoCall
  /\ UNCHANGED <<serverVars, controlCall>>

(* UNAVAILABLE is retried by gRPC, whatever the call: the same request is   *)
(* handled again, and the handler it had goes on alone.                     *)
ControlRetried ==
  \E w \in Workers :
    /\ Fault
    /\ \/ control = "readying" /\ CallReady(w, Me)
       \/ control = "instructing" /\ CallSendPolicyInstructions(w, Me)
       \/ /\ control = "sent"
          /\ CallSendObservations(w, [step |-> out_step, go |-> out_go, from |-> Me])
    /\ controlCall' = w
    /\ UNCHANGED <<clientVars, receiverCall>>

GetRetried ==
  \E w \in Workers :
    /\ Fault
    /\ receiver = "wait"
    /\ CallGetActions(w, Me)
    /\ receiverCall' = w
    /\ UNCHANGED <<clientVars, controlCall>>

PredictionFails ==
  \E w \in Workers :
    /\ Fault
    /\ PredictFails(w)
    /\ UNCHANGED <<clientVars, callOf>>

OrphanReturns == OrphanReturn /\ UNCHANGED <<clientVars, faults>>

-----------------------------------------------------------------------------
Server(A) == A /\ UNCHANGED <<clientVars, callOf, faults>>
ServerStep == \E w \in Workers : Server(HandlerStep(w))
LocalStep(A) == A /\ UNCHANGED <<serverVars, callOf, faults>>

ControlNext ==
  \/ StartReady \/ StartPolicy \/ HandshakeReturns \/ SendObservation \/ SendReturns
  \/ LocalStep(ControlStep)
ReceiverNext == PollActions \/ ActionsReturn \/ LocalStep(ReceiverStep)
FaultNext ==
  \/ HandshakeFails \/ RequestLost \/ SendDropped \/ GetDropped
  \/ ControlRetried \/ GetRetried \/ PredictionFails

(* Nothing is left to do: the main thread ended and the receiver with it.   *)
Ended ==
  /\ control \in {"stopped", "crashed"}
  /\ UNCHANGED vars

Next ==
  \/ ControlNext \/ ReceiverNext \/ ServerStep \/ OrphanReturns \/ FaultNext \/ Ended

(* Every thread is scheduled.  The observation queue is empty only for the  *)
(* two statements between an eviction and the put after it, while GetActions *)
(* blocks on it for obs_queue_timeout seconds: it does not miss for ever a   *)
(* queue that keeps holding an observation.                                  *)
Fairness ==
  /\ WF_vars(ControlNext)
  /\ WF_vars(ReceiverNext)
  /\ WF_vars(OrphanReturns)
  /\ \A w \in Workers : WF_vars(Server(HandlerStep(w)))
  /\ []<>(queues[current] # <<>>) => []<><<\E w \in Workers : Server(TakeObservation(w))>>_vars

Spec == Init /\ [][Next]_vars
FairSpec == Spec /\ Fairness

-----------------------------------------------------------------------------
(* Properties.                                                              *)

Executes == control = "pop" /\ control' = "latest"

(* Re-planning never makes the robot jump over a timestep: an executed       *)
(* action is at most one past the furthest executed so far, however chunks   *)
(* arrive late, are lost, overlap the queue or are merged while the control  *)
(* loop keeps popping (_aggregate_action_queues drops an incoming action     *)
(* only when latest_action says it was executed).                            *)
NoTimestepSkipped == [][Executes => lastExec' <= maxExec + 1]_vars

(* The queue a chunk leaves behind runs forward: get_nowait() returns the    *)
(* timesteps in increasing order until the next chunk replaces the queue.    *)
QueueRunsForward ==
  \A i, j \in 1..Len(action_queue) : i < j => action_queue[i] < action_queue[j]

(* Does not hold: the receiver thread, protected by action_queue_lock, survives the run.    *)
ReceiverSurvives == receiver # "crashed"

Over == control \in {"stopped", "crashed"} \/ receiver = "crashed"

(* An observation marked must_go that is sent is answered by a chunk: the    *)
(* server admits it whatever its filters say, nothing evicts it but an       *)
(* observation admitted later, and a poll runs the policy on one of them.    *)
MustGoAnswered == (control = "send" /\ out_go) ~> (receiver = "snap" \/ Over)

(* Does not hold: "after receiving actions, next empty queue triggers must-go processing":  *)
(* the run does not stall while both threads are alive.                      *)
NeverStalls == <>Over

(* The one way to stall for ever while both threads are alive is to lose the *)
(* must_go flag: as long as it keeps coming back the robot keeps moving.     *)
StallsOnlyWithoutMustGo == <>Over \/ <>[]~must_go

-----------------------------------------------------------------------------
(* The inductive invariant behind NoTimestepSkipped.                        *)

Reached == IF maxExec > 0 THEN maxExec ELSE 0

(* No observation in the server is ahead of what the robot executed.             *)
ObsReached ==
  /\ \A w \in Workers : arg[w] # NoObs => arg[w].step <= Reached
  /\ \A q \in 0..MaxSession : \A i \in 1..Len(queues[q]) : queues[q][i].step <= Reached

(* Every timestep between the furthest executed one and an element of the   *)
(* plan stands before that element.                                         *)
Gapless(plan) ==
  \A i \in 1..Len(plan) : \A s \in Steps :
    maxExec < s /\ s < plan[i] => \E j \in 1..(i - 1) : plan[j] = s

(* What was merged so far, and not executed, is in the future queue.        *)
MergedKept ==
  \A p \in 1..(pos - 1) :
    incoming[p] <= maxExec \/ \E j \in 1..Len(future) : future[j] = incoming[p]

PlanInv ==
  /\ out_step <= Reached
  /\ latest_action <= maxExec /\ lastExec <= maxExec /\ maxExec <= MaxStep
  /\ control = "pop" => maxExec < MaxStep
  /\ Gapless(action_queue)
  /\ Gapless(future)
  /\ incoming = <<>> \/ \E first \in 0..Reached : incoming = Chunk(first)
  /\ receiver \notin {"merge", "swap", "signal"} => pos = 1 /\ future = <<>>
  /\ pos \in 1..(Len(incoming) + 1)
  /\ MergedKept

(* A handler that works on an observation has one.                          *)
ArgHeld ==
  \A w \in Workers : handler[w] \in SendPc \cup {"predict", "prepare", "infer"} => arg[w] \in Obs

(* The server is reset by the handshake, and by each Ready that is retried. *)
ReadysCounted ==
  /\ IsFiniteSet(Resetting)
  /\ current + Cardinality(Resetting) + (IF control = "start" THEN 1 ELSE 0) + faults <= MaxSession

(* Each thread's call is served by a worker of its own.                     *)
CallsServed ==
  /\ controlCall # NoCall =>
       /\ controlCall # receiverCall
       /\ handler[controlCall] \in AdminPc \cup SendPc \cup {"ok", "err"}
  /\ receiverCall # NoCall =>
       \/ handler[receiverCall] \in GetPc \cup {"empty"}
       \/ handler[receiverCall] = "ok" /\ arg[receiverCall] \in Obs

IInv == TypeOK /\ ObsReached /\ PlanInv /\ ArgHeld /\ ReadysCounted /\ CallsServed
=============================================================================
