---------------------------- MODULE PolicyServer ----------------------------
(***************************************************************************)
(* The gRPC server that runs the policy for a remote robot                 *)
(* (async_inference/policy_server.py).  Every RPC is executed by a thread  *)
(* of a ThreadPoolExecutor: the model has a set of Workers, each with a    *)
(* program counter, and one action per step that other threads can see.    *)
(*                                                                         *)
(* Observations keep only what the server looks at: the timestep, the      *)
(* must_go flag, and (history) the client session that captured them.      *)
(* Whether two observations are "similar" is a float comparison of joint   *)
(* states; its outcome is drawn from SimilarVerdicts.                      *)
(***************************************************************************)
EXTENDS TimedData, FiniteSets

CONSTANTS
  Workers,          \* threads of the gRPC pool
  MaxSession,       \* bound: clients that connect, one after another, and Readys retried
  SimilarVerdicts,  \* outcomes observations_similar can have, a subset of BOOLEAN
  NoObs             \* Python's None where an observation may be

Obs == [step : ObsSteps, go : BOOLEAN, from : 1..MaxSession]

ASSUME ServerAssumption ==
  /\ MaxSession \in Nat \ {0}
  /\ SimilarVerdicts \subseteq BOOLEAN
  /\ NoObs \notin Obs

VARIABLES
  handler,            \* worker -> where its RPC handler is
  arg,                \* worker -> the observation its handler works on
  caller,             \* worker -> session of the client that made the call
  waits,              \* worker -> index of the Queue object it blocks on
  queues,             \* every Queue object created so far, by index
  current,            \* index of self.observation_queue
  predicted,          \* self._predicted_timesteps
  last_processed_obs, \* is there a self.last_processed_obs (which one, only similarity asks)
  shutdown,           \* self.shutdown_event.is_set()
  policy,             \* session whose policy is loaded, 0 for None
  processors          \* session whose pre/post-processors are loaded, 0 for None

serverVars == <<handler, arg, caller, waits, queues, current, predicted,
                last_processed_obs, shutdown, policy, processors>>
callVars   == <<arg, caller, waits>>
queueVars  == <<queues, current>>
stateVars  == <<predicted, last_processed_obs, shutdown, policy, processors>>

Finished == {"ok", "empty", "err"}   \* a chunk or a plain reply, Empty(), an exception
SendPc  == {"recv", "check", "room", "evict", "put", "blocked"}
GetPc   == {"get", "predict", "prepare", "infer"}
AdminPc == {"stop", "flush", "forget", "resume", "load", "make"}

ServerTypeOK ==
  /\ handler \in [Workers -> {"idle"} \cup Finished \cup SendPc \cup GetPc \cup AdminPc]
  /\ arg \in [Workers -> Obs \cup {NoObs}]
  /\ caller \in [Workers -> 0..MaxSession]
  /\ waits \in [Workers -> 0..MaxSession]
  /\ queues \in [0..MaxSession -> Seq(Obs)]
  /\ current \in 0..MaxSession
  /\ predicted \subseteq ObsSteps
  /\ last_processed_obs \in BOOLEAN
  /\ shutdown \in BOOLEAN
  /\ policy \in 0..MaxSession
  /\ processors \in 0..MaxSession

ServerInit ==
  /\ handler = [w \in Workers |-> "idle"]
  /\ arg = [w \in Workers |-> NoObs]
  /\ caller = [w \in Workers |-> 0]
  /\ waits = [w \in Workers |-> 0]
  /\ queues = [q \in 0..MaxSession |-> <<>>]
  /\ current = 0
  /\ predicted = {}
  /\ last_processed_obs = FALSE
  /\ shutdown = FALSE
  /\ policy = 0
  /\ processors = 0

Goto(w, to) == handler' = [handler EXCEPT ![w] = to]
Move(w, from, to) == handler[w] = from /\ Goto(w, to)

Full(q) == Len(queues[q]) >= 1                       \* Queue(maxsize=1).full()
Popped(q) == [queues EXCEPT ![q] = Tail(@)]
Pushed(q, o) == [queues EXCEPT ![q] = Append(@, o)]

-----------------------------------------------------------------------------
(* A call arrives at an idle worker; a finished handler frees its worker.   *)

Call(w, step, o, c) ==
  /\ handler[w] = "idle"
  /\ Goto(w, step)
  /\ arg' = [arg EXCEPT ![w] = o]
  /\ caller' = [caller EXCEPT ![w] = c]
  /\ waits' = [waits EXCEPT ![w] = current]
  /\ UNCHANGED <<queueVars, stateVars>>

CallReady(w, c) == Call(w, "stop", NoObs, c)
CallSendPolicyInstructions(w, c) == Call(w, "load", NoObs, c)
CallSendObservations(w, o) == Call(w, "recv", o, o.from)
CallGetActions(w, c) == Call(w, "get", NoObs, c)     \* the queue object is bound here

Free(w) ==
  /\ Goto(w, "idle")
  /\ arg' = [arg EXCEPT ![w] = NoObs]
  /\ caller' = [caller EXCEPT ![w] = 0]
  /\ waits' = [waits EXCEPT ![w] = 0]

Return(w) ==
  /\ handler[w] \in Finished
  /\ Free(w)
  /\ UNCHANGED <<queueVars, stateVars>>

-----------------------------------------------------------------------------
(* Ready: _reset_server, then shutdown_event.clear().                       *)

ReadyStop(w) ==
  /\ Move(w, "stop", "flush")
  /\ shutdown' = TRUE
  /\ UNCHANGED <<callVars, queueVars, predicted, last_processed_obs, policy, processors>>

(* A queue that is replaced is gone but for the handlers that wait on it.   *)
Waited(q) == \E w \in Workers : handler[w] \in {"get", "blocked"} /\ waits[w] = q

ReadyFlush(w) ==
  /\ Move(w, "flush", "forget")
  /\ current' = current + 1
  /\ queues' = [q \in 0..MaxSession |-> IF q = current + 1 \/ ~Waited(q) THEN <<>> ELSE queues[q]]
  /\ UNCHANGED <<callVars, stateVars>>

ReadyForget(w) ==
  /\ Move(w, "forget", "resume")
  /\ predicted' = {}
  /\ UNCHANGED <<callVars, queueVars, last_processed_obs, shutdown, policy, processors>>

ReadyResume(w) ==
  /\ Move(w, "resume", "ok")
  /\ shutdown' = FALSE
  /\ UNCHANGED <<callVars, queueVars, predicted, last_processed_obs, policy, processors>>

(* SendPolicyInstructions: ignored while not running; otherwise the policy  *)
(* is loaded first and the processors of the same client after it.          *)
LoadPolicy(w) ==
  /\ handler[w] = "load"
  /\ IF shutdown
     THEN Goto(w, "ok") /\ UNCHANGED policy
     ELSE Goto(w, "make") /\ policy' = caller[w]
  /\ UNCHANGED <<callVars, queueVars, predicted, last_processed_obs, shutdown, processors>>

MakeProcessors(w) ==
  /\ Move(w, "make", "ok")
  /\ processors' = caller[w]
  /\ UNCHANGED <<callVars, queueVars, predicted, last_processed_obs, shutdown, policy>>

-----------------------------------------------------------------------------
(* SendObservations: the byte stream is dropped while the shutdown event is *)
(* set (unpickling None then raises); the rest is _enqueue_observation.     *)

Receive(w) ==
  /\ handler[w] = "recv"
  /\ Goto(w, IF shutdown THEN "err" ELSE "check")
  /\ UNCHANGED <<callVars, queueVars, stateVars>>

SanityChecks(o, similar) == o.step \notin predicted /\ ~similar

AdmitsNew(o, similar) ==             \* mutant: must_go is not looked at
  ~last_processed_obs \/ SanityChecks(o, similar)

Admits(o, similar) ==
  o.go \/ ~last_processed_obs \/ SanityChecks(o, similar)

Filter(w) ==
  /\ handler[w] = "check"
  /\ \E similar \in SimilarVerdicts :
       Goto(w, IF Admits(arg[w], similar) THEN "room" ELSE "ok")
  /\ UNCHANGED <<callVars, queueVars, stateVars>>

CheckNothing(w) ==                   \* mutant: no eviction
  /\ Move(w, "room", "put")
  /\ UNCHANGED <<callVars, queueVars, stateVars>>

CheckFull(w) ==
  /\ handler[w] = "room"
  /\ Goto(w, IF Full(current) THEN "evict" ELSE "put")
  /\ UNCHANGED <<callVars, queueVars, stateVars>>

(* get_nowait() raises queue.Empty when GetActions emptied the queue first. *)
Evict(w) ==
  /\ handler[w] = "evict"
  /\ IF queues[current] = <<>>
     THEN Goto(w, "err") /\ UNCHANGED queues
     ELSE Goto(w, "put") /\ queues' = Popped(current)
  /\ UNCHANGED <<callVars, current, stateVars>>

Put(w) ==
  /\ handler[w] = "put"
  /\ IF Full(current)
     THEN /\ Goto(w, "blocked")
          /\ waits' = [waits EXCEPT ![w] = current]
          /\ UNCHANGED queues
     ELSE /\ Goto(w, "ok")
          /\ queues' = Pushed(current, arg[w])
          /\ UNCHANGED waits
  /\ UNCHANGED <<arg, caller, current, stateVars>>

PutUnblocked(w) ==
  /\ Move(w, "blocked", "ok")
  /\ ~Full(waits[w])
  /\ queues' = Pushed(waits[w], arg[w])
  /\ UNCHANGED <<callVars, current, stateVars>>

-----------------------------------------------------------------------------
(* GetActions: wait for an observation, mark its timestep as predicted, run *)
(* the policy on it, answer with the chunk.  Any exception answers Empty().  *)

TakeObservation(w) ==
  /\ Move(w, "get", "predict")
  /\ queues[waits[w]] # <<>>
  /\ arg' = [arg EXCEPT ![w] = Head(queues[waits[w]])]
  /\ queues' = Popped(waits[w])
  /\ UNCHANGED <<caller, waits, current, stateVars>>

ObsQueueWaits(w) == FALSE            \* mutant: get() without a timeout

ObsQueueTimeout(w) ==
  /\ Move(w, "get", "empty")
  /\ queues[waits[w]] = <<>>
  /\ UNCHANGED <<callVars, queueVars, stateVars>>

MarkPredicted(w) ==
  /\ Move(w, "predict", "prepare")
  /\ predicted' = predicted \cup {arg[w].step}
  /\ UNCHANGED <<callVars, queueVars, last_processed_obs, shutdown, policy, processors>>

Prepare(w) ==
  /\ handler[w] = "prepare"
  /\ IF policy = 0 \/ processors = 0
     THEN Goto(w, "empty") /\ UNCHANGED last_processed_obs
     ELSE Goto(w, "infer") /\ last_processed_obs' = TRUE
  /\ UNCHANGED <<callVars, queueVars, predicted, shutdown, policy, processors>>

Infer(w) ==
  /\ Move(w, "infer", "ok")
  /\ UNCHANGED <<callVars, queueVars, stateVars>>

PredictFails(w) ==      \* preparing, preprocessing or the policy itself raises
  /\ handler[w] \in {"prepare", "infer"}
  /\ Goto(w, "empty")
  /\ UNCHANGED <<callVars, queueVars, stateVars>>

-----------------------------------------------------------------------------
(* The handlers that will replace the queue.                                *)
Resetting == {w \in Workers : handler[w] \in {"stop", "flush"}}

AdminStep(w) ==
  ReadyStop(w) \/ ReadyFlush(w) \/ ReadyForget(w) \/ ReadyResume(w)
    \/ LoadPolicy(w) \/ MakeProcessors(w)
SendObservationsStep(w) ==
  Receive(w) \/ Filter(w) \/ CheckFull(w) \/ Evict(w) \/ Put(w) \/ PutUnblocked(w)
GetActionsStep(w) ==
  TakeObservation(w) \/ ObsQueueTimeout(w) \/ MarkPredicted(w) \/ Prepare(w) \/ Infer(w)

HandlerStep(w) == AdminStep(w) \/ SendObservationsStep(w) \/ GetActionsStep(w)
=============================================================================
