--------------------------- MODULE PolicySessions ---------------------------
(***************************************************************************)
(* The policy server under successive clients.  A client shakes hands      *)
(* (Ready, SendPolicyInstructions), then its main thread sends any         *)
(* observations it likes while its receiver thread polls GetActions; it    *)
(* may die at any point, with calls still running in the server's thread   *)
(* pool, and the next client connects.                                     *)
(***************************************************************************)
EXTENDS ClientCalls

VARIABLES
  session,       \* number of the last client that connected
  phase          \* what its main thread is doing

clientState == <<session, phase, callOf>>
sessionsVars == <<serverVars, clientState>>

SessionsTypeOK ==
  /\ CallsTypeOK
  /\ session \in 0..MaxSession
  /\ phase \in {"gone", "ready", "instruct", "run"}

SessionsInit ==
  /\ CallsInit
  /\ session = 0
  /\ phase = "gone"

Connect ==
  /\ phase = "gone" /\ session < MaxSession
  /\ session' = session + 1
  /\ phase' = "ready"
  /\ UNCHANGED <<serverVars, controlCall, receiverCall>>

Disconnect ==
  /\ phase # "gone"
  /\ phase' = "gone"
  /\ controlCall' = NoCall
  /\ receiverCall' = NoCall
  /\ UNCHANGED <<serverVars, session>>

MainThreadCalls ==
  \E w \in Workers :
    /\ controlCall = NoCall
    /\ \/ phase = "ready" /\ CallReady(w, session)
       \/ phase = "instruct" /\ CallSendPolicyInstructions(w, session)
       \/ phase = "run" /\ \E o \in Obs : o.from = session /\ CallSendObservations(w, o)
    /\ controlCall' = w
    /\ UNCHANGED <<session, phase, receiverCall>>

NextPhase == CASE phase = "ready" -> "instruct" [] OTHER -> "run"

MainThreadReturns ==
  /\ controlCall # NoCall
  /\ Return(controlCall)
  /\ controlCall' = NoCall
  /\ phase' = NextPhase
  /\ UNCHANGED <<session, receiverCall>>

ReceiverCalls ==
  \E w \in Workers :
    /\ phase = "run" /\ receiverCall = NoCall
    /\ CallGetActions(w, session)
    /\ receiverCall' = w
    /\ UNCHANGED <<session, phase, controlCall>>

ReceiverReturns ==
  /\ receiverCall # NoCall
  /\ Return(receiverCall)
  /\ receiverCall' = NoCall
  /\ UNCHANGED <<session, phase, controlCall>>

LeftoverReturns == OrphanReturn /\ UNCHANGED <<session, phase>>

HandlersRun == \E w \in Workers : HandlerStep(w) /\ UNCHANGED clientState

InferenceFails == \E w \in Workers : PredictFails(w) /\ UNCHANGED clientState

SessionsNext ==
  \/ Connect \/ Disconnect
  \/ MainThreadCalls \/ MainThreadReturns \/ ReceiverCalls \/ ReceiverReturns
  \/ LeftoverReturns \/ HandlersRun \/ InferenceFails

SessionsSpec == SessionsInit /\ [][SessionsNext]_sessionsVars

(* The thread pool runs every handler it accepted.  Clients owe nothing.    *)
FairSessions ==
  SessionsSpec /\ \A w \in Workers : WF_sessionsVars(HandlerStep(w) /\ UNCHANGED clientState)

-----------------------------------------------------------------------------
(* Properties. *)

(* A call is executed to its end: no handler holds its thread of the pool    *)
(* for ever.  GetActions gives up after obs_queue_timeout; SendObservations  *)
(* makes room in the queue before it puts.                                   *)
HandlersFinish ==
  \A w \in Workers : handler[w] # "idle" ~> handler[w] \in Finished \cup {"idle"}

(* "never blocks as queue is non-full here": with one client at a time, which *)
(* sends one observation after the other, a handler finds the room it made.  *)
PutNeverBlocks == \A w \in Workers : handler[w] # "blocked"

(* Does not hold: "Flushes server state when new client connects": no client is served a    *)
(* chunk predicted from an observation of an earlier one.                    *)
OwnObservations ==
  \A w \in Workers : handler[w] = "infer" => arg[w].from = caller[w]

(* GetActions runs the policy and the processors of one client, and never    *)
(* before the handshake loaded them.                                         *)
PolicyLoaded ==
  \A w \in Workers : handler[w] = "prepare" => policy # 0 /\ processors = policy

(* What holds in every state of a server that a client comes to and leaves,  *)
(* with its calls still running: types, handlers that are never stuck in the *)
(* queue, and never without the policy of the handshake.                     *)
SessionsSafe == SessionsTypeOK /\ PutNeverBlocks /\ PolicyLoaded
=============================================================================
