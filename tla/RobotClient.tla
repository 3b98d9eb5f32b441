----------------------------- MODULE RobotClient -----------------------------
(***************************************************************************)
(* The robot side of asynchronous inference (async_inference/              *)
(* robot_client.py): the control loop, which executes queued actions and   *)
(* streams observations, and the receiver thread, which turns every chunk  *)
(* from the server into a new action queue.  The two share action_queue,   *)
(* latest_action, action_chunk_size and must_go; every step below ends     *)
(* where the code takes or releases a lock or calls out.                   *)
(*                                                                         *)
(* An action keeps its timestep only: joint values, timestamps and the     *)
(* blend of overlapping actions are data no property here reads.           *)
(***************************************************************************)
EXTENDS TimedData

CONSTANTS
  ThresholdNum,     \* chunk_size_threshold, as a fraction
  ThresholdDen

ASSUME ClientAssumption ==
  /\ ThresholdNum \in Nat
  /\ ThresholdDen \in Nat \ {0}
  /\ ThresholdNum <= ThresholdDen

VARIABLES
  control,           \* where the control loop (main thread) is
  receiver,          \* where the action receiver thread is
  running,           \* ~ shutdown_event.is_set()
  latest_action,     \* self.latest_action
  action_queue,      \* timesteps in self.action_queue
  action_chunk_size, \* self.action_chunk_size
  must_go,           \* self.must_go.is_set()
  out_step,          \* timestep of the observation being sent
  out_go,            \* its must_go flag
  incoming,          \* timesteps of the chunk being aggregated
  pos,               \* next position of incoming
  future,            \* future_action_queue
  popped,            \* was the queue popped since its iteration began
  lastExec,          \* history: last timestep sent to the robot, -1 for none
  maxExec            \* history: highest timestep sent to the robot

controlVars  == <<control, out_step, out_go>>
receiverVars == <<receiver, incoming, pos, future>>
sharedVars   == <<running, latest_action, action_queue, action_chunk_size, must_go, popped>>
historyVars  == <<lastExec, maxExec>>
clientVars   == <<controlVars, receiverVars, sharedVars, historyVars>>

ControlPc == {"start", "readying", "instruct", "instructing", "top", "pop", "latest",
              "ready", "capture", "send", "sent", "clear", "stopped", "crashed"}
ReceiverPc == {"barrier", "poll", "wait", "snap", "iterate", "merge", "swap", "signal",
               "stopped", "crashed"}

ClientTypeOK ==
  /\ control \in ControlPc
  /\ receiver \in ReceiverPc
  /\ running \in BOOLEAN
  /\ latest_action \in Steps \cup {-1}
  /\ action_queue \in Seq(Steps)
  /\ action_chunk_size \in {-1, ChunkLen}
  /\ must_go \in BOOLEAN
  /\ out_step \in ObsSteps
  /\ out_go \in BOOLEAN
  /\ incoming \in Seq(Steps)
  /\ pos \in Nat
  /\ future \in Seq(Steps)
  /\ popped \in BOOLEAN
  /\ lastExec \in Steps \cup {-1}
  /\ maxExec \in Steps \cup {-1}

ClientInit ==
  /\ control = "start"
  /\ receiver = "barrier"
  /\ running = TRUE
  /\ latest_action = -1
  /\ action_queue = <<>>
  /\ action_chunk_size = -1
  /\ must_go = TRUE
  /\ out_step = 0
  /\ out_go = FALSE
  /\ incoming = <<>>
  /\ pos = 1
  /\ future = <<>>
  /\ popped = FALSE
  /\ lastExec = -1
  /\ maxExec = -1

ControlGoto(from, to) == control = from /\ control' = to
ReceiverGoto(from, to) == receiver = from /\ receiver' = to

-----------------------------------------------------------------------------
(* The control loop. *)

(* Both threads meet at start_barrier once the handshake succeeded.         *)
PassBarrier ==
  /\ control = "top"
  /\ ReceiverGoto("barrier", "poll")
  /\ UNCHANGED <<controlVars, incoming, pos, future, sharedVars, historyVars>>

ActionsAvailable ==
  /\ control = "top"
  /\ receiver # "barrier"
  /\ running
  /\ maxExec < MaxStep
  /\ control' = IF action_queue # <<>> THEN "pop" ELSE "ready"
  /\ UNCHANGED <<out_step, out_go, receiverVars, sharedVars, historyVars>>

(* control_loop_action up to robot.send_action.  get_nowait() on an empty   *)
(* queue raises, nothing catches it, and async_client stops the client.     *)
PopAction ==
  /\ control = "pop"
  /\ action_queue # <<>>
  /\ control' = "latest"
  /\ action_queue' = Tail(action_queue)
  /\ popped' = (receiver = "iterate")
  /\ lastExec' = Head(action_queue)
  /\ maxExec' = IF Head(action_queue) > maxExec THEN Head(action_queue) ELSE maxExec
  /\ UNCHANGED <<out_step, out_go, receiverVars, running, latest_action,
                 action_chunk_size, must_go>>

PopEmpty ==
  /\ ControlGoto("pop", "crashed")
  /\ action_queue = <<>>
  /\ running' = FALSE
  /\ UNCHANGED <<out_step, out_go, receiverVars, latest_action, action_queue,
                 action_chunk_size, must_go, popped, historyVars>>

SetLatestAction ==
  /\ ControlGoto("latest", "ready")
  /\ latest_action' = lastExec
  /\ UNCHANGED <<out_step, out_go, receiverVars, running, action_queue,
                 action_chunk_size, must_go, popped, historyVars>>

WantsObservationWithoutChunk ==      \* mutant: action_chunk_size starts at 0 or more
  Len(action_queue) * ThresholdDen <= ThresholdNum * action_chunk_size

(* qsize / action_chunk_size <= threshold; the quotient is negative or zero *)
(* while no chunk was received (action_chunk_size = -1).                    *)
WantsObservation ==
  \/ action_chunk_size = -1
  \/ Len(action_queue) * ThresholdDen <= ThresholdNum * action_chunk_size

ReadyToSendObservation ==
  /\ control = "ready"
  /\ control' = IF WantsObservation THEN "capture" ELSE "top"
  /\ UNCHANGED <<out_step, out_go, receiverVars, sharedVars, historyVars>>

CaptureObservation ==
  /\ ControlGoto("capture", "send")
  /\ out_step' = IF latest_action > 0 THEN latest_action ELSE 0
  /\ out_go' = (must_go /\ action_queue = <<>>)
  /\ UNCHANGED <<receiverVars, sharedVars, historyVars>>

(* SendObservations answered, or failed: send_observation's result is not   *)
(* looked at.                                                               *)
ObservationSent ==
  /\ ControlGoto("sent", "clear")
  /\ UNCHANGED <<out_step, out_go, receiverVars, sharedVars, historyVars>>

ClearMustGo ==
  /\ ControlGoto("clear", "top")
  /\ must_go' = (must_go /\ ~out_go)
  /\ out_step' = 0
  /\ out_go' = FALSE
  /\ UNCHANGED <<receiverVars, running, latest_action, action_queue,
                 action_chunk_size, popped, historyVars>>

(* The operator ends the run; in the model, when MaxStep was executed.      *)
StopClient ==
  /\ ControlGoto("top", "stopped")
  /\ maxExec >= MaxStep
  /\ running' = FALSE
  /\ UNCHANGED <<out_step, out_go, receiverVars, latest_action, action_queue,
                 action_chunk_size, must_go, popped, historyVars>>

-----------------------------------------------------------------------------
(* The receiver thread. *)

(* The reply to GetActions: an empty one polls again, a chunk is taken in.  *)
PollAgain ==
  /\ ReceiverGoto("wait", "poll")
  /\ UNCHANGED <<controlVars, incoming, pos, future, sharedVars, historyVars>>

ReceiveChunk(first) ==
  /\ ReceiverGoto("wait", "snap")
  /\ incoming' = Chunk(first)
  /\ action_chunk_size' = IF ChunkLen > action_chunk_size THEN ChunkLen ELSE action_chunk_size
  /\ UNCHANGED <<controlVars, pos, future, running, latest_action, action_queue, must_go,
                 popped, historyVars>>

(* _aggregate_action_queues takes the deque under the lock and iterates it  *)
(* after releasing it: a pop in between raises RuntimeError, which          *)
(* receive_actions does not catch, and the thread ends.                     *)
BeginIteration ==
  /\ ReceiverGoto("snap", "iterate")
  /\ popped' = FALSE
  /\ UNCHANGED <<controlVars, incoming, pos, future, running, latest_action, action_queue,
                 action_chunk_size, must_go, historyVars>>

EndIteration ==
  /\ ReceiverGoto("iterate", "merge")
  /\ ~popped
  /\ UNCHANGED <<controlVars, incoming, pos, future, sharedVars, historyVars>>

IterationFails ==
  /\ ReceiverGoto("iterate", "crashed")
  /\ popped
  /\ UNCHANGED <<controlVars, incoming, pos, future, sharedVars, historyVars>>

MergeActionPastNext ==               \* mutant: off by one in "older than"
  /\ receiver = "merge"
  /\ pos <= Len(incoming)
  /\ pos' = pos + 1
  /\ future' = IF incoming[pos] <= latest_action + 1 THEN future ELSE Append(future, incoming[pos])
  /\ UNCHANGED <<controlVars, receiver, incoming, sharedVars, historyVars>>

(* One incoming action: latest_action is read again for each of them.       *)
MergeAction ==
  /\ receiver = "merge"
  /\ pos <= Len(incoming)
  /\ pos' = pos + 1
  /\ future' = IF incoming[pos] <= latest_action THEN future ELSE Append(future, incoming[pos])
  /\ UNCHANGED <<controlVars, receiver, incoming, sharedVars, historyVars>>

MergeDone ==
  /\ ReceiverGoto("merge", "swap")
  /\ pos > Len(incoming)
  /\ UNCHANGED <<controlVars, incoming, pos, future, sharedVars, historyVars>>

ExtendQueue ==                       \* mutant: appends instead of replacing
  /\ ReceiverGoto("swap", "signal")
  /\ action_queue' = action_queue \o future
  /\ UNCHANGED <<controlVars, incoming, pos, future, running, latest_action,
                 action_chunk_size, must_go, popped, historyVars>>

SwapQueue ==
  /\ ReceiverGoto("swap", "signal")
  /\ action_queue' = future
  /\ UNCHANGED <<controlVars, incoming, pos, future, running, latest_action,
                 action_chunk_size, must_go, popped, historyVars>>

SetMustGo ==
  /\ ReceiverGoto("signal", "poll")
  /\ must_go' = TRUE
  /\ incoming' = <<>>
  /\ pos' = 1
  /\ future' = <<>>
  /\ UNCHANGED <<controlVars, running, latest_action, action_queue,
                 action_chunk_size, popped, historyVars>>

ReceiverExits ==
  /\ ReceiverGoto("poll", "stopped")
  /\ ~running
  /\ UNCHANGED <<controlVars, incoming, pos, future, sharedVars, historyVars>>

-----------------------------------------------------------------------------
(* The steps that involve no call. *)

ControlStep ==
  \/ ActionsAvailable \/ PopAction \/ PopEmpty \/ SetLatestAction
  \/ ReadyToSendObservation \/ CaptureObservation \/ ClearMustGo \/ StopClient

ReceiverStep ==
  \/ PassBarrier \/ BeginIteration \/ EndIteration \/ IterationFails
  \/ MergeAction \/ MergeDone \/ SwapQueue \/ SetMustGo \/ ReceiverExits
=============================================================================
