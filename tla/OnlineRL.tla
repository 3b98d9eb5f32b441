------------------------------- MODULE OnlineRL -------------------------------
(***************************************************************************)
(* Online reinforcement learning: an actor process acts, a learner process *)
(* trains (rl/actor.py, rl/learner.py, rl/learner_service.py,              *)
(* rl/queue.py).                                                           *)
(*                                                                         *)
(* The actor opens three streams to the learner's gRPC server: episodes of *)
(* transitions, interaction messages, and the weights that come back.  The *)
(* server has a fixed number of workers, and a handler keeps its worker    *)
(* until it returns: the weights' handler looks at its call only when it   *)
(* has weights to send.  Either process may be signalled, or killed and    *)
(* started again; the learner resumes from its checkpoint.                 *)
(*                                                                         *)
(* Abstraction: a transition is its number in the order of acting, weights *)
(* are the number of training steps they have seen, a message in flight is *)
(* in its sender's queue or in its receiver's.                             *)
(***************************************************************************)
EXTENDS ReplayBuffer, SequencesExt

CONSTANTS
    Threshold,      \* online_step_before_learning
    MaxWorkers,     \* workers of the server (MAX_WORKERS = 3)
    SaveFreq,       \* save_freq
    OnlineSteps,    \* policy.online_steps: the steps of one actor's life
    Kinds,          \* what a transition can be: see Step
    UseThreads,     \* the values of policy.concurrency.actor = "threads"
    MaxSteps,       \* bound: transitions in all
    MaxTraining,    \* bound: the optimization step stays there
    MaxFaults       \* bound: signals and kills

ASSUME RLAssumption ==
    /\ Threshold \in Nat \ {0, 1}
    /\ MaxWorkers \in Nat \ {0}
    /\ SaveFreq \in Nat \ {0}
    /\ OnlineSteps \in Nat
    /\ MaxSteps \in Nat /\ MaxTraining \in Nat /\ MaxFaults \in Nat
    /\ Kinds \subseteq {"step", "done", "truncated", "nan"}
    /\ UseThreads \subseteq BOOLEAN

VARIABLES
    actor,      \* the actor process: its main thread, its queues, its policy's weights
    calls,      \* its three streams, as the actor and the server see them
    orphans,    \* handlers of weights whose actor is gone
    learner,    \* the learner process
    disk,       \* what a checkpoint leaves: the link "last" and the saved buffer
    kinds,      \* history: the kind of each transition
    faults,     \* signals and kills so far
    torn        \* history: what a learner killed in its last save left without: the link, the buffer

vars == <<actor, calls, orphans, learner, disk, kinds, faults, torn>>

Streams == {"transitions", "messages", "weights"}

None == <<>>

ActorDown ==
    [pc |-> "down", threads |-> FALSE, shutdown |-> FALSE, steps |-> 0, weights |-> 0,
     episode |-> <<>>, out |-> <<>>, inbox |-> <<>>]

LearnerDown ==
    [pc |-> "down", shutdown |-> FALSE, step |-> 0, trained |-> 0, incoming |-> <<>>,
     taken |-> <<>>, weights |-> <<>>, buffer |-> Empty]

NoCalls == [s \in Streams |-> "none"]

Init ==
    /\ actor = ActorDown
    /\ calls = NoCalls
    /\ orphans = 0
    /\ learner = LearnerDown
    /\ disk = [checkpoint |-> None, dataset |-> None]
    /\ kinds = <<>>
    /\ faults = 0
    /\ torn = "none"

Up(process) == process.pc # "down"

Fault ==
    /\ faults < MaxFaults
    /\ faults' = faults + 1

\* Workers that hold a handler; Ready needs one only for a moment.
Busy == orphans + Cardinality({s \in Streams : calls[s] = "running"})

FreeWorker == Busy < MaxWorkers

\* A queue of weights: get_last_item_from_queue, its only reader on either side, takes the
\* newest and drops the others, so that the newest stands for the queue.
Pushed(weights) == <<weights>>

-----------------------------------------------------------------------------
(***************************************************************************)
(* The actor's main thread                                                 *)
(***************************************************************************)

\* actor_cli: Ready is answered by a worker of a learner that is up, then the threads of
\* the three streams start and make their calls, in any order.  The policy is made anew.
ActorStarts ==
    /\ actor.pc = "down"
    /\ Up(learner) /\ FreeWorker
    /\ \E threads \in UseThreads :
          actor' = [ActorDown EXCEPT !.pc = "acting", !.threads = threads]
    /\ calls' = [s \in Streams |-> "queued"]
    /\ UNCHANGED <<orphans, faults, learner, disk, kinds, torn>>

\* The end of an episode loads the newest weights received, then queues the episode's
\* transitions.
EndEpisode(acts, episode) ==
    [acts EXCEPT !.weights = IF acts.inbox = <<>> THEN @ ELSE acts.inbox[1],
                 !.inbox = <<>>,
                 !.out = Append(@, episode),
                 !.episode = <<>>]

\* One step of act_with_policy: a transition that ends its episode, as done or as
\* truncated, or does not ("nan" is one that does not, with a NaN in it).
Step(kind) ==
    /\ actor.pc = "acting" /\ ~actor.shutdown
    /\ actor.steps < OnlineSteps /\ Len(kinds) < MaxSteps
    /\ kinds' = Append(kinds, kind)
    /\ LET episode == Append(actor.episode, Len(kinds) + 1)
           acts == [actor EXCEPT !.steps = @ + 1]
       IN  actor' = IF kind \in {"done", "truncated"}
                      THEN EndEpisode(acts, episode)
                      ELSE [acts EXCEPT !.episode = episode]
    /\ UNCHANGED <<calls, orphans, learner, disk, faults, torn>>

\* A first signal; an exception of the loop sets the same event.
ActorSignal ==
    /\ Up(actor) /\ ~actor.shutdown
    /\ actor' = [actor EXCEPT !.shutdown = TRUE]
    /\ Fault
    /\ UNCHANGED <<calls, orphans, learner, disk, kinds, torn>>

\* act_with_policy returns, after the last step or on the event: the queues are closed and
\* the three threads joined.  An unfinished episode goes with it.
ActorLeaves ==
    /\ actor.pc = "acting"
    /\ actor.shutdown \/ actor.steps = OnlineSteps
    /\ actor' = [actor EXCEPT !.pc = "joining", !.episode = <<>>]
    /\ UNCHANGED <<calls, orphans, learner, disk, kinds, faults, torn>>

\* The actor is gone: the streams to the server end at once, the handler of the weights
\* does not notice.
ActorGone ==
    /\ actor' = ActorDown
    /\ calls' = NoCalls
    /\ orphans' = orphans + (IF calls["weights"] = "running" THEN 1 ELSE 0)

\* The joins have returned.
ActorEnds ==
    /\ actor.pc = "joining"
    /\ \A s \in Streams : calls[s] = "over"
    /\ ActorGone
    /\ UNCHANGED <<learner, disk, kinds, faults, torn>>

\* The actor is killed, by a second signal too.
ActorKilled ==
    /\ Up(actor)
    /\ ActorGone
    /\ Fault
    /\ UNCHANGED <<learner, disk, kinds, torn>>

-----------------------------------------------------------------------------
(***************************************************************************)
(* The actor's threads and the server's handlers                           *)
(***************************************************************************)
Transport == UNCHANGED <<disk, kinds, faults, torn>>

\* A worker takes the call.
Serve(s) ==
    /\ calls[s] = "queued" /\ Up(learner)
    /\ FreeWorker
    /\ calls' = [calls EXCEPT ![s] = "running"]
    /\ UNCHANGED <<actor, learner, orphans>>
    /\ Transport

\* The queue is closed under a thread, not under a process, which has a handle of its own.
Closed == actor.pc = "joining" /\ actor.threads

\* transitions_stream to SendTransitions.  (What interactions_stream sends is not modelled:
\* a message changes only the logs and a counter of the checkpoint.)  An episode taken from
\* the queue just before the event is still sent: the model lets any be.
SendTransitions ==
    /\ calls["transitions"] = "running"
    /\ ~Closed /\ ~learner.shutdown
    /\ actor.out # <<>>
    /\ actor' = [actor EXCEPT !.out = Tail(@)]
    /\ learner' = [learner EXCEPT !.incoming = Append(@, Head(actor.out))]
    /\ UNCHANGED <<calls, orphans>>
    /\ Transport


\* A sender stops: on the event its stream ends, and the call with it once a handler
\* answers; on a closed queue it raises, and the call is cancelled.
SenderEnds(s) ==
    /\ s # "weights"
    /\ \/ actor.shutdown /\ calls[s] = "running"
       \/ ~actor.shutdown /\ Closed /\ calls[s] \in {"queued", "running"}
    /\ calls' = [calls EXCEPT ![s] = "over"]
    /\ UNCHANGED <<actor, learner, orphans>>
    /\ Transport

\* StreamParameters sends the newest weights.  receive_policy looks at the event only now,
\* or puts on a closed queue: it drops its call, whose handler goes on.
SendWeights ==
    /\ calls["weights"] = "running"
    /\ learner.weights # <<>> /\ ~learner.shutdown
    /\ learner' = [learner EXCEPT !.weights = <<>>]
    /\ IF actor.shutdown \/ Closed
         THEN /\ calls' = [calls EXCEPT !["weights"] = "over"]
              /\ orphans' = orphans + 1
              /\ UNCHANGED actor
         ELSE /\ actor' = [actor EXCEPT !.inbox = learner.weights]
              /\ UNCHANGED <<calls, orphans>>
    /\ Transport

\* A mutant: the handler drops the weights and goes on.
OrphanStays ==
    /\ orphans > 0
    /\ learner.weights # <<>> /\ ~learner.shutdown
    /\ learner' = [learner EXCEPT !.weights = <<>>]
    /\ UNCHANGED <<actor, calls, orphans>>
    /\ Transport

\* A handler whose call is gone takes the newest weights too; sending them ends it.
OrphanEnds ==
    /\ orphans > 0
    /\ learner.weights # <<>> /\ ~learner.shutdown
    /\ learner' = [learner EXCEPT !.weights = <<>>]
    /\ orphans' = orphans - 1
    /\ UNCHANGED <<actor, calls>>
    /\ Transport

-----------------------------------------------------------------------------
(***************************************************************************)
(* The learner                                                             *)
(***************************************************************************)
Loop == UNCHANGED <<actor, calls, orphans, disk, kinds, faults, torn>>

\* A fresh start is refused in an output directory that exists: it makes one of its own.
StartsFresh ==
    /\ learner' = [LearnerDown EXCEPT !.pc = "top", !.weights = Pushed(0)]
    /\ disk' = [checkpoint |-> None, dataset |-> None]
    /\ torn' = "none"

\* A resumed start loads the checkpoint's critics and step, which is 0 when its training
\* state fails to load, and the saved buffer, and cannot without them.
StartsResumed ==
    /\ disk.checkpoint # None /\ disk.dataset # None
    /\ Len(disk.dataset) <= Capacity
    /\ \E step \in {disk.checkpoint[1], 0} :
          learner' = [LearnerDown EXCEPT
                        !.pc = "top",
                        !.step = step,
                        !.buffer = FromDataset(disk.dataset),
                        !.weights = Pushed(0)]
    /\ UNCHANGED <<disk, torn>>

\* Either makes its policy anew and pushes its weights at once: the configuration saved in
\* the checkpoint, which replaces the command line's, names no pretrained policy.
LearnerStarts ==
    /\ learner.pc = "down"
    /\ StartsFresh \/ StartsResumed
    /\ UNCHANGED <<faults, actor, calls, orphans, kinds>>

\* A mutant: the actor's threads call again.
LearnerGoneRetried ==
    /\ learner' = LearnerDown
    /\ calls' = [s \in Streams |-> IF calls[s] = "none" THEN "none" ELSE "queued"]
    /\ orphans' = 0

\* The server goes: every call that was made fails, and no handler is left.
LearnerGone ==
    /\ learner' = LearnerDown
    /\ calls' = [s \in Streams |-> IF calls[s] = "none" THEN "none" ELSE "over"]
    /\ orphans' = 0

LearnerSignal ==
    /\ Up(learner) /\ ~learner.shutdown
    /\ learner' = [learner EXCEPT !.shutdown = TRUE]
    /\ Fault
    /\ UNCHANGED <<actor, calls, orphans, disk, kinds, torn>>

LearnerExits ==
    /\ learner.pc = "top" /\ learner.shutdown
    /\ LearnerGone
    /\ UNCHANGED <<actor, disk, kinds, faults, torn>>

LearnerKilled ==
    /\ Up(learner)
    /\ LearnerGone
    /\ Fault
    /\ UNCHANGED <<actor, disk, kinds, torn>>

LearnerLoops ==
    /\ learner.pc = "top" /\ ~learner.shutdown
    /\ learner' = [learner EXCEPT !.pc = "transitions"]
    /\ Loop

\* check_nan_in_transition
Valid(n) == kinds[n] # "nan"

\* process_transitions takes a queued episode ...
TakeTransitions ==
    /\ learner.pc = "transitions" /\ ~learner.shutdown
    /\ learner.taken = <<>> /\ learner.incoming # <<>>
    /\ learner' = [learner EXCEPT !.incoming = Tail(@), !.taken = Head(learner.incoming)]
    /\ Loop

\* ... and adds its transitions one by one, the prefetching thread sampling in between.
AddTransition ==
    /\ learner.taken # <<>>
    /\ LET n == Head(learner.taken) IN
       learner' = [learner EXCEPT !.taken = Tail(@),
                                  !.buffer = IF Valid(n) THEN Add(@, n) ELSE @]
    /\ Loop

ReadyToTrain(buffer) == buffer.size >= Threshold

\* The queue is empty: a training step follows, or another turn of the loop.
TransitionsTaken ==
    /\ learner.pc = "transitions"
    /\ learner.taken = <<>>
    /\ learner.incoming = <<>> \/ learner.shutdown
    /\ learner' = [learner EXCEPT !.pc = IF ReadyToTrain(learner.buffer) THEN "train" ELSE "top"]
    /\ Loop

\* The next step, which stays at its bound.
Counted(n) == IF n < MaxTraining THEN n + 1 ELSE n

SaveDue(step) == step % SaveFreq = 0 \/ step = OnlineSteps

\* One training step, from any batch.  Weights are pushed when the last push is long enough
\* ago; then a checkpoint is due or not.
Train(push) ==
    /\ learner.pc = "train"
    /\ LET step == Counted(learner.step)
           trained == Counted(learner.trained)
       IN  learner' = [learner EXCEPT
                         !.step = step,
                         !.trained = trained,
                         !.weights = IF push THEN Pushed(trained) ELSE @,
                         !.pc = IF SaveDue(step) THEN "save" ELSE "top"]
    /\ Loop

-----------------------------------------------------------------------------
(***************************************************************************)
(* save_training_checkpoint                                                *)
(***************************************************************************)
\* A mutant: the new buffer is written before the old one is removed.
SaveStagesSwapped ==
    LET unlinked == [disk EXCEPT !.checkpoint = None]
        linked == [disk EXCEPT !.checkpoint = <<learner.step>>]
        written == [linked EXCEPT !.dataset = ToDataset(learner.buffer)]
    IN  <<unlinked, linked, written, [written EXCEPT !.dataset = None]>>

\* What is on the disk after each of its steps.  The new checkpoint is complete before the
\* first: update_last_checkpoint unlinks "last" and links it to the new one, the old saved
\* buffer is removed and the new one written.
SaveStages ==
    LET unlinked == [disk EXCEPT !.checkpoint = None]
        linked == [disk EXCEPT !.checkpoint = <<learner.step>>]
        wiped == [linked EXCEPT !.dataset = None]
    IN  <<unlinked, linked, wiped, [wiped EXCEPT !.dataset = ToDataset(learner.buffer)]>>

Save ==
    /\ learner.pc = "save"
    /\ disk' = SaveStages[4]
    /\ learner' = [learner EXCEPT !.pc = "top"]
    /\ torn' = "none"
    /\ UNCHANGED <<actor, calls, orphans, kinds, faults>>

\* Only a kill shows the stages between.
KilledSaving ==
    /\ learner.pc = "save"
    /\ \E k \in 1..3 :
          /\ disk' = SaveStages[k]
          /\ torn' = IF SaveStages[k].checkpoint = None THEN "link"
                     ELSE IF SaveStages[k].dataset = None THEN "buffer" ELSE "none"
    /\ LearnerGone
    /\ Fault
    /\ UNCHANGED <<actor, kinds>>

Acts == (\E kind \in Kinds : Step(kind)) \/ ActorSignal

Faults == ActorKilled \/ LearnerKilled \/ KilledSaving \/ LearnerSignal

Learns ==
    \/ LearnerLoops \/ TakeTransitions \/ AddTransition \/ TransitionsTaken
    \/ (\E push \in BOOLEAN : Train(push))
    \/ Save \/ LearnerExits

Sends ==
    \/ \E s \in Streams : Serve(s) \/ SenderEnds(s)
    \/ SendTransitions \/ SendWeights \/ OrphanEnds

Next ==
    \/ ActorStarts \/ LearnerStarts \/ Acts \/ Faults
    \/ ActorLeaves \/ ActorEnds \/ Learns \/ Sends

Spec == Init /\ [][Next]_vars

\* Threads and handlers run on, the learner's loop turns, and time goes by between its
\* pushes.  A handler polls the queue of weights, so none is passed over for ever.  Nothing
\* makes the actor act, a process start, or a signal come.
FairSpec ==
    /\ Spec
    /\ WF_vars(ActorLeaves) /\ WF_vars(ActorEnds)
    /\ WF_vars(Learns) /\ SF_vars(Train(TRUE))
    /\ \A s \in Streams : WF_vars(Serve(s)) /\ WF_vars(SenderEnds(s))
    /\ WF_vars(SendTransitions)
    /\ SF_vars(SendWeights) /\ SF_vars(OrphanEnds)

-----------------------------------------------------------------------------
Numbers == 1..MaxSteps

TypeOK ==
    /\ actor.pc \in {"down", "acting", "joining"}
    /\ {actor.threads, actor.shutdown, learner.shutdown} \subseteq BOOLEAN
    /\ torn \in {"none", "link", "buffer"}
    /\ actor.steps \in 0..OnlineSteps
    /\ actor.weights \in 0..MaxTraining
    /\ \A w \in Range(actor.inbox) \union Range(learner.weights) : w \in 0..MaxTraining
    /\ calls \in [Streams -> {"none", "queued", "running", "over"}]
    /\ Busy <= MaxWorkers
    /\ learner.pc \in {"down", "top", "transitions", "train", "save"}
    /\ learner.step \in 0..MaxTraining /\ learner.trained \in 0..learner.step
    /\ learner.buffer.slots \in [Slots -> 0..MaxSteps]
    /\ learner.buffer.position \in Slots /\ learner.buffer.size \in 0..Capacity

\* The transitions on their way and in the buffer, the oldest first.
Line ==
    ToDataset(learner.buffer) \o learner.taken \o FlattenSeq(learner.incoming) \o FlattenSeq(actor.out)
        \o actor.episode

\* The buffer holds each transition at most once and in the order they were acted, through
\* a full ring, killed actors and a resumed learner.
InOrderOnce ==
    \A i, j \in DOMAIN Line : i < j => Line[i] < Line[j]

\* The state sampled as the next one is the state that followed, for every slot sample
\* may draw, except after a transition that was truncated, before one that was skipped for
\* a NaN, and for the newest transition of a full ring (ReplayBuffer.sample).
NextStateFollows ==
    \A i \in Sampled(learner.buffer) :
        LET n == learner.buffer.slots[i] IN
        \/ learner.buffer.slots[NextSlot(i)] = n + 1
        \/ kinds[n] \in {"done", "truncated"}
        \/ kinds[n + 1] = "nan"
        \/ Full(learner.buffer) /\ i = Newest(learner.buffer)

\* What training samples: each transition once, in order, with the state that followed.
SamplesSound == TypeOK /\ InOrderOnce /\ NextStateFollows

\* A training step finds a slot to sample: with none, the prefetching thread of the replay
\* buffer dies of the error and the learner waits for its batch for ever.
TrainingNeverBlocks == learner.pc = "train" => Sampled(learner.buffer) # {}

\* Between saves a checkpoint is linked if and only if a buffer is saved that a learner can
\* resume with.  A learner killed while it saved may leave one without the other: a resume
\* then fails.
Resumable ==
    /\ disk.checkpoint # None /\ torn # "buffer" =>
         disk.dataset # None /\ Len(disk.dataset) \in Threshold..Capacity
    /\ disk.dataset # None /\ torn # "link" => disk.checkpoint # None

\* The learner neither starves in a training step nor dies with a checkpoint that it cannot
\* resume, but for the two gaps of a save.
LearnerSafe == TrainingNeverBlocks /\ Resumable

\* A learner at a training step has a policy that has seen that many: "the policy itself is
\* restored separately via make_policy" (learner.py:725).  A resumed learner has not.
PolicyResumed == learner.trained = learner.step

\* The newest weights an actor has: received, or loaded.
Received(acts) == IF acts.inbox = <<>> THEN acts.weights ELSE acts.inbox[1]

\* As long as one actor lives, neither the weights it acts with nor those it has received
\* go back, whichever learner sends them.
WeightsForward ==
    [][Up(actor) /\ Up(actor)' =>
         /\ actor'.weights >= actor.weights
         /\ Received(actor') >= Received(actor)]_vars

\* The learner has nothing to send, and nothing is on its way that would change that.
Quiet ==
    /\ Up(learner) /\ learner.buffer.size < Threshold
    /\ learner.incoming = <<>> /\ learner.taken = <<>> /\ learner.weights = <<>>

\* Episodes wait for a worker that handlers of dead actors hold, and these wait for
\* weights that only a buffer filled by those episodes would bring.
Starved == calls["transitions"] = "queued" /\ ~FreeWorker /\ orphans > 0 /\ Quiet

\* An episode reaches the learner unless its processes are signalled, killed or leave, or
\* the workers are starved.
EpisodesArrive ==
    actor.out # <<>> ~>
        \/ actor.out = <<>> \/ actor.shutdown \/ actor.pc # "acting"
        \/ ~Up(learner) \/ learner.shutdown \/ calls["transitions"] = "over"
        \/ Starved

=============================================================================
