---------------------------- MODULE OnlineRLProofs ----------------------------
(* Theorems about OnlineRL, for every ring, threshold, number of workers    *)
(* and number of faults.                                                    *)
EXTENDS OnlineRL, FiniteSetTheorems, WellFoundedInduction, TLAPS

(* A ring, the two processes and the disk.                                  *)
Buffers == [slots : [Slots -> Nat], position : Nat, size : 0..Capacity]

Actors ==
  [pc : {"down", "acting", "joining"}, threads : BOOLEAN, shutdown : BOOLEAN, steps : Nat,
   weights : Nat, episode : Seq(Nat), out : Seq(Seq(Nat)), inbox : Seq(Nat)]

Learners ==
  [pc : {"down", "top", "transitions", "train", "save"}, shutdown : BOOLEAN, step : Nat, trained : Nat,
   incoming : Seq(Seq(Nat)), taken : Seq(Nat), weights : Seq(Nat), buffer : Buffers]

Disks == [checkpoint : Seq(Nat), dataset : Seq(Nat)]

Types ==
  /\ actor \in Actors
  /\ learner \in Learners
  /\ calls \in [Streams -> {"none", "queued", "running", "over"}]
  /\ disk \in Disks

(* The learner trains and saves with a buffer that is large enough.         *)
TrainedBuffer ==
  learner.pc \in {"train", "save"} => learner.buffer.size >= Threshold

(* A saved buffer can be loaded.                                            *)
SavedBuffer ==
  disk.dataset # None => Len(disk.dataset) \in Threshold..Capacity

(* Weights grow along their way: the policy's, those received, those queued *)
(* by the learner of the call, and those it trains.                         *)
WeightsOnTheirWay ==
  /\ actor.inbox # <<>> => actor.weights <= actor.inbox[1]
  /\ learner.weights # <<>> => learner.weights[1] <= learner.trained
  /\ calls["weights"] \in {"queued", "running"} =>
       /\ Up(learner)
       /\ actor.weights <= learner.trained
       /\ actor.inbox # <<>> => actor.inbox[1] <= learner.trained
       /\ learner.weights # <<>> =>
            /\ actor.weights <= learner.weights[1]
            /\ actor.inbox # <<>> => actor.inbox[1] <= learner.weights[1]

RLInv == Types /\ TrainedBuffer /\ SavedBuffer /\ Resumable /\ WeightsOnTheirWay

-----------------------------------------------------------------------------
(* What the ring's operators return.                                        *)
LEMMA EmptyIsBuffer == Empty \in Buffers /\ Empty.size = 0
  BY CapacityAssumption DEF Empty, Buffers, Slots

LEMMA AddGrows ==
  ASSUME NEW buffer \in Buffers, NEW n \in Nat
  PROVE  Add(buffer, n) \in Buffers /\ Add(buffer, n).size >= buffer.size
<1>1. (buffer.position + 1) % Capacity \in Nat
  BY CapacityAssumption DEF Buffers
<1>2. [buffer.slots EXCEPT ![buffer.position] = n] \in [Slots -> Nat]
  BY DEF Buffers
<1>3. QED
  BY <1>1, <1>2, CapacityAssumption DEF Add, Full, Buffers

LEMMA DatasetOfBuffer ==
  ASSUME NEW buffer \in Buffers,
         \A k \in 1..buffer.size :
            (buffer.position + Capacity - buffer.size + k - 1) % Capacity \in Slots
  PROVE  ToDataset(buffer) \in Seq(Nat) /\ Len(ToDataset(buffer)) = buffer.size
<1>1. ToDataset(buffer) \in [1..buffer.size -> Nat]
  BY DEF ToDataset, Buffers
<1>2. QED
  BY <1>1 DEF ToDataset, Buffers

LEMMA IndexInRing ==
  ASSUME NEW buffer \in Buffers, NEW k \in 1..buffer.size
  PROVE  (buffer.position + Capacity - buffer.size + k - 1) % Capacity \in Slots
<1>1. buffer.position + Capacity - buffer.size + k - 1 \in Nat
  BY CapacityAssumption DEF Buffers
<1>2. \A a \in Nat : a % Capacity \in 0..(Capacity - 1)
  BY CapacityAssumption
<1>3. QED
  BY <1>1, <1>2 DEF Slots

LEMMA BufferOfDataset ==
  ASSUME NEW dataset \in Seq(Nat), Len(dataset) <= Capacity
  PROVE  FromDataset(dataset) \in Buffers /\ FromDataset(dataset).size = Len(dataset)
<1>1. Len(dataset) % Capacity \in Nat
  BY CapacityAssumption
<1>2. [i \in Slots |-> IF i < Len(dataset) THEN dataset[i + 1] ELSE 0] \in [Slots -> Nat]
  BY CapacityAssumption DEF Slots
<1>3. QED
  BY <1>1, <1>2 DEF FromDataset, Buffers

-----------------------------------------------------------------------------
(* Sequences of no and of one number.                                       *)
LEMMA EmptySeqs == <<>> \in Seq(Nat) /\ <<>> \in Seq(Seq(Nat)) /\ \A n \in Nat : <<n>> \in Seq(Nat)
  OBVIOUS

(* Every step keeps the types.                                              *)
LEMMA ActorTypes ==
  ASSUME Types,
         \/ ActorStarts \/ Acts \/ ActorLeaves \/ ActorEnds \/ ActorKilled
  PROVE  Types'
<1> USE DEF Types
<1>1. ActorDown \in Actors /\ NoCalls \in [Streams -> {"none", "queued", "running", "over"}]
  BY DEF ActorDown, Actors, NoCalls
<1>2. CASE ActorStarts
  <2>1. PICK threads \in UseThreads :
          actor' = [ActorDown EXCEPT !.pc = "acting", !.threads = threads]
    BY <1>2 DEF ActorStarts
  <2>2. actor' \in Actors
    BY <1>1, <2>1, RLAssumption DEF Actors
  <2>3. QED
    BY <1>2, <2>2 DEF ActorStarts
<1>3. CASE ActorSignal
  BY <1>3 DEF ActorSignal, Actors
<1>4. ASSUME NEW kind \in Kinds, Step(kind)
      PROVE  Types'
  <2> DEFINE episode == Append(actor.episode, Len(kinds) + 1)
             acts == [actor EXCEPT !.steps = @ + 1]
  <2>1. Len(kinds) + 1 \in Nat
    BY <1>4, RLAssumption DEF Step
  <2>2. episode \in Seq(Nat) /\ acts \in Actors /\ acts.out = actor.out /\ acts.inbox = actor.inbox
    <3>1. actor.episode \in Seq(Nat)
      BY DEF Actors
    <3>2. acts \in Actors
      <4>1. actor.steps + 1 \in Nat /\ actor \in Actors
        BY DEF Actors
      <4> HIDE DEF episode
      <4>2. QED
        BY ONLY <4>1 DEF Actors, acts
    <3>3. QED
      BY <2>1, <3>1, <3>2 DEF Actors
  <2> HIDE DEF episode, acts
  <2>3. EndEpisode(acts, episode) \in Actors
    <3>1. Append(acts.out, episode) \in Seq(Seq(Nat))
      BY <2>2 DEF Actors
    <3>2. acts.inbox # <<>> => acts.inbox[1] \in Nat
      BY <2>2 DEF Actors
    <3>3. (IF acts.inbox = <<>> THEN acts.weights ELSE acts.inbox[1]) \in Nat
      BY <2>2, <3>2 DEF Actors
    <3>4. QED
      BY <2>2, <3>1, <3>3, EmptySeqs DEF EndEpisode, Actors
  <2>4. [acts EXCEPT !.episode = episode] \in Actors
    BY <2>2 DEF Actors
  <2>5. actor' \in Actors
    BY <1>4, <2>3, <2>4 DEF Step, episode, acts
  <2>6. QED
    BY <1>4, <2>5 DEF Step
<1>5. CASE ActorLeaves
  BY <1>5, EmptySeqs DEF ActorLeaves, Actors
<1>6. CASE ActorEnds
  BY <1>1, <1>6 DEF ActorEnds, ActorGone
<1>7. CASE ActorKilled
  BY <1>1, <1>7 DEF ActorKilled, ActorGone
<1>8. QED
  BY <1>2, <1>3, <1>4, <1>5, <1>6, <1>7 DEF Acts

LEMMA SendTypes ==
  ASSUME Types, Sends
  PROVE  Types'
<1> USE DEF Types, Transport
<1>1. ASSUME NEW s \in Streams, Serve(s)
      PROVE  Types'
  BY <1>1 DEF Serve
<1>2. ASSUME NEW s \in Streams, SenderEnds(s)
      PROVE  Types'
  BY <1>2 DEF SenderEnds
<1>3. CASE SendTransitions
  <2>1. Head(actor.out) \in Seq(Nat) /\ Tail(actor.out) \in Seq(Seq(Nat))
    BY <1>3 DEF SendTransitions, Actors
  <2>2. actor' \in Actors
    BY <1>3, <2>1 DEF SendTransitions, Actors
  <2> DEFINE incoming == Append(learner.incoming, Head(actor.out))
  <2>3. incoming \in Seq(Seq(Nat))
    BY <2>1 DEF Learners
  <2>4. learner' = [learner EXCEPT !.incoming = incoming]
    BY <1>3 DEF SendTransitions
  <2> HIDE DEF incoming
  <2>5. learner' \in Learners
    BY <2>3, <2>4 DEF Learners
  <2>6. QED
    BY <1>3, <2>2, <2>5 DEF SendTransitions
<1>4. CASE SendWeights
  <2>1. learner' \in Learners
    BY <1>4, EmptySeqs DEF SendWeights, Learners
  <2>2. actor' \in Actors
    BY <1>4 DEF SendWeights, Actors, Learners
  <2>3. calls' \in [Streams -> {"none", "queued", "running", "over"}]
    BY <1>4 DEF SendWeights
  <2>4. QED
    BY <1>4, <2>1, <2>2, <2>3 DEF SendWeights
<1>5. CASE OrphanEnds
  BY <1>5, EmptySeqs DEF OrphanEnds, Learners
<1>6. QED
  BY <1>1, <1>2, <1>3, <1>4, <1>5 DEF Sends

(* What each stage of a save leaves on the disk.                            *)
LEMMA StagesOfSave ==
  ASSUME Types
  PROVE  /\ SaveStages[1] = [checkpoint |-> None, dataset |-> disk.dataset]
         /\ SaveStages[2] = [checkpoint |-> <<learner.step>>, dataset |-> disk.dataset]
         /\ SaveStages[3] = [checkpoint |-> <<learner.step>>, dataset |-> None]
         /\ SaveStages[4] = [checkpoint |-> <<learner.step>>, dataset |-> ToDataset(learner.buffer)]
         /\ \A k \in 1..4 : SaveStages[k] \in Disks
         /\ Len(SaveStages[4].dataset) = learner.buffer.size
<1> DEFINE saved == ToDataset(learner.buffer)
<1>1. learner.buffer \in Buffers /\ <<learner.step>> \in Seq(Nat) /\ disk \in Disks
  BY EmptySeqs DEF Types, Learners
<1>2. saved \in Seq(Nat) /\ Len(saved) = learner.buffer.size
  BY <1>1, DatasetOfBuffer, IndexInRing
<1> HIDE DEF saved
<1>3. /\ SaveStages[1] = [checkpoint |-> None, dataset |-> disk.dataset]
      /\ SaveStages[2] = [checkpoint |-> <<learner.step>>, dataset |-> disk.dataset]
      /\ SaveStages[3] = [checkpoint |-> <<learner.step>>, dataset |-> None]
      /\ SaveStages[4] = [checkpoint |-> <<learner.step>>, dataset |-> saved]
  BY <1>1 DEF SaveStages, Disks, saved
<1>4. disk.dataset \in Seq(Nat)
  BY <1>1 DEF Disks
<1>5. \A k \in 1..4 : SaveStages[k] \in Disks
  <2>1. SUFFICES ASSUME NEW k \in 1..4 PROVE SaveStages[k] \in Disks
    OBVIOUS
  <2>2. k = 1 \/ k = 2 \/ k = 3 \/ k = 4
    OBVIOUS
  <2>3. \A c, d \in Seq(Nat) : [checkpoint |-> c, dataset |-> d] \in Disks
    BY DEF Disks
  <2>4. None \in Seq(Nat)
    BY EmptySeqs DEF None
  <2>5. /\ SaveStages[1] \in Disks /\ SaveStages[2] \in Disks
        /\ SaveStages[3] \in Disks /\ SaveStages[4] \in Disks
    BY <1>1, <1>2, <1>3, <1>4, <2>3, <2>4
  <2>6. QED
    BY <2>2, <2>5
<1>6. QED
  BY <1>2, <1>3, <1>5 DEF saved

(* What a learner starts with: nothing, or the saved buffer and the step of *)
(* the checkpoint, or 0.                                                    *)
LEMMA LearnerStartsWith ==
  ASSUME LearnerStarts
  PROVE  /\ learner.pc = "down"
         /\ UNCHANGED <<faults, actor, calls, orphans, kinds>>
         /\ learner'.pc = "top" /\ learner'.weights = <<0>> /\ learner'.trained = 0
         /\ learner'.incoming = <<>> /\ learner'.taken = <<>>
         /\ \/ /\ learner' = [LearnerDown EXCEPT !.pc = "top", !.weights = <<0>>]
               /\ learner'.step = 0 /\ learner'.buffer = Empty
               /\ disk' = [checkpoint |-> None, dataset |-> None] /\ torn' = "none"
            \/ /\ disk.checkpoint # None /\ disk.dataset # None /\ Len(disk.dataset) <= Capacity
               /\ learner'.buffer = FromDataset(disk.dataset)
               /\ learner'.step \in {disk.checkpoint[1], 0}
               /\ learner' = [LearnerDown EXCEPT !.pc = "top", !.step = learner'.step,
                                !.buffer = FromDataset(disk.dataset), !.weights = <<0>>]
               /\ UNCHANGED <<disk, torn>>
<1>1. CASE StartsFresh
  BY <1>1 DEF LearnerStarts, StartsFresh, LearnerDown, Pushed
<1>2. CASE StartsResumed
  <2>1. PICK step \in {disk.checkpoint[1], 0} :
          learner' = [LearnerDown EXCEPT !.pc = "top", !.step = step,
                        !.buffer = FromDataset(disk.dataset), !.weights = <<0>>]
    BY <1>2 DEF StartsResumed, Pushed
  <2>2. /\ learner'.pc = "top" /\ learner'.weights = <<0>> /\ learner'.trained = 0
        /\ learner'.incoming = <<>> /\ learner'.taken = <<>>
        /\ learner'.step = step /\ learner'.buffer = FromDataset(disk.dataset)
    BY <2>1 DEF LearnerDown
  <2>3. QED
    BY <1>2, <2>1, <2>2 DEF LearnerStarts, StartsResumed
<1>3. QED
  BY <1>1, <1>2 DEF LearnerStarts

LEMMA LearnerTypes ==
  ASSUME Types, LearnerStarts \/ Learns \/ LearnerSignal \/ LearnerKilled \/ KilledSaving
  PROVE  Types'
<1> USE DEF Loop
<1>0. /\ actor \in Actors /\ learner \in Learners /\ disk \in Disks
      /\ calls \in [Streams -> {"none", "queued", "running", "over"}]
  BY DEF Types
<1>1. LearnerDown \in Learners
  BY EmptyIsBuffer, EmptySeqs DEF LearnerDown, Learners
<1>2. LearnerGone => /\ learner' \in Learners
                     /\ calls' \in [Streams -> {"none", "queued", "running", "over"}]
  BY <1>1 DEF LearnerGone
<1>3. CASE LearnerStarts
  <2>1. CASE /\ learner' = [LearnerDown EXCEPT !.pc = "top", !.weights = <<0>>]
             /\ disk' = [checkpoint |-> None, dataset |-> None]
    <3>1. learner' \in Learners
      BY <1>1, <2>1, EmptySeqs DEF Learners
    <3>2. disk' \in Disks
      BY <2>1, EmptySeqs DEF Disks, None
    <3>3. QED
      BY <1>0, <1>3, <3>1, <3>2, LearnerStartsWith DEF Types
  <2>2. CASE /\ disk.checkpoint # None /\ Len(disk.dataset) <= Capacity
             /\ learner'.step \in {disk.checkpoint[1], 0}
             /\ learner' = [LearnerDown EXCEPT !.pc = "top", !.step = learner'.step,
                              !.buffer = FromDataset(disk.dataset), !.weights = <<0>>]
             /\ UNCHANGED <<disk, torn>>
    <3>1. disk.checkpoint[1] \in Nat /\ disk.dataset \in Seq(Nat)
      BY <1>0, <2>2 DEF Disks, None
    <3>2. FromDataset(disk.dataset) \in Buffers
      BY <2>2, <3>1, BufferOfDataset
    <3>3. learner'.step \in Nat
      BY <2>2, <3>1
    <3>4. learner' \in Learners
      <4> DEFINE step == learner'.step
                 buffer == FromDataset(disk.dataset)
      <4>1. learner' = [LearnerDown EXCEPT !.pc = "top", !.step = step, !.buffer = buffer, !.weights = <<0>>]
        BY <2>2
      <4>2. step \in Nat /\ buffer \in Buffers /\ <<0>> \in Seq(Nat)
        BY <3>2, <3>3, EmptySeqs
      <4> HIDE DEF step, buffer
      <4>3. QED
        BY <1>1, <4>1, <4>2 DEF Learners
    <3>5. QED
      BY <1>0, <1>3, <2>2, <3>4, LearnerStartsWith DEF Types
  <2>3. QED
    BY <1>3, <2>1, <2>2, LearnerStartsWith
<1>4. CASE LearnerSignal
  BY <1>0, <1>4 DEF LearnerSignal, Types, Learners
<1>5. CASE LearnerKilled
  BY <1>0, <1>2, <1>5 DEF LearnerKilled, Types
<1>6. CASE KilledSaving
  <2>1. disk' \in Disks
    BY <1>6, StagesOfSave DEF KilledSaving
  <2>2. QED
    BY <1>0, <1>2, <1>6, <2>1 DEF KilledSaving, Types
<1>7. CASE LearnerLoops
  BY <1>0, <1>7 DEF LearnerLoops, Types, Learners
<1>8. CASE TakeTransitions
  <2>1. Head(learner.incoming) \in Seq(Nat) /\ Tail(learner.incoming) \in Seq(Seq(Nat))
    BY <1>0, <1>8 DEF TakeTransitions, Learners
  <2>2. QED
    BY <1>0, <1>8, <2>1 DEF TakeTransitions, Types, Learners
<1>9. CASE AddTransition
  <2> DEFINE n == Head(learner.taken)
             buffer == IF Valid(n) THEN Add(learner.buffer, n) ELSE learner.buffer
  <2>1. n \in Nat /\ Tail(learner.taken) \in Seq(Nat)
    BY <1>0, <1>9 DEF AddTransition, Learners
  <2>2. buffer \in Buffers
    BY <1>0, <2>1, AddGrows DEF Learners
  <2>3. learner' = [learner EXCEPT !.taken = Tail(@), !.buffer = buffer]
    BY <1>9 DEF AddTransition
  <2> HIDE DEF n, buffer
  <2>4. QED
    BY <1>0, <1>9, <2>1, <2>2, <2>3 DEF AddTransition, Types, Learners
<1>10. CASE TransitionsTaken
  BY <1>0, <1>10 DEF TransitionsTaken, Types, Learners
<1>11. ASSUME NEW push \in BOOLEAN, Train(push)
       PROVE  Types'
  <2> DEFINE step == Counted(learner.step)
             trained == Counted(learner.trained)
             weights == IF push THEN <<trained>> ELSE learner.weights
             pc == IF SaveDue(step) THEN "save" ELSE "top"
  <2>1. step \in Nat /\ trained \in Nat
    BY <1>0, RLAssumption DEF Learners, Counted
  <2>2. pc \in {"save", "top"}
    OBVIOUS
  <2>3. learner' = [learner EXCEPT !.step = step, !.trained = trained, !.weights = weights, !.pc = pc]
    BY <1>11 DEF Train, Pushed
  <2> HIDE DEF step, trained, pc
  <2>4. weights \in Seq(Nat)
    BY <1>0, <2>1, EmptySeqs DEF Learners
  <2> HIDE DEF weights
  <2>5. learner' \in Learners
    BY <1>0, <2>1, <2>2, <2>3, <2>4 DEF Learners
  <2>6. QED
    BY <1>0, <1>11, <2>5 DEF Train, Types
<1>12. CASE Save
  <2>1. disk' \in Disks
    BY <1>12, StagesOfSave DEF Save
  <2>2. QED
    BY <1>0, <1>12, <2>1 DEF Save, Types, Learners
<1>13. CASE LearnerExits
  BY <1>0, <1>2, <1>13 DEF LearnerExits, Types
<1>14. QED
  BY <1>3, <1>4, <1>5, <1>6, <1>7, <1>8, <1>9, <1>10, <1>11, <1>12, <1>13 DEF Learns

LEMMA TypesKept ==
  ASSUME Types, [Next]_vars
  PROVE  Types'
<1>1. CASE UNCHANGED vars
  BY <1>1 DEF vars, Types
<1>2. CASE Next
  BY <1>2, ActorTypes, SendTypes, LearnerTypes DEF Next, Faults
<1>3. QED
  BY <1>1, <1>2

-----------------------------------------------------------------------------
(* The learner's own steps and faults are the only ones that change its pc, *)
(* its buffer, its step, the disk and torn.                                 *)
LEMMA OthersLeaveLearner ==
  ASSUME Types,
         ActorStarts \/ Acts \/ ActorLeaves \/ ActorEnds \/ ActorKilled \/ Sends \/ UNCHANGED vars
  PROVE  /\ learner'.pc = learner.pc /\ learner'.buffer = learner.buffer
         /\ learner'.step = learner.step
         /\ disk' = disk /\ torn' = torn
<1>0. learner \in Learners
  BY DEF Types
<1>1. CASE ActorStarts \/ ActorLeaves \/ ActorEnds \/ ActorKilled \/ UNCHANGED vars
  BY <1>1 DEF ActorStarts, ActorLeaves, ActorEnds, ActorKilled, ActorGone, vars
<1>2. CASE Acts
  BY <1>2 DEF Acts, Step, ActorSignal
<1>3. CASE Sends
  BY <1>0, <1>3 DEF Sends, Serve, SenderEnds, SendTransitions, SendWeights, OrphanEnds,
                    Transport, Learners
<1>4. QED
  BY <1>1, <1>2, <1>3

(* The learner trains and saves with enough transitions.                    *)
LEMMA TrainedBufferKept ==
  ASSUME Types, TrainedBuffer, [Next]_vars
  PROVE  TrainedBuffer'
<1>0. learner \in Learners /\ learner.buffer \in Buffers
  BY DEF Types, Learners
<1>1. CASE \/ ActorStarts \/ Acts \/ ActorLeaves \/ ActorEnds \/ ActorKilled \/ Sends
           \/ UNCHANGED vars
  BY <1>1, OthersLeaveLearner DEF TrainedBuffer
<1>2. CASE LearnerStarts
  <2>1. learner'.pc = "top"
    BY <1>2, LearnerStartsWith
  <2>2. QED
    BY <2>1 DEF TrainedBuffer
<1>3. CASE LearnerSignal
  BY <1>0, <1>3 DEF LearnerSignal, TrainedBuffer, Learners
<1>4. CASE LearnerKilled \/ KilledSaving \/ LearnerExits
  <2>1. learner'.pc = "down"
    BY <1>4 DEF LearnerKilled, KilledSaving, LearnerExits, LearnerGone, LearnerDown
  <2>2. QED
    BY <2>1 DEF TrainedBuffer
<1>5. CASE LearnerLoops
  BY <1>0, <1>5 DEF LearnerLoops, TrainedBuffer, Learners
<1>6. CASE TakeTransitions
  BY <1>0, <1>6 DEF TakeTransitions, TrainedBuffer, Learners
<1>7. CASE AddTransition
  <2> DEFINE n == Head(learner.taken)
             buffer == IF Valid(n) THEN Add(learner.buffer, n) ELSE learner.buffer
  <2>1. n \in Nat
    BY <1>0, <1>7 DEF AddTransition, Learners
  <2>2. learner'.pc = learner.pc /\ learner'.buffer = buffer
    BY <1>0, <1>7 DEF AddTransition, Learners
  <2>3. buffer \in Buffers /\ buffer.size >= learner.buffer.size
    <3>1. Add(learner.buffer, n) \in Buffers /\ Add(learner.buffer, n).size >= learner.buffer.size
      BY <1>0, <2>1, AddGrows
    <3>2. learner.buffer.size >= learner.buffer.size
      BY <1>0, CapacityAssumption DEF Buffers
    <3>3. QED
      BY <1>0, <3>1, <3>2
  <2> HIDE DEF n, buffer
  <2>4. Threshold \in Nat /\ buffer.size \in Int /\ learner.buffer.size \in Int
    BY <1>0, <2>3, RLAssumption, CapacityAssumption DEF Buffers
  <2>5. QED
    BY <2>2, <2>3, <2>4 DEF TrainedBuffer
<1>8. CASE TransitionsTaken
  BY <1>0, <1>8 DEF TransitionsTaken, TrainedBuffer, ReadyToTrain, Learners
<1>9. ASSUME NEW push \in BOOLEAN, Train(push)
      PROVE  TrainedBuffer'
  BY <1>0, <1>9 DEF Train, TrainedBuffer, Learners
<1>10. CASE Save
  BY <1>0, <1>10 DEF Save, TrainedBuffer, Learners
<1>11. QED
  BY <1>1, <1>2, <1>3, <1>4, <1>5, <1>6, <1>7, <1>8, <1>9, <1>10 DEF Next, Faults, Learns

(* A save leaves a buffer that can be loaded, or says what it left without. *)
LEMMA DiskKept ==
  ASSUME Types, TrainedBuffer, SavedBuffer, Resumable, [Next]_vars
  PROVE  SavedBuffer' /\ Resumable'
<1>1. CASE \/ ActorStarts \/ Acts \/ ActorLeaves \/ ActorEnds \/ ActorKilled \/ Sends
           \/ UNCHANGED vars
  BY <1>1, OthersLeaveLearner DEF SavedBuffer, Resumable
<1>2. CASE \/ LearnerSignal \/ LearnerKilled \/ LearnerExits \/ LearnerLoops
           \/ TakeTransitions \/ AddTransition \/ TransitionsTaken
           \/ \E push \in BOOLEAN : Train(push)
  <2>1. disk' = disk /\ torn' = torn
    BY <1>2 DEF LearnerSignal, LearnerKilled, LearnerExits, LearnerLoops, TakeTransitions,
                AddTransition, TransitionsTaken, Train, Loop
  <2>2. QED
    BY <2>1 DEF SavedBuffer, Resumable
<1>3. CASE Save
  <2>1. learner.buffer.size \in Threshold..Capacity
    <3>1. learner.pc = "save" /\ learner.buffer.size \in 0..Capacity
      BY <1>3 DEF Save, Types, Learners, Buffers
    <3>2. QED
      BY <3>1, RLAssumption, CapacityAssumption DEF TrainedBuffer
  <2>2. /\ disk'.checkpoint = <<learner.step>>
        /\ Len(disk'.dataset) = learner.buffer.size
        /\ torn' = "none"
    BY <1>3, StagesOfSave DEF Save
  <2>3. disk'.dataset # None
    BY <2>1, <2>2, RLAssumption, CapacityAssumption DEF None
  <2>4. QED
    BY <2>1, <2>2, <2>3 DEF SavedBuffer, Resumable, None
<1>4. CASE KilledSaving
  <2>1. PICK k \in 1..3 :
          /\ disk' = SaveStages[k]
          /\ torn' = IF SaveStages[k].checkpoint = None THEN "link"
                     ELSE IF SaveStages[k].dataset = None THEN "buffer" ELSE "none"
    BY <1>4 DEF KilledSaving
  <2>2. disk'.dataset \in {None, disk.dataset}
    BY <2>1, StagesOfSave
  <2>3. torn' = IF disk'.checkpoint = None THEN "link"
                ELSE IF disk'.dataset = None THEN "buffer" ELSE "none"
    BY <2>1
  <2>4. SavedBuffer'
    BY <2>2 DEF SavedBuffer
  <2>5. QED
    BY <2>3, <2>4 DEF SavedBuffer, Resumable
<1>5. CASE LearnerStarts
  <2>1. \/ disk' = [checkpoint |-> None, dataset |-> None]
        \/ UNCHANGED <<disk, torn>>
    BY <1>5, LearnerStartsWith
  <2>2. QED
    BY <2>1 DEF SavedBuffer, Resumable
<1>6. QED
  BY <1>1, <1>2, <1>3, <1>4, <1>5 DEF Next, Faults, Learns

-----------------------------------------------------------------------------
(* Weights on their way stay in order, and the actor's never go back.       *)
LEMMA WeightsKept ==
  ASSUME Types, WeightsOnTheirWay, [Next]_vars
  PROVE  /\ WeightsOnTheirWay'
         /\ Up(actor) /\ Up(actor)' =>
              actor'.weights >= actor.weights /\ Received(actor') >= Received(actor)
<1> DEFINE Goal == /\ WeightsOnTheirWay'
                   /\ Up(actor) /\ Up(actor)' =>
                        actor'.weights >= actor.weights /\ Received(actor') >= Received(actor)
<1>0. /\ actor \in Actors /\ learner \in Learners
      /\ calls \in [Streams -> {"none", "queued", "running", "over"}]
      /\ actor.weights \in Nat /\ learner.trained \in Nat
      /\ actor.inbox \in Seq(Nat) /\ learner.weights \in Seq(Nat)
  BY DEF Types, Actors, Learners
<1>1. /\ actor.inbox # <<>> => actor.inbox[1] \in Nat
      /\ learner.weights # <<>> => learner.weights[1] \in Nat
  BY <1>0
<1>2. "weights" \in Streams
  BY DEF Streams
<1>w. \A n \in Nat : <<n>> # <<>> /\ <<n>>[1] = n
  OBVIOUS
<1>3. ASSUME actor'.weights = actor.weights, actor'.inbox = actor.inbox,
             learner'.weights = learner.weights, learner'.trained = learner.trained,
             learner'.pc # "down",
             calls'["weights"] \in {"queued", "running"} => calls["weights"] \in {"queued", "running"}
      PROVE  Goal
  BY <1>0, <1>3 DEF Received, WeightsOnTheirWay, Up
<1>4. CASE UNCHANGED vars
  BY <1>0, <1>4 DEF vars, Received, WeightsOnTheirWay, Up
<1>5. CASE ActorStarts
  <2>1. /\ actor'.weights = 0 /\ actor'.inbox = <<>>
        /\ learner' = learner /\ Up(learner) /\ actor.pc = "down"
    BY <1>5 DEF ActorStarts, ActorDown
  <2>2. QED
    BY <1>0, <1>1, <2>1 DEF Received, WeightsOnTheirWay, Up
<1>6. CASE ActorEnds \/ ActorKilled
  <2>1. /\ actor'.weights = 0 /\ actor'.inbox = <<>> /\ actor'.pc = "down"
        /\ learner' = learner /\ calls'["weights"] = "none"
    BY <1>2, <1>6 DEF ActorEnds, ActorKilled, ActorGone, ActorDown, NoCalls
  <2>2. QED
    BY <1>0, <1>1, <2>1 DEF Received, WeightsOnTheirWay, Up
<1>7. CASE LearnerStarts
  <2>1. learner'.weights = <<0>> /\ learner'.trained = 0 /\ learner'.pc = "top" /\ UNCHANGED <<actor, calls>>
    BY <1>7, LearnerStartsWith
  <2>2. learner.pc = "down"
    BY <1>7, LearnerStartsWith
  <2>3. calls'["weights"] \notin {"queued", "running"}
    BY <2>1, <2>2 DEF Received, WeightsOnTheirWay, Up
  <2>4. learner'.trained \in Nat
    BY LearnerTypes, <1>7 DEF Types, Learners
  <2>5. QED
    BY <1>0, <1>w, <2>1, <2>3, <2>4 DEF Received, WeightsOnTheirWay
<1>8. CASE LearnerKilled \/ KilledSaving \/ LearnerExits
  <2>1. /\ learner'.weights = <<>> /\ calls'["weights"] \in {"none", "over"}
        /\ UNCHANGED actor
    BY <1>2, <1>8 DEF LearnerKilled, KilledSaving, LearnerExits, LearnerGone, LearnerDown
  <2>2. QED
    BY <1>0, <2>1 DEF Received, WeightsOnTheirWay
<1>9. ASSUME NEW kind \in Kinds, Step(kind)
      PROVE  Goal
  <2>1. \/ actor'.weights = actor.weights /\ actor'.inbox = actor.inbox
        \/ /\ actor'.inbox = <<>>
           /\ actor'.weights = IF actor.inbox = <<>> THEN actor.weights ELSE actor.inbox[1]
    BY <1>0, <1>9 DEF Step, EndEpisode, Actors
  <2>2. learner' = learner /\ calls' = calls
    BY <1>9 DEF Step
  <2>3. QED
    BY <1>0, <1>1, <2>1, <2>2 DEF Received, WeightsOnTheirWay, Up
<1>10. CASE ActorSignal \/ ActorLeaves
  <2>1. actor'.weights = actor.weights /\ actor'.inbox = actor.inbox
        /\ learner' = learner /\ calls' = calls
    BY <1>0, <1>10 DEF ActorSignal, ActorLeaves, Actors
  <2>2. QED
    BY <1>0, <2>1 DEF Received, WeightsOnTheirWay, Up
<1>11. ASSUME NEW s \in Streams, Serve(s) \/ SenderEnds(s)
       PROVE  Goal
  <2>1. /\ actor' = actor /\ learner' = learner
        /\ \/ calls'["weights"] = calls["weights"]
           \/ calls["weights"] = "queued" /\ calls'["weights"] = "running"
    <3>1. CASE Serve(s)
      BY <1>0, <1>2, <3>1 DEF Serve
    <3>2. CASE SenderEnds(s)
      <4>1. s # "weights" /\ calls' = [calls EXCEPT ![s] = "over"]
            /\ actor' = actor /\ learner' = learner
        BY <3>2 DEF SenderEnds
      <4>2. calls'["weights"] = calls["weights"]
        BY <1>0, <1>2, <4>1
      <4>3. QED
        BY <4>1, <4>2
    <3>3. QED
      BY <1>11, <3>1, <3>2
  <2>2. QED
    BY <1>0, <2>1 DEF Received, WeightsOnTheirWay, Up
<1>12. CASE SendTransitions
  <2>1. /\ actor'.weights = actor.weights /\ actor'.inbox = actor.inbox
        /\ learner'.weights = learner.weights /\ learner'.trained = learner.trained
        /\ learner'.pc = learner.pc /\ calls' = calls
    BY <1>0, <1>12 DEF SendTransitions, Actors, Learners
  <2>2. QED
    BY <1>0, <2>1 DEF Received, WeightsOnTheirWay, Up
<1>13. CASE SendWeights
  <2>1. /\ learner'.weights = <<>> /\ learner'.trained = learner.trained /\ learner'.pc = learner.pc
        /\ learner.weights # <<>> /\ calls["weights"] = "running"
    BY <1>0, <1>13 DEF SendWeights, Learners
  <2>2. CASE actor.shutdown \/ Closed
    <3>1. actor' = actor /\ calls'["weights"] = "over"
      BY <1>0, <1>2, <1>13, <2>2 DEF SendWeights
    <3>2. QED
      BY <1>0, <2>1, <3>1 DEF Received, WeightsOnTheirWay
  <2>3. CASE ~(actor.shutdown \/ Closed)
    <3>1. actor'.weights = actor.weights /\ actor'.inbox = learner.weights /\ calls' = calls
      BY <1>0, <1>13, <2>3 DEF SendWeights, Actors
    <3>2. QED
      BY <1>0, <1>1, <2>1, <3>1 DEF Received, WeightsOnTheirWay, Up
  <2>4. QED
    BY <2>2, <2>3
<1>14. CASE OrphanEnds
  <2>1. /\ learner'.weights = <<>> /\ learner'.trained = learner.trained /\ learner'.pc = learner.pc
        /\ actor' = actor /\ calls' = calls
    BY <1>0, <1>14 DEF OrphanEnds, Learners
  <2>2. QED
    BY <1>0, <2>1 DEF Received, WeightsOnTheirWay, Up
<1>15. CASE \/ LearnerSignal \/ LearnerLoops \/ TakeTransitions \/ AddTransition
            \/ TransitionsTaken \/ Save
  <2>1. /\ actor' = actor /\ calls' = calls
        /\ learner'.weights = learner.weights /\ learner'.trained = learner.trained
        /\ learner'.pc = "down" => learner.pc = "down"
    BY <1>0, <1>15 DEF LearnerSignal, LearnerLoops, TakeTransitions, AddTransition,
                       TransitionsTaken, Save, Loop, Learners
  <2>2. QED
    BY <1>0, <2>1 DEF Received, WeightsOnTheirWay, Up
<1>16. ASSUME NEW push \in BOOLEAN, Train(push)
       PROVE  Goal
  <2> DEFINE step == Counted(learner.step)
             trained == Counted(learner.trained)
             weights == IF push THEN <<trained>> ELSE learner.weights
             pc == IF SaveDue(step) THEN "save" ELSE "top"
  <2>1. learner' = [learner EXCEPT !.step = step, !.trained = trained, !.weights = weights, !.pc = pc]
    BY <1>16 DEF Train, Pushed
  <2>2. pc # "down" /\ trained \in Nat /\ trained >= learner.trained
    BY <1>0, RLAssumption DEF Counted
  <2> HIDE DEF step, trained, pc
  <2>3. /\ learner'.weights = weights /\ learner'.trained = trained /\ learner'.pc = pc
        /\ actor' = actor /\ calls' = calls /\ learner.pc # "down"
    BY <1>0, <1>16, <2>1 DEF Train, Loop, Learners
  <2>4. CASE push
    <3>1. learner'.weights # <<>> /\ learner'.weights[1] = trained
      BY <1>w, <2>2, <2>3, <2>4
    <3>2. QED
      BY <1>0, <1>1, <2>2, <2>3, <3>1 DEF Received, WeightsOnTheirWay, Up
  <2>5. CASE ~push
    BY <1>0, <1>1, <2>2, <2>3, <2>5 DEF Received, WeightsOnTheirWay, Up
  <2>6. QED
    BY <2>4, <2>5
<1>17. QED
  BY <1>4, <1>5, <1>6, <1>7, <1>8, <1>9, <1>10, <1>11, <1>12, <1>13, <1>14, <1>15, <1>16
  DEF Next, Acts, Faults, Learns, Sends

-----------------------------------------------------------------------------
LEMMA RLInvHolds == Spec => []RLInv
<1>1. Init => RLInv
  BY EmptyIsBuffer, EmptySeqs
  DEF Init, RLInv, Types, TrainedBuffer, SavedBuffer, Resumable, WeightsOnTheirWay, Disks,
      Actors, Learners, ActorDown, LearnerDown, NoCalls, None, Up, Streams
<1>2. RLInv /\ [Next]_vars => RLInv'
  BY TypesKept, TrainedBufferKept, DiskKept, WeightsKept DEF RLInv
<1>3. QED
  BY <1>1, <1>2, PTL DEF Spec

(* A training step finds a transition to sample, for every threshold of at  *)
(* least two transitions and every ring (learner.py: the buffer is compared *)
(* with the threshold in the turn that trains).                             *)
THEOREM TrainingFindsSample == Spec => []TrainingNeverBlocks
<1>1. RLInv => TrainingNeverBlocks
  <2>1. SUFFICES ASSUME RLInv, learner.pc = "train"
                 PROVE  Sampled(learner.buffer) # {}
    BY DEF TrainingNeverBlocks
  <2>2. learner.buffer.size \in 0..Capacity /\ learner.buffer.size >= Threshold
    BY <2>1 DEF RLInv, Types, Learners, Buffers, TrainedBuffer
  <2>3. 0 \in Sampled(learner.buffer)
    BY <2>2, RLAssumption, CapacityAssumption DEF Sampled, Slots
  <2>4. QED
    BY <2>3
<1>2. QED
  BY <1>1, RLInvHolds, PTL

(* Whenever the learner dies, inside its save too, a linked checkpoint has  *)
(* a buffer it resumes with, and a saved buffer a checkpoint, but for the   *)
(* two gaps of an interrupted save (learner.py: save_training_checkpoint).  *)
THEOREM CheckpointsResume == Spec => []Resumable
<1>1. RLInv => Resumable
  BY DEF RLInv
<1>2. QED
  BY <1>1, RLInvHolds, PTL

(* A learner never starves in a training step, nor dies with a checkpoint   *)
(* that it cannot resume but inside a save (learner.py).                    *)
THEOREM LearnersSafe == Spec => []LearnerSafe
<1>1. QED
  BY TrainingFindsSample, CheckpointsResume, PTL DEF LearnerSafe

(* The weights of a living actor never go back, whichever learner sends     *)
(* them and however often it is killed and resumed (actor.py:               *)
(* receive_policy, update_policy_parameters).                               *)
THEOREM WeightsNeverGoBack == Spec => WeightsForward
<1>1. RLInv /\ [Next]_vars =>
        [Up(actor) /\ Up(actor)' =>
           /\ actor'.weights >= actor.weights
           /\ Received(actor') >= Received(actor)]_vars
  BY WeightsKept DEF RLInv
<1>2. QED
  BY <1>1, RLInvHolds, PTL DEF Spec, WeightsForward
-----------------------------------------------------------------------------
(* A ring that was filled from its first slot.                              *)
RingSound(buffer) ==
  /\ buffer \in Buffers /\ buffer.position \in Slots
  /\ ~Full(buffer) => buffer.position = buffer.size

(* A slot is less than two rounds away.                                     *)
LEMMA Round ==
  ASSUME NEW a \in 0..(2 * Capacity - 1)
  PROVE  a % Capacity = IF a < Capacity THEN a ELSE a - Capacity
<1> USE CapacityAssumption
<1>1. CASE a < Capacity
  BY <1>1
<1>2. CASE a >= Capacity
  BY <1>2
<1>3. QED
  BY <1>1, <1>2

(* The slot that comes some slots after another.                            *)
After(p, n) == IF p + n < Capacity THEN p + n ELSE p + n - Capacity

(* The slot of the k-th oldest transition.                                  *)
SlotOf(buffer, k) ==
  IF ~Full(buffer) THEN k - 1
  ELSE After(buffer.position, k - 1)

(* The dataset lists the slots from the oldest on.                          *)
LEMMA DatasetIs ==
  ASSUME NEW buffer, RingSound(buffer)
  PROVE  /\ ToDataset(buffer) = [k \in 1..buffer.size |-> buffer.slots[SlotOf(buffer, k)]]
         /\ \A k \in 1..buffer.size : SlotOf(buffer, k) \in Slots
         /\ ToDataset(buffer) \in Seq(Nat) /\ Len(ToDataset(buffer)) = buffer.size
<1>1. ASSUME NEW k \in 1..buffer.size
      PROVE  /\ (buffer.position + Capacity - buffer.size + k - 1) % Capacity = SlotOf(buffer, k)
             /\ SlotOf(buffer, k) \in Slots
  <2> DEFINE a == buffer.position + Capacity - buffer.size + k - 1
  <2>1. /\ buffer.position \in 0..(Capacity - 1) /\ buffer.size \in 0..Capacity /\ Capacity \in Nat \ {0}
        /\ Full(buffer) <=> buffer.size = Capacity
        /\ ~Full(buffer) => buffer.position = buffer.size
    BY CapacityAssumption DEF RingSound, Buffers, Slots, Full
  <2>2. a \in 0..(2 * Capacity - 1)
    BY <2>1
  <2>3. a % Capacity = IF a < Capacity THEN a ELSE a - Capacity
    BY <2>2, Round
  <2>4. CASE Full(buffer)
    BY <2>1, <2>3, <2>4 DEF SlotOf, Slots, After
  <2>5. CASE ~Full(buffer)
    BY <2>1, <2>3, <2>5 DEF SlotOf, Slots
  <2>6. QED
    BY <2>4, <2>5
<1>2. ToDataset(buffer) = [k \in 1..buffer.size |-> buffer.slots[SlotOf(buffer, k)]]
  BY <1>1 DEF ToDataset
<1>3. \A k \in 1..buffer.size : buffer.slots[SlotOf(buffer, k)] \in Nat
  BY <1>1 DEF RingSound, Buffers
<1>4. buffer.size \in Nat
  BY CapacityAssumption DEF RingSound, Buffers
<1>5. QED
  BY <1>1, <1>2, <1>3, <1>4

LEMMA AfterNext ==
  ASSUME NEW p \in Slots, NEW k \in 1..(Capacity - 1)
  PROVE  After(After(p, 1), k - 1) = After(p, k) /\ After(p, k) # p
<1>1. p \in 0..(Capacity - 1) /\ Capacity \in Nat \ {0}
  BY CapacityAssumption DEF Slots
<1>2. CASE p + 1 < Capacity
  <2>1. After(p, 1) = p + 1 /\ p + 1 + (k - 1) = p + k
    BY <1>1, <1>2 DEF After
  <2>2. QED
    BY <1>1, <2>1 DEF After
<1>3. CASE p + 1 = Capacity
  <2>1. After(p, 1) = 0 /\ After(0, k - 1) = k - 1 /\ After(p, k) = k - 1
    BY <1>1, <1>3 DEF After
  <2>2. QED
    BY <1>1, <1>3, <2>1
<1>4. QED
  BY <1>1, <1>2, <1>3

(* Add appends, and drops the oldest of a full ring.                        *)
LEMMA AddAppends ==
  ASSUME NEW buffer, RingSound(buffer), NEW n \in Nat
  PROVE  /\ RingSound(Add(buffer, n))
         /\ ToDataset(Add(buffer, n)) =
              Append(IF Full(buffer) THEN Tail(ToDataset(buffer)) ELSE ToDataset(buffer), n)
<1> DEFINE added == Add(buffer, n)
           position == After(buffer.position, 1)
           size == IF Full(buffer) THEN Capacity ELSE buffer.size + 1
           slots == [buffer.slots EXCEPT ![buffer.position] = n]
<1>1. /\ buffer.position \in 0..(Capacity - 1) /\ buffer.size \in 0..Capacity /\ Capacity \in Nat \ {0}
      /\ Full(buffer) <=> buffer.size = Capacity
      /\ ~Full(buffer) => buffer.position = buffer.size
      /\ buffer.slots \in [Slots -> Nat] /\ Slots = 0..(Capacity - 1)
  BY CapacityAssumption DEF RingSound, Buffers, Slots, Full
<1>2. (buffer.position + 1) % Capacity = position
  BY <1>1, Round DEF After
<1>3. added = [slots |-> slots, position |-> position, size |-> size]
  BY <1>2 DEF Add
<1>4. /\ slots \in [Slots -> Nat] /\ slots[buffer.position] = n
      /\ \A i \in Slots : i # buffer.position => slots[i] = buffer.slots[i]
  BY <1>1
<1>5. position \in 0..(Capacity - 1) /\ size \in 1..Capacity
  BY <1>1 DEF After
<1>6. /\ added.slots = slots /\ added.position = position /\ added.size = size
      /\ Full(added) <=> size = Capacity
  BY <1>3 DEF Full
<1>7. RingSound(added)
  <2>1. added \in Buffers
    BY <1>1, <1>3, <1>4, <1>5 DEF Buffers
  <2>2. size # Capacity => position = size
    BY <1>1 DEF After
  <2>3. QED
    BY <1>1, <1>5, <1>6, <2>1, <2>2 DEF RingSound
<1> DEFINE before == ToDataset(buffer)
           kept == IF Full(buffer) THEN Tail(before) ELSE before
           after == Append(kept, n)
<1>8. /\ before \in Seq(Nat) /\ Len(before) = buffer.size
      /\ \A k \in 1..buffer.size : before[k] = buffer.slots[SlotOf(buffer, k)] /\ SlotOf(buffer, k) \in Slots
  BY DatasetIs
<1>9. /\ ToDataset(added) = [k \in 1..size |-> slots[SlotOf(added, k)]]
      /\ ToDataset(added) \in Seq(Nat)
  <2> HIDE DEF added, slots, size, position
  <2>1. /\ ToDataset(added) = [k \in 1..added.size |-> added.slots[SlotOf(added, k)]]
        /\ ToDataset(added) \in Seq(Nat)
    BY <1>7, DatasetIs
  <2>2. QED
    BY <1>6, <2>1
<1>10. /\ after \in Seq(Nat) /\ Len(after) = size /\ after[size] = n
       /\ \A k \in 1..(size - 1) :
            after[k] = IF Full(buffer) THEN before[k + 1] ELSE before[k]
  <2> HIDE DEF before
  <2>1. CASE Full(buffer)
    <3>1. Tail(before) \in Seq(Nat) /\ Len(Tail(before)) = Capacity - 1
          /\ \A k \in 1..(Capacity - 1) : Tail(before)[k] = before[k + 1]
      BY <1>1, <1>8, <2>1
    <3>2. QED
      BY <1>1, <2>1, <3>1
  <2>2. CASE ~Full(buffer)
    BY <1>1, <1>8, <2>2
  <2>3. QED
    BY <2>1, <2>2
<1>11. ASSUME NEW k \in 1..size
       PROVE  slots[SlotOf(added, k)] = after[k]
  <2>1. SlotOf(added, k) =
          IF size # Capacity THEN k - 1 ELSE After(position, k - 1)
    BY <1>6 DEF SlotOf
  <2>2. CASE k = size
    <3>1. SlotOf(added, k) = buffer.position
      <4>1. CASE Full(buffer)
        <5>1. size = Capacity /\ k - 1 = Capacity - 1
          BY <1>1, <2>2, <4>1
        <5>2. After(position, Capacity - 1) = buffer.position
          BY <1>1 DEF After
        <5>3. QED
          BY <2>1, <5>1, <5>2
      <4>2. CASE ~Full(buffer)
        BY <1>1, <2>1, <2>2, <4>2 DEF After
      <4>3. QED
        BY <4>1, <4>2
    <3>2. QED
      BY <1>4, <1>10, <2>2, <3>1
  <2>3. CASE k # size /\ Full(buffer)
    <3>1. k + 1 \in 1..buffer.size
      BY <1>1, <2>3
    <3>2. size = Capacity /\ k \in 1..(Capacity - 1)
      BY <1>1, <2>3
    <3>3. SlotOf(buffer, k + 1) = After(buffer.position, k)
      <4>1. k + 1 - 1 = k
        BY <3>2
      <4>2. QED
        BY <2>3, <4>1 DEF SlotOf
    <3>4. SlotOf(added, k) = SlotOf(buffer, k + 1) /\ SlotOf(added, k) # buffer.position
      BY <1>1, <2>1, <3>2, <3>3, AfterNext
    <3>5. slots[SlotOf(added, k)] = before[k + 1]
      BY <1>4, <1>8, <3>1, <3>4
    <3>6. k \in 1..(size - 1)
      BY <1>1, <2>3
    <3>7. QED
      BY <1>10, <2>3, <3>5, <3>6
  <2>4. CASE k # size /\ ~Full(buffer)
    <3>1. k \in 1..buffer.size /\ k \in 1..(size - 1)
      BY <1>1, <2>4
    <3>2. SlotOf(added, k) = SlotOf(buffer, k) /\ SlotOf(added, k) # buffer.position
      BY <1>1, <2>1, <2>4, <3>1 DEF SlotOf, After
    <3>3. QED
      BY <1>4, <1>8, <1>10, <2>4, <3>1, <3>2
  <2>5. QED
    BY <2>2, <2>3, <2>4
<1>12. ToDataset(added) = after
  <2> HIDE DEF after, slots, size, added
  <2>1. after = [k \in 1..size |-> after[k]]
    BY <1>10
  <2>2. QED
    BY <1>9, <1>11, <2>1
<1>13. QED
  BY <1>7, <1>12

(* A saved buffer is loaded as it was.                                      *)
LEMMA LoadsWhatWasSaved ==
  ASSUME NEW dataset \in Seq(Nat), Len(dataset) <= Capacity
  PROVE  RingSound(FromDataset(dataset)) /\ ToDataset(FromDataset(dataset)) = dataset
<1> DEFINE loaded == FromDataset(dataset)
           n == Len(dataset)
<1>1. n \in 0..Capacity /\ Capacity \in Nat \ {0}
  BY CapacityAssumption
<1>2. n % Capacity = IF n < Capacity THEN n ELSE 0
  BY <1>1, Round
<1>3. /\ loaded.slots = [i \in Slots |-> IF i < n THEN dataset[i + 1] ELSE 0]
      /\ loaded.position = (IF n < Capacity THEN n ELSE 0)
      /\ loaded.size = n
      /\ loaded = [slots |-> loaded.slots, position |-> loaded.position, size |-> n]
  BY <1>2 DEF FromDataset
<1>4. loaded.slots \in [Slots -> Nat]
  BY <1>1, <1>3 DEF Slots
<1>5. RingSound(loaded)
  <2>1. loaded \in Buffers
    BY <1>1, <1>3, <1>4 DEF Buffers
  <2>2. QED
    BY <1>1, <1>3, <2>1 DEF RingSound, Slots, Full
<1>6. ASSUME NEW k \in 1..n
      PROVE  loaded.slots[SlotOf(loaded, k)] = dataset[k]
  <2>1. SlotOf(loaded, k) = k - 1
    BY <1>1, <1>3 DEF SlotOf, Full, After
  <2>2. k - 1 \in Slots /\ k - 1 < n /\ k - 1 + 1 = k
    BY <1>1 DEF Slots
  <2>3. QED
    BY <1>3, <2>1, <2>2
<1>7. ToDataset(loaded) = [k \in 1..n |-> loaded.slots[SlotOf(loaded, k)]]
  BY <1>3, <1>5, DatasetIs
<1>8. dataset = [k \in 1..n |-> dataset[k]]
  OBVIOUS
<1> HIDE DEF loaded, n
<1>9. QED
  BY <1>5, <1>6, <1>7, <1>8 DEF loaded

(* The next slot of all but the newest transition holds the next one.       *)
LEMMA SampledAreStored ==
  ASSUME NEW buffer, RingSound(buffer), NEW i \in Sampled(buffer), ~(Full(buffer) /\ i = Newest(buffer))
  PROVE  \E k \in 1..(buffer.size - 1) :
            /\ buffer.slots[i] = ToDataset(buffer)[k]
            /\ buffer.slots[NextSlot(i)] = ToDataset(buffer)[k + 1]
<1>1. /\ buffer.position \in 0..(Capacity - 1) /\ buffer.size \in 0..Capacity /\ Capacity \in Nat \ {0}
      /\ Full(buffer) <=> buffer.size = Capacity
      /\ ~Full(buffer) => buffer.position = buffer.size
  BY CapacityAssumption DEF RingSound, Buffers, Slots, Full
<1>2. i \in 0..(Capacity - 1) /\ i < IF Full(buffer) THEN buffer.size ELSE buffer.size - 1
  BY DEF Sampled, Slots
<1>3. NextSlot(i) = IF i + 1 < Capacity THEN i + 1 ELSE 0
  BY <1>1, <1>2, Round DEF NextSlot
<1>4. Newest(buffer) = IF buffer.position = 0 THEN Capacity - 1 ELSE buffer.position - 1
  <2>1. buffer.position + Capacity - 1 \in 0..(2 * Capacity - 1)
    BY <1>1
  <2>2. QED
    BY <1>1, <2>1, Round DEF Newest
<1> DEFINE k == IF ~Full(buffer) THEN i + 1
                ELSE IF i >= buffer.position THEN i - buffer.position + 1
                ELSE i - buffer.position + Capacity + 1
<1>5. k \in 1..(buffer.size - 1) /\ SlotOf(buffer, k) = i /\ SlotOf(buffer, k + 1) = NextSlot(i)
  <2>1. CASE ~Full(buffer)
    BY <1>1, <1>2, <1>3, <2>1 DEF SlotOf
  <2>2. CASE Full(buffer)
    BY <1>1, <1>2, <1>3, <1>4, <2>2 DEF SlotOf, After
  <2>3. QED
    BY <2>1, <2>2
<1> HIDE DEF k
<1>6. k \in 1..buffer.size /\ k + 1 \in 1..buffer.size
  BY <1>1, <1>5
<1>7. /\ ToDataset(buffer)[k] = buffer.slots[SlotOf(buffer, k)]
      /\ ToDataset(buffer)[k + 1] = buffer.slots[SlotOf(buffer, k + 1)]
  BY <1>6, DatasetIs
<1>8. QED
  BY <1>5, <1>7
-----------------------------------------------------------------------------
(* Induction over the numbers, with a set for the predicate.                *)
NatLess == {p \in Nat \X Nat : p[1] < p[2]}

LEMMA Induct ==
  ASSUME NEW S, 0 \in S, \A n \in Nat : n \in S => n + 1 \in S
  PROVE  Nat \subseteq S
<1> DEFINE T == Nat \ S
<1>1. SUFFICES ASSUME T # {} PROVE FALSE
  OBVIOUS
<1>2. T \subseteq Nat
  OBVIOUS
<1>wf. IsWellFoundedOn(NatLess, Nat)
  BY NatLessThanWellFounded DEF NatLess, OpToRel
<1> HIDE DEF T
<1>3. PICK x \in T : \A y \in T : ~(<<y, x>> \in NatLess)
  BY <1>1, <1>2, <1>wf, WFMin
<1>4. x \in Nat /\ x \notin S
  BY DEF T
<1>5. x # 0
  BY <1>4
<1>6. x - 1 \in Nat /\ x - 1 < x
  BY <1>4, <1>5
<1>7. x - 1 \notin T
  <2>1. <<x - 1, x>> \in NatLess
    BY <1>4, <1>6 DEF NatLess
  <2>2. QED
    BY <1>3, <2>1
<1>8. x - 1 \in S
  BY <1>6, <1>7 DEF T
<1>f. QED
  BY <1>4, <1>6, <1>8

(* What the recursive function of FlattenSeq satisfies.                     *)
Flattens(s, n, g) == g = [i \in 1..n |-> IF i = 1 THEN s[i] ELSE g[i - 1] \o s[i]]

LEMMA FlattensAt ==
  ASSUME NEW s, NEW n, NEW g, Flattens(s, n, g), NEW k \in 1..n
  PROVE  g[k] = IF k = 1 THEN s[k] ELSE g[k - 1] \o s[k]
<1> DEFINE f == [i \in 1..n |-> IF i = 1 THEN s[i] ELSE g[i - 1] \o s[i]]
<1>1. f[k] = IF k = 1 THEN s[k] ELSE g[k - 1] \o s[k]
  OBVIOUS
<1>2. g = f
  BY DEF Flattens
<1> HIDE DEF f
<1>3. g[k] = f[k]
  BY <1>2
<1>4. QED
  BY <1>1, <1>3

LEMMA FlattensExists ==
  ASSUME NEW s, NEW n \in Nat
  PROVE  \E g : Flattens(s, n, g)
<1> DEFINE S == {m \in Nat : \E g : Flattens(s, m, g)}
<1>1. 0 \in S
  <2>1. Flattens(s, 0, [i \in 1..0 |-> s[i]])
    BY DEF Flattens
  <2>2. QED
    BY <2>1
<1>2. ASSUME NEW m \in Nat, m \in S
      PROVE  m + 1 \in S
  <2>1. PICK g : Flattens(s, m, g)
    BY <1>2
  <2> DEFINE h == [i \in 1..(m + 1) |->
                     IF i = 1 THEN s[i] ELSE g[i - 1] \o s[i]]
  <2>2. \A i \in 1..m : g[i] = IF i = 1 THEN s[i] ELSE g[i - 1] \o s[i]
    BY <2>1 DEF Flattens
  <2>3. \A i \in 1..m : h[i] = g[i]
    BY <2>2
  <2>4. \A i \in 1..(m + 1) : i # 1 => i - 1 \in 1..m
    OBVIOUS
  <2>5. h = [i \in 1..(m + 1) |-> IF i = 1 THEN s[i] ELSE h[i - 1] \o s[i]]
    BY <2>3, <2>4
  <2>6. Flattens(s, m + 1, h)
    BY <2>5 DEF Flattens
  <2>7. QED
    BY <2>6
<1>3. Nat \subseteq S
  <2> HIDE DEF S
  <2>1. QED
    BY <1>1, <1>2, Induct
<1>4. QED
  BY <1>3

(* Transitions are numbers in the order of acting, and k their kinds: those *)
(* acted so far.                                                            *)
Rises(s) == \A i, j \in 1..Len(s) : i < j => s[i] < s[j]

Before(s, t) == \A i \in 1..Len(s) : \A j \in 1..Len(t) : s[i] < t[j]

BeforeAll(s, ss) == \A e \in 1..Len(ss) : Before(s, ss[e])

Acted(s, k) == \A i \in 1..Len(s) : s[i] \in 1..Len(k)

Consecutive(s) == \A i \in 1..(Len(s) - 1) : s[i + 1] = s[i] + 1

EndsAt(n, k) == k[n] \in {"done", "truncated"}

(* An episode, or what is left of one, up to its end.                       *)
Complete(s, k) == s # <<>> /\ Acted(s, k) /\ Consecutive(s) /\ EndsAt(s[Len(s)], k)

(* The state of m may be sampled as the one that followed n.                *)
Follows(n, m, k) == m = n + 1 \/ EndsAt(n, k) \/ k[n + 1] = "nan"

(* Transitions as the buffer keeps them: the oldest may be missing, and     *)
(* those with a NaN are.                                                    *)
Stored(s, k) ==
  /\ Acted(s, k) /\ Rises(s)
  /\ \A i \in 1..(Len(s) - 1) : Follows(s[i], s[i + 1], k)

(* What is stored ends with an episode.                                     *)
Ended(s, k) == s # <<>> => EndsAt(s[Len(s)], k)

(* Whole episodes, one after the other.                                     *)
Episodes(ss, k) ==
  /\ \A e \in 1..Len(ss) : Complete(ss[e], k)
  /\ \A e, f \in 1..Len(ss) : e < f => Before(ss[e], ss[f])

(* Acted before anything the actor has still to send.                       *)
Ahead(s, out, episode) == BeforeAll(s, out) /\ Before(s, episode)

ActorLine(out, episode, k) ==
  /\ Episodes(out, k)
  /\ Acted(episode, k) /\ Consecutive(episode)
  /\ episode # <<>> => episode[Len(episode)] = Len(k)
  /\ \A e \in 1..Len(out) : Before(out[e], episode)

IncomingLine(incoming, out, episode, k) ==
  /\ Episodes(incoming, k)
  /\ \A e \in 1..Len(incoming) : Ahead(incoming[e], out, episode)

TakenLine(taken, incoming, out, episode, k) ==
  /\ taken # <<>> => Complete(taken, k)
  /\ BeforeAll(taken, incoming) /\ Ahead(taken, out, episode)

StockLine(stock, taken, incoming, out, episode, k) ==
  /\ Stored(stock, k)
  /\ taken = <<>> => Ended(stock, k)
  /\ taken # <<>> /\ stock # <<>> => Follows(stock[Len(stock)], taken[1], k)
  /\ Before(stock, taken) /\ BeforeAll(stock, incoming) /\ Ahead(stock, out, episode)

SavedLine(saved, out, episode, k) ==
  Stored(saved, k) /\ Ended(saved, k) /\ Ahead(saved, out, episode)

(* Nothing lies before, or after, any sequence.                             *)
LEMMA NothingFirst == \A s : /\ Before(<<>>, s) /\ Before(s, <<>>) /\ BeforeAll(s, <<>>)
                             /\ BeforeAll(<<>>, s)
  BY DEF Before, BeforeAll

LEMMA NothingStored ==
  ASSUME NEW k, NEW out, NEW episode
  PROVE  /\ Stored(<<>>, k) /\ Ended(<<>>, k) /\ Ahead(<<>>, out, episode)
         /\ Acted(<<>>, k) /\ Consecutive(<<>>) /\ Episodes(<<>>, k)
  BY NothingFirst DEF Stored, Ended, Ahead, Acted, Consecutive, Episodes, Rises

(* A transition is acted: what was said of the others remains.              *)
LEMMA KindsGrow ==
  ASSUME NEW k \in Seq(Kinds), NEW kind \in Kinds, NEW s \in Seq(Nat), Acted(s, k)
  PROVE  /\ Acted(s, Append(k, kind))
         /\ s # <<>> => (EndsAt(s[Len(s)], Append(k, kind)) <=> EndsAt(s[Len(s)], k))
         /\ \A i \in 1..Len(s) : EndsAt(s[i], Append(k, kind)) <=> EndsAt(s[i], k)
         /\ \A i \in 1..Len(s) : s[i] < Len(k) + 1
<1> DEFINE longer == Append(k, kind)
<1>1. Len(longer) = Len(k) + 1 /\ Len(k) \in Nat /\ \A n \in 1..Len(k) : longer[n] = k[n]
  OBVIOUS
<1> HIDE DEF longer
<1>2. \A i \in 1..Len(s) : s[i] \in 1..Len(k) /\ s[i] \in 1..Len(longer) /\ s[i] < Len(k) + 1
  BY <1>1 DEF Acted
<1>3. \A i \in 1..Len(s) : EndsAt(s[i], longer) <=> EndsAt(s[i], k)
  BY <1>1, <1>2 DEF EndsAt
<1>4. s # <<>> => Len(s) \in 1..Len(s)
  OBVIOUS
<1>5. QED
  BY <1>2, <1>3, <1>4 DEF Acted, longer

LEMMA CompleteGrows ==
  ASSUME NEW k \in Seq(Kinds), NEW kind \in Kinds, NEW s \in Seq(Nat), Complete(s, k)
  PROVE  Complete(s, Append(k, kind))
  BY KindsGrow DEF Complete

LEMMA EndedGrows ==
  ASSUME NEW k \in Seq(Kinds), NEW kind \in Kinds, NEW s \in Seq(Nat), Acted(s, k), Ended(s, k)
  PROVE  Ended(s, Append(k, kind))
  BY KindsGrow DEF Ended

LEMMA FollowsGrows ==
  ASSUME NEW k \in Seq(Kinds), NEW kind \in Kinds, NEW n \in 1..Len(k), NEW m \in 1..Len(k), n < m,
         Follows(n, m, k)
  PROVE  Follows(n, m, Append(k, kind))
<1>1. n + 1 \in 1..Len(k)
  OBVIOUS
<1>2. Append(k, kind)[n] = k[n] /\ Append(k, kind)[n + 1] = k[n + 1]
  BY <1>1
<1>3. QED
  BY <1>2 DEF Follows, EndsAt

LEMMA StoredGrows ==
  ASSUME NEW k \in Seq(Kinds), NEW kind \in Kinds, NEW s \in Seq(Nat), Stored(s, k)
  PROVE  Stored(s, Append(k, kind))
<1>1. ASSUME NEW i \in 1..(Len(s) - 1)
      PROVE  Follows(s[i], s[i + 1], Append(k, kind))
  <2>1. i \in 1..Len(s) /\ i + 1 \in 1..Len(s) /\ i < i + 1
    OBVIOUS
  <2>2. s[i] \in 1..Len(k) /\ s[i + 1] \in 1..Len(k) /\ s[i] < s[i + 1] /\ Follows(s[i], s[i + 1], k)
    BY <2>1 DEF Stored, Acted, Rises
  <2>3. QED
    BY <2>2, FollowsGrows
<1>2. QED
  BY <1>1, KindsGrow DEF Stored

LEMMA EpisodesGrow ==
  ASSUME NEW k \in Seq(Kinds), NEW kind \in Kinds, NEW ss \in Seq(Seq(Nat)), Episodes(ss, k)
  PROVE  Episodes(ss, Append(k, kind))
<1>1. \A e \in 1..Len(ss) : ss[e] \in Seq(Nat)
  OBVIOUS
<1>2. QED
  BY <1>1, CompleteGrows DEF Episodes

-----------------------------------------------------------------------------
(* The first element goes, or one more comes.                               *)
LEMMA TailIs ==
  ASSUME NEW X, NEW s \in Seq(X), s # <<>>
  PROVE  /\ Tail(s) \in Seq(X) /\ Head(s) \in X /\ Head(s) = s[1]
         /\ Len(s) \in Nat \ {0} /\ Len(Tail(s)) = Len(s) - 1
         /\ \A i \in 1..(Len(s) - 1) : Tail(s)[i] = s[i + 1]
  OBVIOUS

LEMMA AppendIs ==
  ASSUME NEW X, NEW s \in Seq(X), NEW x \in X
  PROVE  /\ Append(s, x) \in Seq(X) /\ Append(s, x) # <<>>
         /\ Len(s) \in Nat /\ Len(Append(s, x)) = Len(s) + 1
         /\ Append(s, x)[Len(s) + 1] = x
         /\ \A i \in 1..Len(s) : Append(s, x)[i] = s[i]
  OBVIOUS

(* What lies before a sequence and its next element.                        *)
LEMMA BeforeAppend ==
  ASSUME NEW s \in Seq(Nat), NEW t \in Seq(Nat), NEW n \in Nat, Before(s, t),
         \A i \in 1..Len(s) : s[i] < n
  PROVE  Before(s, Append(t, n))
<1>1. /\ Len(t) \in Nat /\ Len(Append(t, n)) = Len(t) + 1 /\ Append(t, n)[Len(t) + 1] = n
      /\ \A i \in 1..Len(t) : Append(t, n)[i] = t[i]
  BY AppendIs
<1>2. SUFFICES ASSUME NEW i \in 1..Len(s), NEW j \in 1..(Len(t) + 1)
               PROVE  s[i] < Append(t, n)[j]
  BY <1>1 DEF Before
<1>3. CASE j \in 1..Len(t)
  BY <1>1, <1>3 DEF Before
<1>4. CASE j = Len(t) + 1
  BY <1>1, <1>4
<1>5. QED
  BY <1>1, <1>3, <1>4

LEMMA BeforeAllAppend ==
  ASSUME NEW s, NEW ss \in Seq(Seq(Nat)), NEW t \in Seq(Nat), BeforeAll(s, ss), Before(s, t)
  PROVE  BeforeAll(s, Append(ss, t))
<1>1. /\ Len(ss) \in Nat /\ Len(Append(ss, t)) = Len(ss) + 1 /\ Append(ss, t)[Len(ss) + 1] = t
      /\ \A i \in 1..Len(ss) : Append(ss, t)[i] = ss[i]
  BY AppendIs
<1>2. SUFFICES ASSUME NEW e \in 1..(Len(ss) + 1)
               PROVE  Before(s, Append(ss, t)[e])
  BY <1>1 DEF BeforeAll
<1>3. CASE e \in 1..Len(ss)
  BY <1>1, <1>3 DEF BeforeAll
<1>4. CASE e = Len(ss) + 1
  BY <1>1, <1>4
<1>5. QED
  BY <1>1, <1>3, <1>4

LEMMA BeforeAllTail ==
  ASSUME NEW s, NEW ss \in Seq(Seq(Nat)), ss # <<>>, BeforeAll(s, ss)
  PROVE  BeforeAll(s, Tail(ss)) /\ Before(s, Head(ss))
<1>1. /\ Head(ss) = ss[1] /\ Len(ss) \in Nat \ {0} /\ Len(Tail(ss)) = Len(ss) - 1
      /\ \A e \in 1..(Len(ss) - 1) : Tail(ss)[e] = ss[e + 1]
  BY TailIs
<1>2. Before(s, Head(ss))
  BY <1>1 DEF BeforeAll
<1>3. ASSUME NEW e \in 1..(Len(ss) - 1)
      PROVE  Before(s, Tail(ss)[e])
  <2>1. e + 1 \in 1..Len(ss)
    BY <1>1
  <2>2. QED
    BY <1>1, <2>1 DEF BeforeAll
<1>4. QED
  BY <1>1, <1>2, <1>3 DEF BeforeAll

(* A sequence that is not the whole of another comes where that one comes.  *)
LEMMA BeforeTail ==
  ASSUME NEW s \in Seq(Nat), s # <<>>, NEW t, Before(s, t)
  PROVE  Before(Tail(s), t)
<1>1. /\ Len(s) \in Nat \ {0} /\ Len(Tail(s)) = Len(s) - 1
      /\ \A i \in 1..(Len(s) - 1) : Tail(s)[i] = s[i + 1]
  BY TailIs
<1>2. \A i \in 1..(Len(s) - 1) : i + 1 \in 1..Len(s)
  BY <1>1
<1>3. QED
  BY <1>1, <1>2 DEF Before

LEMMA AppendBefore ==
  ASSUME NEW s \in Seq(Nat), NEW n \in Nat, NEW t, Before(s, t), \A j \in 1..Len(t) : n < t[j]
  PROVE  Before(Append(s, n), t)
<1>1. /\ Len(s) \in Nat /\ Len(Append(s, n)) = Len(s) + 1 /\ Append(s, n)[Len(s) + 1] = n
      /\ \A i \in 1..Len(s) : Append(s, n)[i] = s[i]
  BY AppendIs
<1>2. SUFFICES ASSUME NEW i \in 1..(Len(s) + 1), NEW j \in 1..Len(t)
               PROVE  Append(s, n)[i] < t[j]
  BY <1>1 DEF Before
<1>3. CASE i \in 1..Len(s)
  BY <1>1, <1>3 DEF Before
<1>4. CASE i = Len(s) + 1
  BY <1>1, <1>4
<1>5. QED
  BY <1>1, <1>3, <1>4

LEMMA EmptyLength ==
  ASSUME NEW s, s = <<>>
  PROVE  Len(s) = 0
  OBVIOUS

LEMMA SomeLength ==
  ASSUME NEW X, NEW s \in Seq(X), s # <<>>
  PROVE  Len(s) # 0
  OBVIOUS

(* The first transition of what is left of an episode, and the rest.        *)
LEMMA HeadComplete ==
  ASSUME NEW s \in Seq(Nat), NEW k, Complete(s, k)
  PROVE  s # <<>> /\ Head(s) = s[1] /\ s[1] \in 1..Len(k)
<1>1. /\ s # <<>> /\ Acted(s, k) /\ Consecutive(s) /\ EndsAt(s[Len(s)], k)
  BY DEF Complete
<1>2. /\ Head(s) = s[1] /\ Len(s) \in Nat \ {0} /\ Len(Tail(s)) = Len(s) - 1
      /\ \A i \in 1..(Len(s) - 1) : Tail(s)[i] = s[i + 1]
      /\ Tail(s) \in Seq(Nat)
  BY <1>1, TailIs
<1>3. s[1] \in 1..Len(k)
  BY <1>1, <1>2 DEF Acted
<1>4. QED
  BY <1>1, <1>2, <1>3

LEMMA LastComplete ==
  ASSUME NEW s \in Seq(Nat), NEW k, Complete(s, k), Tail(s) = <<>>
  PROVE  EndsAt(s[1], k)
<1>1. s # <<>> /\ EndsAt(s[Len(s)], k)
  BY DEF Complete
<1>2. Len(s) \in Nat \ {0} /\ Len(Tail(s)) = Len(s) - 1
  BY <1>1, TailIs
<1>3. Len(Tail(s)) = 0
  BY EmptyLength, Zenon
<1>4. Len(s) = 1
  BY <1>2, <1>3
<1>5. QED
  BY <1>1, <1>4

LEMMA TailComplete ==
  ASSUME NEW s \in Seq(Nat), NEW k, Complete(s, k), Tail(s) # <<>>
  PROVE  Complete(Tail(s), k) /\ Tail(s)[1] = s[1] + 1
<1>1. /\ s # <<>> /\ Acted(s, k) /\ Consecutive(s) /\ EndsAt(s[Len(s)], k)
  BY DEF Complete
<1>2. /\ Head(s) = s[1] /\ Len(s) \in Nat \ {0} /\ Len(Tail(s)) = Len(s) - 1
      /\ \A i \in 1..(Len(s) - 1) : Tail(s)[i] = s[i + 1]
      /\ Tail(s) \in Seq(Nat)
  BY <1>1, TailIs
<1>3. Len(Tail(s)) # 0 /\ Len(s) > 1
  BY <1>2
<1>4. Acted(Tail(s), k)
  <2>1. \A i \in 1..(Len(s) - 1) : i + 1 \in 1..Len(s)
    BY <1>2
  <2>2. QED
    BY <1>1, <1>2, <2>1 DEF Acted
<1>5. Consecutive(Tail(s))
  <2>1. SUFFICES ASSUME NEW i \in 1..(Len(s) - 1 - 1) PROVE Tail(s)[i + 1] = Tail(s)[i] + 1
    BY <1>2 DEF Consecutive
  <2>2. /\ i \in 1..(Len(s) - 1) /\ i + 1 \in 1..(Len(s) - 1)
    BY <1>2
  <2>3. QED
    BY <1>1, <1>2, <2>2 DEF Consecutive
<1>6. EndsAt(Tail(s)[Len(Tail(s))], k)
  BY <1>1, <1>2, <1>3
<1>7. Tail(s)[1] = s[1] + 1
  <2>1. Tail(s)[1] = s[1 + 1] /\ 1 \in 1..(Len(s) - 1)
    BY <1>2, <1>3
  <2>2. s[1 + 1] = s[1] + 1
    BY <1>1, <2>1 DEF Consecutive
  <2>3. QED
    BY <2>1, <2>2
<1>8. QED
  BY <1>4, <1>5, <1>6, <1>7 DEF Complete

(* The first of an episode is its least.                                    *)
LEMMA CompleteRises ==
  ASSUME NEW s \in Seq(Nat), Consecutive(s)
  PROVE  Rises(s)
<1> DEFINE S == {d \in Nat : \A i \in 1..Len(s) : i + d \in 1..Len(s) => s[i + d] = s[i] + d}
<1>1. 0 \in S
  OBVIOUS
<1>2. ASSUME NEW d \in Nat, d \in S
      PROVE  d + 1 \in S
  <2>1. SUFFICES ASSUME NEW i \in 1..Len(s), i + (d + 1) \in 1..Len(s)
                 PROVE  s[i + (d + 1)] = s[i] + (d + 1)
    OBVIOUS
  <2>2. i + d \in 1..Len(s) /\ i + d \in 1..(Len(s) - 1) /\ i + d + 1 = i + (d + 1)
    BY <2>1
  <2>3. s[i + d] = s[i] + d
    BY <1>2, <2>2
  <2>4. s[i + d + 1] = s[i + d] + 1
    BY <2>2 DEF Consecutive
  <2>5. s[i] \in Nat
    OBVIOUS
  <2>6. QED
    BY <2>2, <2>3, <2>4, <2>5
<1>3. Nat \subseteq S
  <2> HIDE DEF S
  <2>1. QED
    BY <1>1, <1>2, Induct
<1>4. ASSUME NEW i \in 1..Len(s), NEW j \in 1..Len(s), i < j
      PROVE  s[i] < s[j]
  <2>1. j - i \in Nat /\ i + (j - i) = j /\ j - i > 0
    BY <1>4
  <2>2. s[i + (j - i)] = s[i] + (j - i)
    BY <1>3, <2>1
  <2>3. s[i] \in Nat
    OBVIOUS
  <2>4. QED
    BY <2>1, <2>2, <2>3
<1>5. QED
  BY <1>4 DEF Rises

(* Rising sequences: one less at the front, one more at the end.            *)
LEMMA TailRises ==
  ASSUME NEW s \in Seq(Nat), s # <<>>, Rises(s)
  PROVE  Rises(Tail(s)) /\ \A i \in 1..Len(Tail(s)) : s[1] < Tail(s)[i]
<1>1. /\ Len(s) \in Nat \ {0} /\ Len(Tail(s)) = Len(s) - 1
      /\ \A i \in 1..(Len(s) - 1) : Tail(s)[i] = s[i + 1]
  BY TailIs
<1>2. \A i \in 1..(Len(s) - 1) : i + 1 \in 1..Len(s) /\ 1 < i + 1
  BY <1>1
<1>3. 1 \in 1..Len(s)
  BY <1>1
<1>4. ASSUME NEW i \in 1..(Len(s) - 1), NEW j \in 1..(Len(s) - 1), i < j
      PROVE  Tail(s)[i] < Tail(s)[j]
  <2>1. i + 1 < j + 1
    BY <1>4
  <2>2. QED
    BY <1>1, <1>2, <2>1 DEF Rises
<1>5. \A i \in 1..(Len(s) - 1) : s[1] < Tail(s)[i]
  BY <1>1, <1>2, <1>3 DEF Rises
<1>6. QED
  BY <1>1, <1>4, <1>5 DEF Rises

LEMMA AppendRises ==
  ASSUME NEW s \in Seq(Nat), NEW n \in Nat, Rises(s), \A i \in 1..Len(s) : s[i] < n
  PROVE  Rises(Append(s, n))
<1>1. /\ Len(s) \in Nat /\ Len(Append(s, n)) = Len(s) + 1 /\ Append(s, n)[Len(s) + 1] = n
      /\ \A i \in 1..Len(s) : Append(s, n)[i] = s[i]
  BY AppendIs
<1>2. SUFFICES ASSUME NEW i \in 1..(Len(s) + 1), NEW j \in 1..(Len(s) + 1), i < j
               PROVE  Append(s, n)[i] < Append(s, n)[j]
  BY <1>1 DEF Rises
<1>3. i \in 1..Len(s)
  BY <1>1, <1>2
<1>4. CASE j \in 1..Len(s)
  BY <1>1, <1>2, <1>3, <1>4 DEF Rises
<1>5. CASE j = Len(s) + 1
  BY <1>1, <1>3, <1>5
<1>6. QED
  BY <1>1, <1>4, <1>5

-----------------------------------------------------------------------------
(* What each kind of step does to the line.                                 *)

(* A transition is acted: it ends its episode, which is then to be sent, or *)
(* does not.                                                                *)
OneMore(out, episode, out2, episode2, n) ==
  \/ out2 = out /\ episode2 = Append(episode, n)
  \/ out2 = Append(out, Append(episode, n)) /\ episode2 = <<>>

(* A transition is acted: what lies before it still does.                   *)
LEMMA AheadActs ==
  ASSUME NEW s \in Seq(Nat), NEW k \in Seq(Kinds), NEW out \in Seq(Seq(Nat)), NEW episode \in Seq(Nat),
         NEW out2, NEW episode2, OneMore(out, episode, out2, episode2, Len(k) + 1),
         Acted(s, k), Ahead(s, out, episode)
  PROVE  Ahead(s, out2, episode2)
<1>1. Before(s, Append(episode, Len(k) + 1))
  <2>1. \A i \in 1..Len(s) : s[i] < Len(k) + 1
    BY DEF Acted
  <2>2. Len(k) + 1 \in Nat /\ Before(s, episode)
    BY DEF Ahead
  <2>3. QED
    BY <2>1, <2>2, BeforeAppend
<1>2. Append(episode, Len(k) + 1) \in Seq(Nat)
  OBVIOUS
<1>3. BeforeAll(s, Append(out, Append(episode, Len(k) + 1)))
  BY <1>1, <1>2, BeforeAllAppend DEF Ahead
<1>4. QED
  BY <1>1, <1>3, NothingFirst DEF OneMore, Ahead

LEMMA ConsecutiveOn ==
  ASSUME NEW k \in Seq(Kinds), NEW kind \in Kinds, NEW episode \in Seq(Nat),
         Acted(episode, k), Consecutive(episode), episode # <<>> => episode[Len(episode)] = Len(k)
  PROVE  /\ Append(episode, Len(k) + 1) \in Seq(Nat) /\ Append(episode, Len(k) + 1) # <<>>
         /\ Acted(Append(episode, Len(k) + 1), Append(k, kind))
         /\ Consecutive(Append(episode, Len(k) + 1))
         /\ Append(episode, Len(k) + 1)[Len(Append(episode, Len(k) + 1))] = Len(k) + 1
<1> DEFINE n == Len(k) + 1
           longer == Append(episode, n)
           m == Len(episode)
<1>1. Len(Append(k, kind)) = n /\ Len(k) \in Nat /\ n \in Nat /\ n = Len(k) + 1
  OBVIOUS
<1>2. m # 0 => episode[m] = Len(k)
  OBVIOUS
<1> HIDE DEF n
<1>3. /\ longer \in Seq(Nat) /\ longer # <<>> /\ m \in Nat /\ Len(longer) = m + 1
      /\ longer[m + 1] = n /\ \A i \in 1..m : longer[i] = episode[i]
  BY <1>1, AppendIs
<1> HIDE DEF longer, m
<1>4. Acted(longer, Append(k, kind))
  <2>1. SUFFICES ASSUME NEW i \in 1..(m + 1) PROVE longer[i] \in 1..n
    BY <1>3, <1>1 DEF Acted
  <2>2. CASE i \in 1..m
    <3>1. episode[i] \in 1..Len(k)
      BY <2>2 DEF Acted, m
    <3>2. longer[i] = episode[i]
      BY <1>3, <2>2
    <3>3. QED
      BY <1>1, <3>1, <3>2
  <2>3. CASE i = m + 1
    BY <1>3, <1>1, <2>3
  <2>4. QED
    BY <1>3, <2>2, <2>3
<1>5. Consecutive(longer)
  <2>1. SUFFICES ASSUME NEW i \in 1..m PROVE longer[i + 1] = longer[i] + 1
    BY <1>3 DEF Consecutive
  <2>2. CASE i = m
    BY <1>3, <1>1, <1>2, <2>2
  <2>3. CASE i # m
    <3>1. i \in 1..(m - 1) /\ i + 1 \in 1..m
      BY <1>3, <2>3
    <3>2. episode[i + 1] = episode[i] + 1
      BY <3>1 DEF Consecutive, m
    <3>3. QED
      BY <1>3, <3>1, <3>2
  <2>4. QED
    BY <2>2, <2>3
<1>6. QED
  BY <1>3, <1>4, <1>5 DEF longer, n

(* Whole episodes: one more at the end, one less at the front.              *)
LEMMA EpisodesAppend ==
  ASSUME NEW ss \in Seq(Seq(Nat)), NEW s \in Seq(Nat), NEW k, Episodes(ss, k), Complete(s, k),
         \A e \in 1..Len(ss) : Before(ss[e], s)
  PROVE  Episodes(Append(ss, s), k)
<1>1. /\ Len(ss) \in Nat /\ Len(Append(ss, s)) = Len(ss) + 1 /\ Append(ss, s)[Len(ss) + 1] = s
      /\ \A e \in 1..Len(ss) : Append(ss, s)[e] = ss[e]
  BY AppendIs
<1>2. ASSUME NEW e \in 1..(Len(ss) + 1)
      PROVE  Complete(Append(ss, s)[e], k)
  <2>1. CASE e \in 1..Len(ss)
    BY <1>1, <2>1 DEF Episodes
  <2>2. CASE e = Len(ss) + 1
    BY <1>1, <2>2
  <2>3. QED
    BY <1>1, <2>1, <2>2
<1>3. ASSUME NEW e \in 1..(Len(ss) + 1), NEW f \in 1..(Len(ss) + 1), e < f
      PROVE  Before(Append(ss, s)[e], Append(ss, s)[f])
  <2>1. e \in 1..Len(ss)
    BY <1>1, <1>3
  <2>2. CASE f \in 1..Len(ss)
    BY <1>1, <1>3, <2>1, <2>2 DEF Episodes
  <2>3. CASE f = Len(ss) + 1
    BY <1>1, <2>1, <2>3
  <2>4. QED
    BY <1>1, <2>2, <2>3
<1>4. QED
  BY <1>1, <1>2, <1>3 DEF Episodes

LEMMA EpisodesTail ==
  ASSUME NEW ss \in Seq(Seq(Nat)), NEW k, ss # <<>>, Episodes(ss, k)
  PROVE  /\ Head(ss) = ss[1] /\ Head(ss) \in Seq(Nat) /\ Tail(ss) \in Seq(Seq(Nat))
         /\ Complete(Head(ss), k) /\ Episodes(Tail(ss), k) /\ BeforeAll(Head(ss), Tail(ss))
         /\ Len(ss) \in Nat \ {0} /\ Len(Tail(ss)) = Len(ss) - 1
         /\ \A e \in 1..(Len(ss) - 1) : e + 1 \in 1..Len(ss) /\ Tail(ss)[e] = ss[e + 1]
<1>1. /\ Head(ss) = ss[1] /\ Head(ss) \in Seq(Nat) /\ Tail(ss) \in Seq(Seq(Nat))
      /\ Len(ss) \in Nat \ {0} /\ Len(Tail(ss)) = Len(ss) - 1
      /\ \A e \in 1..(Len(ss) - 1) : Tail(ss)[e] = ss[e + 1]
  BY TailIs
<1>2. \A e \in 1..(Len(ss) - 1) : e + 1 \in 1..Len(ss) /\ 1 < e + 1 /\ 1 \in 1..Len(ss)
  BY <1>1
<1>3. Complete(Head(ss), k)
  BY <1>1 DEF Episodes
<1>4. BeforeAll(Head(ss), Tail(ss))
  BY <1>1, <1>2 DEF Episodes, BeforeAll
<1>5. \A e \in 1..(Len(ss) - 1) : Complete(Tail(ss)[e], k)
  BY <1>1, <1>2 DEF Episodes
<1>6. ASSUME NEW e \in 1..(Len(ss) - 1), NEW f \in 1..(Len(ss) - 1), e < f
      PROVE  Before(Tail(ss)[e], Tail(ss)[f])
  <2>1. e + 1 < f + 1
    BY <1>6
  <2>2. QED
    BY <1>1, <1>2, <2>1 DEF Episodes
<1>7. QED
  BY <1>1, <1>2, <1>3, <1>4, <1>5, <1>6 DEF Episodes

(* The actor acts within an episode, or ends it.                            *)
LEMMA ActorGoesOn ==
  ASSUME NEW k \in Seq(Kinds), NEW kind \in Kinds, NEW out \in Seq(Seq(Nat)), NEW episode \in Seq(Nat),
         ActorLine(out, episode, k)
  PROVE  ActorLine(out, Append(episode, Len(k) + 1), Append(k, kind))
<1>1. /\ Acted(Append(episode, Len(k) + 1), Append(k, kind))
      /\ Consecutive(Append(episode, Len(k) + 1))
      /\ Append(episode, Len(k) + 1)[Len(Append(episode, Len(k) + 1))] = Len(k) + 1
  BY ConsecutiveOn DEF ActorLine
<1>2. Len(Append(k, kind)) = Len(k) + 1
  OBVIOUS
<1>3. Episodes(out, Append(k, kind))
  BY EpisodesGrow DEF ActorLine
<1>4. ASSUME NEW e \in 1..Len(out)
      PROVE  Before(out[e], Append(episode, Len(k) + 1))
  <2>1. out[e] \in Seq(Nat) /\ Before(out[e], episode) /\ Len(k) + 1 \in Nat
    BY DEF ActorLine
  <2>2. \A i \in 1..Len(out[e]) : out[e][i] < Len(k) + 1
    <3>1. Complete(out[e], k)
      BY DEF ActorLine, Episodes
    <3>2. \A i \in 1..Len(out[e]) : out[e][i] \in 1..Len(k)
      BY <3>1 DEF Complete, Acted
    <3>3. QED
      BY <3>2
  <2>3. QED
    BY <2>1, <2>2, BeforeAppend
<1>5. QED
  BY <1>1, <1>2, <1>3, <1>4 DEF ActorLine

LEMMA ActorEndsEpisode ==
  ASSUME NEW k \in Seq(Kinds), NEW kind \in Kinds, kind \in {"done", "truncated"},
         NEW out \in Seq(Seq(Nat)), NEW episode \in Seq(Nat), ActorLine(out, episode, k)
  PROVE  ActorLine(Append(out, Append(episode, Len(k) + 1)), <<>>, Append(k, kind))
<1> DEFINE longer == Append(episode, Len(k) + 1)
<1>0. Append(k, kind)[Len(k) + 1] = kind
  OBVIOUS
<1>1. ActorLine(out, longer, Append(k, kind))
  BY ActorGoesOn
<1>2. /\ longer \in Seq(Nat) /\ longer # <<>> /\ Acted(longer, Append(k, kind)) /\ Consecutive(longer)
      /\ longer[Len(longer)] = Len(k) + 1
  BY ConsecutiveOn DEF ActorLine
<1> HIDE DEF longer
<1>3. Complete(longer, Append(k, kind))
  BY <1>0, <1>2 DEF Complete, EndsAt
<1>4. Episodes(Append(out, longer), Append(k, kind))
  BY <1>1, <1>2, <1>3, EpisodesAppend DEF ActorLine
<1>5. QED
  BY <1>4, NothingFirst, NothingStored DEF ActorLine, longer

LEMMA ActorLeavesLine ==
  ASSUME NEW k, NEW out, NEW episode, ActorLine(out, episode, k)
  PROVE  ActorLine(out, <<>>, k) /\ ActorLine(<<>>, <<>>, k)
  BY NothingFirst, NothingStored DEF ActorLine

LEMMA AheadLeaves ==
  ASSUME NEW s, NEW out, NEW episode, Ahead(s, out, episode)
  PROVE  Ahead(s, out, <<>>) /\ Ahead(s, <<>>, <<>>)
  BY NothingFirst DEF Ahead

(* The first episode of the queue goes out.                                 *)
LEMMA ActorSends ==
  ASSUME NEW k, NEW out \in Seq(Seq(Nat)), NEW episode, out # <<>>, ActorLine(out, episode, k)
  PROVE  /\ ActorLine(Tail(out), episode, k)
         /\ Complete(Head(out), k) /\ Ahead(Head(out), Tail(out), episode)
<1>1. /\ Head(out) = out[1] /\ Complete(Head(out), k) /\ Episodes(Tail(out), k)
      /\ BeforeAll(Head(out), Tail(out)) /\ Len(out) \in Nat \ {0} /\ Len(Tail(out)) = Len(out) - 1
      /\ \A e \in 1..(Len(out) - 1) : e + 1 \in 1..Len(out) /\ Tail(out)[e] = out[e + 1]
  BY EpisodesTail DEF ActorLine
<1>2. Before(Head(out), episode)
  BY <1>1 DEF ActorLine
<1>3. \A e \in 1..(Len(out) - 1) : Before(Tail(out)[e], episode)
  BY <1>1 DEF ActorLine
<1>4. QED
  BY <1>1, <1>2, <1>3 DEF ActorLine, Ahead

LEMMA AheadTail ==
  ASSUME NEW s, NEW out \in Seq(Seq(Nat)), NEW episode, out # <<>>, Ahead(s, out, episode)
  PROVE  Ahead(s, Tail(out), episode) /\ Before(s, Head(out))
  BY BeforeAllTail DEF Ahead

(* An episode is received.                                                  *)
LEMMA IncomingReceives ==
  ASSUME NEW k, NEW out \in Seq(Seq(Nat)), NEW episode \in Seq(Nat), NEW incoming \in Seq(Seq(Nat)), out # <<>>,
         ActorLine(out, episode, k), IncomingLine(incoming, out, episode, k)
  PROVE  IncomingLine(Append(incoming, Head(out)), Tail(out), episode, k)
<1> DEFINE s == Head(out)
           longer == Append(incoming, s)
<1>0. s \in Seq(Nat)
  BY TailIs
<1>1. Complete(s, k) /\ Ahead(s, Tail(out), episode)
  BY ActorSends
<1>2. \A e \in 1..Len(incoming) : Ahead(incoming[e], Tail(out), episode) /\ Before(incoming[e], s)
  BY AheadTail DEF IncomingLine
<1> HIDE DEF s
<1>3. /\ Len(incoming) \in Nat /\ Len(longer) = Len(incoming) + 1 /\ longer[Len(incoming) + 1] = s
      /\ \A e \in 1..Len(incoming) : longer[e] = incoming[e]
  BY <1>0, AppendIs
<1>4. Episodes(longer, k)
  BY <1>0, <1>1, <1>2, EpisodesAppend DEF IncomingLine
<1>5. ASSUME NEW e \in 1..(Len(incoming) + 1)
      PROVE  Ahead(longer[e], Tail(out), episode)
  <2>1. CASE e \in 1..Len(incoming)
    BY <1>2, <1>3, <2>1
  <2>2. CASE e = Len(incoming) + 1
    BY <1>1, <1>3, <2>2
  <2>3. QED
    BY <1>3, <2>1, <2>2
<1> HIDE DEF longer
<1>6. IncomingLine(longer, Tail(out), episode, k)
  BY <1>3, <1>4, <1>5 DEF IncomingLine
<1>7. QED
  BY <1>6 DEF longer, s

(* Acting disturbs nothing that was sent, taken, stored or saved.           *)
LEMMA IncomingActs ==
  ASSUME NEW k \in Seq(Kinds), NEW kind \in Kinds, NEW out \in Seq(Seq(Nat)), NEW episode \in Seq(Nat),
         NEW out2, NEW episode2, OneMore(out, episode, out2, episode2, Len(k) + 1),
         NEW incoming \in Seq(Seq(Nat)), IncomingLine(incoming, out, episode, k)
  PROVE  IncomingLine(incoming, out2, episode2, Append(k, kind))
<1>1. ASSUME NEW e \in 1..Len(incoming)
      PROVE  Ahead(incoming[e], out2, episode2)
  <2>1. /\ incoming[e] \in Seq(Nat) /\ Acted(incoming[e], k)
        /\ Ahead(incoming[e], out, episode)
    BY DEF IncomingLine, Episodes, Complete
  <2>2. QED
    BY <2>1, AheadActs
<1>2. Episodes(incoming, Append(k, kind))
  BY EpisodesGrow DEF IncomingLine
<1>3. QED
  BY <1>1, <1>2 DEF IncomingLine

LEMMA TakenActs ==
  ASSUME NEW k \in Seq(Kinds), NEW kind \in Kinds, NEW out \in Seq(Seq(Nat)), NEW episode \in Seq(Nat),
         NEW out2, NEW episode2, OneMore(out, episode, out2, episode2, Len(k) + 1),
         NEW incoming, NEW taken \in Seq(Nat), TakenLine(taken, incoming, out, episode, k)
  PROVE  TakenLine(taken, incoming, out2, episode2, Append(k, kind))
<1>1. Acted(taken, k)
  BY NothingStored DEF TakenLine, Complete
<1>2. Ahead(taken, out2, episode2)
  BY <1>1, AheadActs DEF TakenLine
<1>3. taken # <<>> => Complete(taken, Append(k, kind))
  BY CompleteGrows DEF TakenLine
<1>4. QED
  BY <1>2, <1>3 DEF TakenLine

LEMMA StockActs ==
  ASSUME NEW k \in Seq(Kinds), NEW kind \in Kinds, NEW out \in Seq(Seq(Nat)), NEW episode \in Seq(Nat),
         NEW out2, NEW episode2, OneMore(out, episode, out2, episode2, Len(k) + 1),
         NEW incoming, NEW taken \in Seq(Nat), NEW stock \in Seq(Nat),
         TakenLine(taken, incoming, out, episode, k),
         StockLine(stock, taken, incoming, out, episode, k)
  PROVE  StockLine(stock, taken, incoming, out2, episode2, Append(k, kind))
<1>1. Stored(stock, Append(k, kind)) /\ Acted(stock, k)
  BY StoredGrows DEF StockLine, Stored
<1>2. Ahead(stock, out2, episode2)
  BY <1>1, AheadActs DEF StockLine
<1>3. taken = <<>> => Ended(stock, Append(k, kind))
  BY <1>1, EndedGrows DEF StockLine
<1>4. ASSUME taken # <<>>, stock # <<>>
      PROVE  Follows(stock[Len(stock)], taken[1], Append(k, kind))
  <2>1. Len(stock) \in 1..Len(stock) /\ 1 \in 1..Len(taken)
    BY <1>4
  <2>2. stock[Len(stock)] \in 1..Len(k) /\ taken[1] \in 1..Len(k) /\ stock[Len(stock)] < taken[1]
    BY <1>1, <1>4, <2>1 DEF Acted, TakenLine, Complete, StockLine, Before
  <2>3. Follows(stock[Len(stock)], taken[1], k)
    BY <1>4 DEF StockLine
  <2>4. QED
    BY <2>2, <2>3, FollowsGrows
<1>5. QED
  BY <1>1, <1>2, <1>3, <1>4 DEF StockLine

LEMMA SavedActs ==
  ASSUME NEW k \in Seq(Kinds), NEW kind \in Kinds, NEW out \in Seq(Seq(Nat)), NEW episode \in Seq(Nat),
         NEW out2, NEW episode2, OneMore(out, episode, out2, episode2, Len(k) + 1),
         NEW saved \in Seq(Nat), SavedLine(saved, out, episode, k)
  PROVE  SavedLine(saved, out2, episode2, Append(k, kind))
<1>1. Stored(saved, Append(k, kind)) /\ Acted(saved, k)
  BY StoredGrows DEF SavedLine, Stored
<1>2. Ahead(saved, out2, episode2)
  BY <1>1, AheadActs DEF SavedLine
<1>3. Ended(saved, Append(k, kind))
  BY <1>1, EndedGrows DEF SavedLine
<1>4. QED
  BY <1>1, <1>2, <1>3 DEF SavedLine

(* The first transition of an episode leaves it.                            *)
LEMMA BeforeTails ==
  ASSUME NEW s, NEW t \in Seq(Nat), t # <<>>, Before(s, t)
  PROVE  Before(s, Tail(t)) /\ \A i \in 1..Len(s) : s[i] < t[1]
<1>1. /\ Len(t) \in Nat \ {0} /\ Len(Tail(t)) = Len(t) - 1
      /\ \A i \in 1..(Len(t) - 1) : Tail(t)[i] = t[i + 1]
  BY TailIs
<1>2. 1 \in 1..Len(t) /\ \A i \in 1..(Len(t) - 1) : i + 1 \in 1..Len(t)
  BY <1>1
<1>3. QED
  BY <1>1, <1>2 DEF Before

LEMMA TakenTails ==
  ASSUME NEW k, NEW out, NEW episode, NEW incoming, NEW taken \in Seq(Nat), taken # <<>>,
         TakenLine(taken, incoming, out, episode, k)
  PROVE  TakenLine(Tail(taken), incoming, out, episode, k)
<1>1. Tail(taken) # <<>> => Complete(Tail(taken), k)
  BY TailComplete DEF TakenLine
<1>2. BeforeAll(Tail(taken), incoming) /\ Ahead(Tail(taken), out, episode)
  BY BeforeTail DEF TakenLine, Ahead, BeforeAll
<1>3. QED
  BY <1>1, <1>2 DEF TakenLine

(* The oldest transition of a full ring is overwritten.                     *)
LEMMA StockTails ==
  ASSUME NEW k, NEW out, NEW episode, NEW incoming, NEW taken \in Seq(Nat), taken # <<>>,
         NEW stock \in Seq(Nat), stock # <<>>, StockLine(stock, taken, incoming, out, episode, k)
  PROVE  StockLine(Tail(stock), taken, incoming, out, episode, k)
<1> DEFINE rest == Tail(stock)
<1>1. /\ Len(stock) \in Nat \ {0} /\ Len(rest) = Len(stock) - 1 /\ rest \in Seq(Nat)
      /\ \A i \in 1..(Len(stock) - 1) : rest[i] = stock[i + 1]
  BY TailIs
<1>2. /\ \A i \in 1..(Len(stock) - 1) : i + 1 \in 1..Len(stock)
      /\ \A i \in 1..(Len(stock) - 1 - 1) : i + 1 \in 1..(Len(stock) - 1) /\ i \in 1..(Len(stock) - 1)
  BY <1>1
<1>3. /\ Rises(rest) /\ Before(rest, taken)
  BY TailRises, BeforeTail DEF StockLine, Stored
<1>4. BeforeAll(rest, incoming) /\ Ahead(rest, out, episode)
  BY BeforeTail DEF StockLine, Ahead, BeforeAll
<1> HIDE DEF rest
<1>5. Acted(rest, k)
  BY <1>1, <1>2 DEF StockLine, Stored, Acted
<1>6. \A i \in 1..(Len(rest) - 1) : Follows(rest[i], rest[i + 1], k)
  BY <1>1, <1>2 DEF StockLine, Stored
<1>7. ASSUME rest # <<>>
      PROVE  Follows(rest[Len(rest)], taken[1], k)
  <2>1. Len(rest) # 0
    BY <1>1, <1>7, SomeLength
  <2>2. rest[Len(rest)] = stock[Len(stock)]
    BY <1>1, <2>1
  <2>3. QED
    BY <2>2 DEF StockLine
<1>8. StockLine(rest, taken, incoming, out, episode, k)
  BY <1>3, <1>4, <1>5, <1>6, <1>7 DEF StockLine, Stored
<1>9. QED
  BY <1>8 DEF rest

(* A transition is added to the buffer.                                     *)
LEMMA StockAdds ==
  ASSUME NEW k, NEW out, NEW episode, NEW incoming, NEW taken \in Seq(Nat), taken # <<>>,
         NEW stock \in Seq(Nat), StockLine(stock, taken, incoming, out, episode, k),
         TakenLine(taken, incoming, out, episode, k)
  PROVE  StockLine(Append(stock, taken[1]), Tail(taken), incoming, out, episode, k)
<1> DEFINE n == taken[1]
           rest == Tail(taken)
           longer == Append(stock, n)
<1>1. Complete(taken, k) /\ n \in 1..Len(k) /\ Rises(taken) /\ n \in Nat /\ 1 \in 1..Len(taken)
  <2>1. Complete(taken, k)
    BY DEF TakenLine
  <2>2. 1 \in 1..Len(taken)
    OBVIOUS
  <2>3. QED
    BY <2>1, <2>2, HeadComplete, CompleteRises DEF Complete
<1>2. rest = <<>> => EndsAt(n, k)
  BY <1>1, LastComplete
<1>3. rest # <<>> => rest[1] = n + 1
  BY <1>1, TailComplete
<1>4. rest \in Seq(Nat) /\ \A j \in 1..Len(rest) : n < rest[j]
  BY <1>1, TailIs, TailRises
<1>5. Before(stock, rest) /\ \A i \in 1..Len(stock) : stock[i] < n
  BY BeforeTails DEF StockLine
<1> HIDE DEF n, rest
<1>6. /\ Len(stock) \in Nat /\ Len(longer) = Len(stock) + 1 /\ longer[Len(stock) + 1] = n
      /\ longer \in Seq(Nat) /\ longer # <<>>
      /\ \A i \in 1..Len(stock) : longer[i] = stock[i]
  <2> HIDE DEF longer
  <2>1. stock \in Seq(Nat) /\ n \in Nat
    BY <1>1
  <2>2. /\ Append(stock, n) \in Seq(Nat) /\ Append(stock, n) # <<>>
        /\ Len(stock) \in Nat /\ Len(Append(stock, n)) = Len(stock) + 1
        /\ Append(stock, n)[Len(stock) + 1] = n
        /\ \A i \in 1..Len(stock) : Append(stock, n)[i] = stock[i]
    BY <2>1, AppendIs
  <2>3. QED
    BY <2>2 DEF longer
<1>7. Before(longer, rest)
  BY <1>1, <1>4, <1>5, AppendBefore
<1>8. ASSUME NEW t, Before(stock, t), Before(taken, t)
      PROVE  Before(longer, t)
  <2>1. \A j \in 1..Len(t) : n < t[j]
    BY <1>1, <1>8 DEF Before, n
  <2>2. QED
    BY <1>1, <1>8, <2>1, AppendBefore
<1>9. BeforeAll(longer, incoming) /\ Ahead(longer, out, episode)
  <2> HIDE DEF longer
  <2>1. /\ \A e \in 1..Len(incoming) : Before(stock, incoming[e]) /\ Before(taken, incoming[e])
        /\ \A e \in 1..Len(out) : Before(stock, out[e]) /\ Before(taken, out[e])
        /\ Before(stock, episode) /\ Before(taken, episode)
    BY DEF StockLine, TakenLine, BeforeAll, Ahead
  <2>2. QED
    BY <1>8, <2>1 DEF BeforeAll, Ahead
<1>10. Rises(longer)
  BY <1>1, <1>5, AppendRises DEF StockLine, Stored
<1> HIDE DEF longer
<1>11. Acted(longer, k)
  <2>1. SUFFICES ASSUME NEW i \in 1..(Len(stock) + 1) PROVE longer[i] \in 1..Len(k)
    BY <1>6 DEF Acted
  <2>2. CASE i \in 1..Len(stock)
    BY <1>6, <2>2 DEF StockLine, Stored, Acted
  <2>3. CASE i = Len(stock) + 1
    BY <1>1, <1>6, <2>3
  <2>4. QED
    BY <1>6, <2>2, <2>3
<1>12. ASSUME NEW i \in 1..Len(stock)
       PROVE  Follows(longer[i], longer[i + 1], k)
  <2>1. CASE i = Len(stock)
    <3>1. stock # <<>>
      BY <1>6, <2>1
    <3>2. Follows(stock[Len(stock)], n, k)
      BY <3>1 DEF StockLine, n
    <3>3. QED
      BY <1>6, <2>1, <3>2
  <2>2. CASE i # Len(stock)
    <3>1. i \in 1..(Len(stock) - 1) /\ i + 1 \in 1..Len(stock)
      BY <1>6, <2>2
    <3>2. Follows(stock[i], stock[i + 1], k)
      BY <3>1 DEF StockLine, Stored
    <3>3. QED
      BY <1>6, <3>1, <3>2
  <2>3. QED
    BY <2>1, <2>2
<1>13. Stored(longer, k)
  <2>1. Len(longer) - 1 = Len(stock)
    BY <1>6
  <2>2. QED
    BY <1>10, <1>11, <1>12, <2>1 DEF Stored
<1>14. rest = <<>> => Ended(longer, k)
  BY <1>2, <1>6 DEF Ended
<1>15. rest # <<>> => Follows(longer[Len(longer)], rest[1], k)
  BY <1>3, <1>6 DEF Follows
<1>16. StockLine(longer, rest, incoming, out, episode, k)
  BY <1>7, <1>9, <1>13, <1>14, <1>15 DEF StockLine
<1>17. QED
  BY <1>16 DEF longer, rest, n

(* A transition with a NaN is skipped.                                      *)
LEMMA StockSkips ==
  ASSUME NEW k, NEW out, NEW episode, NEW incoming, NEW taken \in Seq(Nat), taken # <<>>,
         NEW stock \in Seq(Nat), StockLine(stock, taken, incoming, out, episode, k),
         TakenLine(taken, incoming, out, episode, k), k[taken[1]] = "nan"
  PROVE  StockLine(stock, Tail(taken), incoming, out, episode, k)
<1>1. Complete(taken, k)
  BY DEF TakenLine
<1>2. Tail(taken) # <<>>
  BY <1>1, LastComplete DEF EndsAt
<1>3. Tail(taken)[1] = taken[1] + 1
  BY <1>1, <1>2, TailComplete
<1>4. Before(stock, Tail(taken))
  BY BeforeTails DEF StockLine
<1>5. ASSUME stock # <<>>
      PROVE  Follows(stock[Len(stock)], Tail(taken)[1], k)
  <2>1. Follows(stock[Len(stock)], taken[1], k)
    BY <1>5 DEF StockLine
  <2>2. QED
    BY <1>3, <2>1 DEF Follows
<1>6. QED
  BY <1>2, <1>4, <1>5 DEF StockLine

-----------------------------------------------------------------------------
InLine(out, episode, incoming, taken, stock, saved, k) ==
  /\ ActorLine(out, episode, k) /\ IncomingLine(incoming, out, episode, k)
  /\ TakenLine(taken, incoming, out, episode, k)
  /\ StockLine(stock, taken, incoming, out, episode, k)
  /\ SavedLine(saved, out, episode, k)

(* A transition is acted, and may end its episode.                          *)
LEMMA LineActs ==
  ASSUME NEW k \in Seq(Kinds), NEW kind \in Kinds, NEW out \in Seq(Seq(Nat)), NEW episode \in Seq(Nat),
         NEW incoming \in Seq(Seq(Nat)), NEW taken \in Seq(Nat), NEW stock \in Seq(Nat),
         NEW saved \in Seq(Nat), InLine(out, episode, incoming, taken, stock, saved, k)
  PROVE  InLine(out, Append(episode, Len(k) + 1), incoming, taken, stock, saved, Append(k, kind))
<1> DEFINE longer == Append(episode, Len(k) + 1)
<1>1. OneMore(out, episode, out, longer, Len(k) + 1)
  BY DEF OneMore
<1>2. ActorLine(out, longer, Append(k, kind))
  BY ActorGoesOn DEF InLine
<1> HIDE DEF longer
<1>3. /\ IncomingLine(incoming, out, longer, Append(k, kind))
      /\ TakenLine(taken, incoming, out, longer, Append(k, kind))
  BY <1>1, IncomingActs, TakenActs DEF InLine
<1>4. StockLine(stock, taken, incoming, out, longer, Append(k, kind))
  BY <1>1, StockActs DEF InLine
<1>5. SavedLine(saved, out, longer, Append(k, kind))
  BY <1>1, SavedActs DEF InLine
<1>6. QED
  BY <1>2, <1>3, <1>4, <1>5 DEF InLine, longer

LEMMA LineEndsEpisode ==
  ASSUME NEW k \in Seq(Kinds), NEW kind \in Kinds, kind \in {"done", "truncated"},
         NEW out \in Seq(Seq(Nat)), NEW episode \in Seq(Nat),
         NEW incoming \in Seq(Seq(Nat)), NEW taken \in Seq(Nat), NEW stock \in Seq(Nat),
         NEW saved \in Seq(Nat), InLine(out, episode, incoming, taken, stock, saved, k)
  PROVE  InLine(Append(out, Append(episode, Len(k) + 1)), <<>>, incoming, taken, stock, saved,
                Append(k, kind))
<1> DEFINE more == Append(out, Append(episode, Len(k) + 1))
<1>1. OneMore(out, episode, more, <<>>, Len(k) + 1)
  BY DEF OneMore
<1>2. ActorLine(more, <<>>, Append(k, kind))
  BY ActorEndsEpisode DEF InLine
<1> HIDE DEF more
<1>3. /\ IncomingLine(incoming, more, <<>>, Append(k, kind))
      /\ TakenLine(taken, incoming, more, <<>>, Append(k, kind))
  BY <1>1, IncomingActs, TakenActs DEF InLine
<1>4. StockLine(stock, taken, incoming, more, <<>>, Append(k, kind))
  BY <1>1, StockActs DEF InLine
<1>5. SavedLine(saved, more, <<>>, Append(k, kind))
  BY <1>1, SavedActs DEF InLine
<1>6. QED
  BY <1>2, <1>3, <1>4, <1>5 DEF InLine, more

(* The actor leaves an unfinished episode, or takes all with it.            *)
LEMMA LineLeaves ==
  ASSUME NEW k, NEW out, NEW episode, NEW incoming, NEW taken, NEW stock, NEW saved,
         InLine(out, episode, incoming, taken, stock, saved, k)
  PROVE  /\ InLine(out, <<>>, incoming, taken, stock, saved, k)
         /\ InLine(<<>>, <<>>, incoming, taken, stock, saved, k)
<1>1. \A s : Ahead(s, out, episode) => Ahead(s, out, <<>>) /\ Ahead(s, <<>>, <<>>)
  BY AheadLeaves
<1>2. ActorLine(out, <<>>, k) /\ ActorLine(<<>>, <<>>, k)
  BY ActorLeavesLine DEF InLine
<1>3. QED
  BY <1>1, <1>2 DEF InLine, IncomingLine, TakenLine, StockLine, SavedLine

(* The first episode sent is the last one received.                         *)
LEMMA LineReceives ==
  ASSUME NEW k, NEW out \in Seq(Seq(Nat)), out # <<>>, NEW episode \in Seq(Nat),
         NEW incoming \in Seq(Seq(Nat)), NEW taken, NEW stock, NEW saved,
         InLine(out, episode, incoming, taken, stock, saved, k)
  PROVE  InLine(Tail(out), episode, Append(incoming, Head(out)), taken, stock, saved, k)
<1>1. ActorLine(Tail(out), episode, k) /\ Head(out) \in Seq(Nat)
  BY ActorSends, TailIs DEF InLine
<1>2. IncomingLine(Append(incoming, Head(out)), Tail(out), episode, k)
  BY IncomingReceives DEF InLine
<1>3. \A s : Ahead(s, out, episode) => Ahead(s, Tail(out), episode) /\ Before(s, Head(out))
  BY AheadTail
<1>4. \A s : BeforeAll(s, incoming) /\ Before(s, Head(out)) => BeforeAll(s, Append(incoming, Head(out)))
  BY <1>1, BeforeAllAppend
<1>5. TakenLine(taken, Append(incoming, Head(out)), Tail(out), episode, k)
  BY <1>3, <1>4 DEF InLine, TakenLine
<1>6. StockLine(stock, taken, Append(incoming, Head(out)), Tail(out), episode, k)
  BY <1>3, <1>4 DEF InLine, StockLine
<1>7. SavedLine(saved, Tail(out), episode, k)
  BY <1>3 DEF InLine, SavedLine
<1>8. QED
  BY <1>1, <1>2, <1>5, <1>6, <1>7 DEF InLine

(* The learner is gone; what was saved may be wiped.                        *)
LEMMA LineGone ==
  ASSUME NEW k, NEW out, NEW episode, NEW incoming, NEW taken, NEW stock, NEW saved,
         InLine(out, episode, incoming, taken, stock, saved, k)
  PROVE  /\ InLine(out, episode, <<>>, <<>>, <<>>, saved, k)
         /\ InLine(out, episode, <<>>, <<>>, <<>>, <<>>, k)
         /\ InLine(out, episode, <<>>, <<>>, saved, saved, k)
<1>1. IncomingLine(<<>>, out, episode, k)
  BY NothingStored DEF IncomingLine
<1>2. TakenLine(<<>>, <<>>, out, episode, k)
  BY NothingStored, NothingFirst DEF TakenLine
<1>3. StockLine(<<>>, <<>>, <<>>, out, episode, k)
  BY NothingStored, NothingFirst DEF StockLine
<1>4. SavedLine(<<>>, out, episode, k)
  BY NothingStored DEF SavedLine
<1>5. StockLine(saved, <<>>, <<>>, out, episode, k)
  BY NothingFirst DEF InLine, SavedLine, StockLine
<1>6. QED
  BY <1>1, <1>2, <1>3, <1>4, <1>5 DEF InLine

(* The first episode received is taken, when none is.                       *)
LEMMA LineTakes ==
  ASSUME NEW k, NEW out, NEW episode, NEW incoming \in Seq(Seq(Nat)), incoming # <<>>,
         NEW stock, NEW saved, InLine(out, episode, incoming, <<>>, stock, saved, k)
  PROVE  InLine(out, episode, Tail(incoming), Head(incoming), stock, saved, k)
<1>1. /\ Head(incoming) = incoming[1] /\ Complete(Head(incoming), k) /\ Episodes(Tail(incoming), k)
      /\ BeforeAll(Head(incoming), Tail(incoming))
      /\ Len(incoming) \in Nat \ {0} /\ Len(Tail(incoming)) = Len(incoming) - 1
      /\ \A e \in 1..(Len(incoming) - 1) : e + 1 \in 1..Len(incoming) /\ Tail(incoming)[e] = incoming[e + 1]
  BY EpisodesTail DEF InLine, IncomingLine
<1>2. IncomingLine(Tail(incoming), out, episode, k)
  BY <1>1 DEF InLine, IncomingLine
<1>3. TakenLine(Head(incoming), Tail(incoming), out, episode, k)
  BY <1>1 DEF InLine, IncomingLine, TakenLine
<1>4. StockLine(stock, Head(incoming), Tail(incoming), out, episode, k)
  <2>1. Head(incoming) # <<>>
    BY <1>1 DEF Complete
  <2>2. BeforeAll(stock, Tail(incoming)) /\ Before(stock, Head(incoming))
    BY BeforeAllTail DEF InLine, StockLine
  <2>3. stock # <<>> => Follows(stock[Len(stock)], Head(incoming)[1], k)
    BY DEF InLine, StockLine, Ended, Follows
  <2>4. QED
    BY <2>1, <2>2, <2>3 DEF InLine, StockLine
<1>5. QED
  BY <1>2, <1>3, <1>4 DEF InLine

(* Its first transition is stored, maybe for the oldest one, or skipped.    *)
LEMMA LineAdds ==
  ASSUME NEW k, NEW out, NEW episode, NEW incoming, NEW taken \in Seq(Nat), taken # <<>>,
         NEW stock \in Seq(Nat), NEW saved, InLine(out, episode, incoming, taken, stock, saved, k)
  PROVE  InLine(out, episode, incoming, Tail(taken), Append(stock, taken[1]), saved, k)
  BY TakenTails, StockAdds DEF InLine

LEMMA LineOverwrites ==
  ASSUME NEW k, NEW out, NEW episode, NEW incoming, NEW taken \in Seq(Nat), taken # <<>>,
         NEW stock \in Seq(Nat), stock # <<>>, NEW saved,
         InLine(out, episode, incoming, taken, stock, saved, k)
  PROVE  InLine(out, episode, incoming, Tail(taken), Append(Tail(stock), taken[1]), saved, k)
<1>1. Tail(stock) \in Seq(Nat)
  BY TailIs
<1>2. InLine(out, episode, incoming, taken, Tail(stock), saved, k)
  BY StockTails DEF InLine
<1>3. QED
  BY <1>1, <1>2, LineAdds

LEMMA LineSkips ==
  ASSUME NEW k, NEW out, NEW episode, NEW incoming, NEW taken \in Seq(Nat), taken # <<>>,
         NEW stock \in Seq(Nat), NEW saved, InLine(out, episode, incoming, taken, stock, saved, k),
         k[taken[1]] = "nan"
  PROVE  InLine(out, episode, incoming, Tail(taken), stock, saved, k)
  BY TakenTails, StockSkips DEF InLine

(* What is stored is saved.                                                 *)
LEMMA LineSaves ==
  ASSUME NEW k, NEW out, NEW episode, NEW incoming, NEW stock, NEW saved,
         InLine(out, episode, incoming, <<>>, stock, saved, k)
  PROVE  InLine(out, episode, incoming, <<>>, stock, stock, k)
  BY DEF InLine, StockLine, SavedLine
-----------------------------------------------------------------------------
(* One sequence after another.                                              *)
LEMMA Concat ==
  ASSUME NEW X, NEW s \in Seq(X), NEW t \in Seq(X)
  PROVE  /\ s \o t \in Seq(X)
         /\ Len(s) \in Nat /\ Len(t) \in Nat /\ Len(s \o t) = Len(s) + Len(t)
         /\ \A i \in 1..Len(s) : (s \o t)[i] = s[i]
         /\ \A i \in 1..Len(t) : (s \o t)[Len(s) + i] = t[i]
  OBVIOUS

(* An element of a concatenation is one of either part.                     *)
LEMMA ConcatAt ==
  ASSUME NEW s \in Seq(Nat), NEW t \in Seq(Nat), NEW i \in 1..Len(s \o t)
  PROVE  \/ i \in 1..Len(s) /\ (s \o t)[i] = s[i]
         \/ i > Len(s) /\ i - Len(s) \in 1..Len(t) /\ (s \o t)[i] = t[i - Len(s)]
<1> DEFINE u == s \o t
<1>1. /\ Len(s) \in Nat /\ Len(t) \in Nat /\ Len(u) = Len(s) + Len(t)
      /\ \A n \in 1..Len(s) : u[n] = s[n]
      /\ \A n \in 1..Len(t) : u[Len(s) + n] = t[n]
  BY Concat
<1> HIDE DEF u
<1>2. i \in 1..Len(u)
  BY DEF u
<1>3. CASE i <= Len(s)
  BY <1>1, <1>2, <1>3 DEF u
<1>4. CASE i > Len(s)
  <2>1. i - Len(s) \in 1..Len(t) /\ Len(s) + (i - Len(s)) = i
    BY <1>1, <1>2, <1>4
  <2>2. u[i] = t[i - Len(s)]
    BY <1>1, <2>1
  <2>3. QED
    BY <1>4, <2>1, <2>2 DEF u
<1>5. QED
  BY <1>1, <1>2, <1>3, <1>4

LEMMA ConcatBefore ==
  ASSUME NEW s \in Seq(Nat), NEW t \in Seq(Nat), NEW u, Before(s, u), Before(t, u)
  PROVE  Before(s \o t, u)
<1>1. SUFFICES ASSUME NEW i \in 1..Len(s \o t), NEW j \in 1..Len(u)
               PROVE  (s \o t)[i] < u[j]
  BY DEF Before
<1>2. QED
  BY ConcatAt DEF Before

LEMMA BeforeConcat ==
  ASSUME NEW s \in Seq(Nat), NEW t \in Seq(Nat), NEW u, Before(u, s), Before(u, t)
  PROVE  Before(u, s \o t)
<1>1. SUFFICES ASSUME NEW i \in 1..Len(s \o t), NEW j \in 1..Len(u)
               PROVE  u[j] < (s \o t)[i]
  BY DEF Before
<1>2. QED
  BY ConcatAt DEF Before

LEMMA ConcatRises ==
  ASSUME NEW s \in Seq(Nat), NEW t \in Seq(Nat), Rises(s), Rises(t), Before(s, t)
  PROVE  Rises(s \o t)
<1>1. SUFFICES ASSUME NEW i \in 1..Len(s \o t), NEW j \in 1..Len(s \o t), i < j
               PROVE  (s \o t)[i] < (s \o t)[j]
  BY DEF Rises
<1> DEFINE u == s \o t
<1>2. Len(s) \in Nat /\ i \in Nat /\ j \in Nat
  BY Concat
<1>3. /\ \/ i \in 1..Len(s) /\ u[i] = s[i]
         \/ i > Len(s) /\ i - Len(s) \in 1..Len(t) /\ u[i] = t[i - Len(s)]
      /\ \/ j \in 1..Len(s) /\ u[j] = s[j]
         \/ j > Len(s) /\ j - Len(s) \in 1..Len(t) /\ u[j] = t[j - Len(s)]
  BY ConcatAt
<1> HIDE DEF u
<1>4. CASE j <= Len(s)
  BY <1>1, <1>2, <1>3, <1>4 DEF Rises
<1>5. CASE i <= Len(s) /\ j > Len(s)
  BY <1>2, <1>3, <1>5 DEF Before
<1>6. CASE i > Len(s)
  <2>1. i - Len(s) < j - Len(s) /\ j > Len(s)
    BY <1>1, <1>2, <1>6
  <2>2. /\ i - Len(s) \in 1..Len(t) /\ u[i] = t[i - Len(s)]
        /\ j - Len(s) \in 1..Len(t) /\ u[j] = t[j - Len(s)]
    BY <1>2, <1>3, <1>6, <2>1
  <2>3. QED
    BY <2>1, <2>2 DEF Rises, u
<1>7. u[i] < u[j]
  BY <1>1, <1>2, <1>4, <1>5, <1>6 DEF u
<1>8. QED
  BY <1>7 DEF u

(* What joins the first m sequences: it rises, and lies between what lies   *)
(* before and after all of them.                                            *)
Joined(ss, m, s) ==
  /\ s \in Seq(Nat) /\ Rises(s)
  /\ \A u : (\A e \in 1..m : Before(u, ss[e])) => Before(u, s)
  /\ \A u : (\A e \in 1..m : Before(ss[e], u)) => Before(s, u)

RisingAll(ss) ==
  /\ \A e \in 1..Len(ss) : Rises(ss[e])
  /\ \A e, f \in 1..Len(ss) : e < f => Before(ss[e], ss[f])

(* One more sequence, and the first one.                                    *)
LEMMA JoinedNext ==
  ASSUME NEW ss \in Seq(Seq(Nat)), RisingAll(ss), NEW m \in Nat, m + 1 \in 1..Len(ss), NEW s, Joined(ss, m, s)
  PROVE  Joined(ss, m + 1, s \o ss[m + 1])
<1> DEFINE next == ss[m + 1]
<1>1. next \in Seq(Nat) /\ Rises(next) /\ s \in Seq(Nat) /\ Rises(s)
  BY DEF RisingAll, Joined
<1>2. \A e \in 1..m : Before(ss[e], next)
  <2>1. \A e \in 1..m : e \in 1..Len(ss) /\ e < m + 1
    OBVIOUS
  <2>2. QED
    BY <2>1 DEF RisingAll
<1>3. Before(s, next)
  BY <1>2 DEF Joined
<1> HIDE DEF next
<1>4. s \o next \in Seq(Nat) /\ Rises(s \o next)
  BY <1>1, <1>3, Concat, ConcatRises
<1>5. m + 1 \in 1..(m + 1) /\ 1..m \subseteq 1..(m + 1)
  OBVIOUS
<1>6. ASSUME NEW u, \A e \in 1..(m + 1) : Before(u, ss[e])
      PROVE  Before(u, s \o next)
  <2>1. Before(u, s) /\ Before(u, next)
    BY <1>5, <1>6 DEF Joined, next
  <2>2. QED
    BY <1>1, <2>1, BeforeConcat
<1>7. ASSUME NEW u, \A e \in 1..(m + 1) : Before(ss[e], u)
      PROVE  Before(s \o next, u)
  <2>1. Before(s, u) /\ Before(next, u)
    BY <1>5, <1>7 DEF Joined, next
  <2>2. QED
    BY <1>1, <2>1, ConcatBefore
<1>8. Joined(ss, m + 1, s \o next)
  BY <1>4, <1>6, <1>7 DEF Joined
<1>9. QED
  BY <1>8 DEF next

LEMMA JoinedFirst ==
  ASSUME NEW ss \in Seq(Seq(Nat)), RisingAll(ss), 1 \in 1..Len(ss)
  PROVE  Joined(ss, 1, ss[1])
  BY DEF RisingAll, Joined

(* FlattenSeq joins rising sequences to one that rises.                     *)
LEMMA FlattenIs ==
  ASSUME NEW s, NEW n \in Nat, n # 0, Len(s) = n
  PROVE  \E g : Flattens(s, n, g) /\ FlattenSeq(s) = g[n]
<1> DEFINE g == CHOOSE g : g = [i \in 1..n |-> IF i = 1 THEN s[i] ELSE g[i - 1] \o s[i]]
<1>1. Flattens(s, n, g)
  BY FlattensExists DEF Flattens
<1>2. FlattenSeq(s) = g[n]
  BY DEF FlattenSeq
<1>3. QED
  BY <1>1, <1>2

LEMMA FlattenJoins ==
  ASSUME NEW ss \in Seq(Seq(Nat)), RisingAll(ss)
  PROVE  Joined(ss, Len(ss), FlattenSeq(ss))
<1> DEFINE n == Len(ss)
<1>0. n \in Nat
  OBVIOUS
<1>1. CASE n = 0
  <2>1. ss = <<>>
    BY <1>1
  <2>2. FlattenSeq(ss) = <<>>
    BY <2>1 DEF FlattenSeq
  <2>3. <<>> \in Seq(Nat) /\ Rises(<<>>)
    BY DEF Rises
  <2>4. QED
    BY <2>2, <2>3, NothingFirst DEF Joined
<1>2. CASE n # 0
  <2>1. PICK g : Flattens(ss, n, g) /\ FlattenSeq(ss) = g[n]
    BY <1>0, <1>2, FlattenIs
  <2> DEFINE S == {m \in Nat : m \in 1..n => Joined(ss, m, g[m])}
  <2>2. 0 \in S
    OBVIOUS
  <2>3. ASSUME NEW m \in Nat, m \in S
        PROVE  m + 1 \in S
    <3>1. SUFFICES ASSUME m + 1 \in 1..n PROVE Joined(ss, m + 1, g[m + 1])
      OBVIOUS
    <3>2. g[m + 1] = IF m + 1 = 1 THEN ss[m + 1] ELSE g[m + 1 - 1] \o ss[m + 1]
      BY <2>1, <3>1, FlattensAt
    <3>3. CASE m = 0
      <4>1. g[m + 1] = ss[1] /\ m + 1 = 1
        BY <3>2, <3>3
      <4>2. QED
        BY <3>1, <4>1, JoinedFirst
    <3>4. CASE m # 0
      <4>1. m \in 1..n /\ m + 1 - 1 = m /\ m + 1 # 1
        BY <1>0, <3>1, <3>4
      <4>2. Joined(ss, m, g[m])
        BY <2>3, <4>1
      <4>3. g[m + 1] = g[m] \o ss[m + 1]
        BY <3>2, <4>1
      <4>4. QED
        BY <3>1, <4>2, <4>3, JoinedNext
    <3>5. QED
      BY <3>3, <3>4
  <2>4. Nat \subseteq S
    <3> HIDE DEF S
    <3>1. QED
      BY <2>2, <2>3, Induct
  <2>5. n \in S /\ n \in 1..n
    BY <1>0, <1>2, <2>4
  <2>6. QED
    BY <2>1, <2>5
<1>3. QED
  BY <1>1, <1>2

(* Episodes rise.                                                           *)
LEMMA EpisodesRise ==
  ASSUME NEW ss \in Seq(Seq(Nat)), NEW k, Episodes(ss, k)
  PROVE  RisingAll(ss)
<1>1. ASSUME NEW e \in 1..Len(ss)
      PROVE  Rises(ss[e])
  <2>1. ss[e] \in Seq(Nat) /\ Consecutive(ss[e])
    <3>1. Complete(ss[e], k)
      BY DEF Episodes
    <3>2. QED
      BY <3>1 DEF Complete
  <2>2. QED
    BY <2>1, CompleteRises
<1>2. QED
  BY <1>1 DEF Episodes, RisingAll

(* The line rises from the oldest transition to the newest.                 *)
LEMMA LineRises ==
  ASSUME NEW k, NEW out \in Seq(Seq(Nat)), NEW episode \in Seq(Nat), NEW incoming \in Seq(Seq(Nat)),
         NEW taken \in Seq(Nat), NEW stock \in Seq(Nat), NEW saved,
         InLine(out, episode, incoming, taken, stock, saved, k)
  PROVE  /\ stock \o taken \o FlattenSeq(incoming) \o FlattenSeq(out) \o episode \in Seq(Nat)
         /\ Rises(stock \o taken \o FlattenSeq(incoming) \o FlattenSeq(out) \o episode)
<1> DEFINE arriving == FlattenSeq(incoming)
           leaving == FlattenSeq(out)
           first == stock \o taken
           second == first \o arriving
           third == second \o leaving
<1>1. Rises(stock) /\ Rises(taken) /\ Rises(episode) /\ Before(stock, taken)
  <2>1. taken = <<>> => Rises(taken)
    BY DEF Rises
  <2>2. taken # <<>> => Rises(taken)
    BY CompleteRises DEF InLine, TakenLine, Complete
  <2>3. QED
    BY <2>1, <2>2, CompleteRises DEF InLine, StockLine, Stored, ActorLine
<1>2. /\ Joined(incoming, Len(incoming), arriving)
      /\ Joined(out, Len(out), leaving)
  BY EpisodesRise, FlattenJoins DEF InLine, IncomingLine, ActorLine
<1> HIDE DEF arriving, leaving
<1>3. arriving \in Seq(Nat) /\ leaving \in Seq(Nat) /\ Rises(arriving) /\ Rises(leaving)
  BY <1>2 DEF Joined
<1>4. \A s : BeforeAll(s, incoming) => Before(s, arriving)
  BY <1>2 DEF Joined, BeforeAll
<1>5. \A s : Ahead(s, out, episode) => Before(s, leaving) /\ Before(s, episode)
  BY <1>2 DEF Joined, BeforeAll, Ahead
<1>6. Before(arriving, leaving) /\ Before(arriving, episode)
  <2>1. \A e \in 1..Len(incoming) : Before(incoming[e], leaving) /\ Before(incoming[e], episode)
    BY <1>5 DEF InLine, IncomingLine
  <2>2. QED
    BY <1>2, <2>1 DEF Joined
<1>7. Before(leaving, episode)
  BY <1>2 DEF Joined, InLine, ActorLine
<1>8. /\ Before(stock, arriving) /\ Before(stock, leaving) /\ Before(stock, episode)
      /\ Before(taken, arriving) /\ Before(taken, leaving) /\ Before(taken, episode)
  BY <1>4, <1>5 DEF InLine, StockLine, TakenLine
<1>9. /\ first \in Seq(Nat) /\ Rises(first)
      /\ Before(first, arriving) /\ Before(first, leaving) /\ Before(first, episode)
  BY <1>1, <1>8, Concat, ConcatRises, ConcatBefore
<1> HIDE DEF first
<1>10. second \in Seq(Nat) /\ Rises(second) /\ Before(second, leaving) /\ Before(second, episode)
  BY <1>3, <1>6, <1>9, Concat, ConcatRises, ConcatBefore
<1> HIDE DEF second
<1>11. third \in Seq(Nat) /\ Rises(third) /\ Before(third, episode)
  BY <1>3, <1>7, <1>10, Concat, ConcatRises, ConcatBefore
<1> HIDE DEF third
<1>12. third \o episode \in Seq(Nat) /\ Rises(third \o episode)
  BY <1>1, <1>11, Concat, ConcatRises
<1>13. QED
  BY <1>12 DEF third, second, first, leaving, arriving
-----------------------------------------------------------------------------
(* What the learner samples after a transition followed it.                 *)
LEMMA SampledFollow ==
  ASSUME NEW buffer, RingSound(buffer), NEW k, Stored(ToDataset(buffer), k),
         NEW i \in Sampled(buffer), ~(Full(buffer) /\ i = Newest(buffer))
  PROVE  Follows(buffer.slots[i], buffer.slots[NextSlot(i)], k)
<1>1. Len(ToDataset(buffer)) = buffer.size
  BY DatasetIs
<1>2. PICK j \in 1..(buffer.size - 1) :
            /\ buffer.slots[i] = ToDataset(buffer)[j]
            /\ buffer.slots[NextSlot(i)] = ToDataset(buffer)[j + 1]
  BY SampledAreStored
<1>3. QED
  BY <1>1, <1>2 DEF Stored

(* Nothing is collected yet.                                                *)
LEMMA EmptyRing == RingSound(Empty) /\ ToDataset(Empty) = <<>>
<1>1. RingSound(Empty)
  BY EmptyIsBuffer, CapacityAssumption DEF RingSound, Empty, Slots, Full
<1>2. Len(ToDataset(Empty)) = 0 /\ ToDataset(Empty) \in Seq(Nat)
  BY <1>1, DatasetIs DEF Empty
<1>3. QED
  BY <1>1, <1>2

(* Before anything is acted.                                                *)
LEMMA NothingInLine == \A k : InLine(<<>>, <<>>, <<>>, <<>>, <<>>, <<>>, k)
  BY NothingFirst, NothingStored
  DEF InLine, ActorLine, IncomingLine, TakenLine, StockLine, SavedLine

-----------------------------------------------------------------------------
(* The actor's queue and episode, the learner's queue, the episode it       *)
(* takes, its ring and the saved one hold the transitions in line.          *)
LineInv ==
  InLine(actor.out, actor.episode, learner.incoming, learner.taken, ToDataset(learner.buffer), disk.dataset,
         kinds)

(* Only process_transitions holds a part of an episode.                     *)
TakenInTurn == learner.taken # <<>> => learner.pc = "transitions"

CollectedInv == kinds \in Seq(Kinds) /\ RingSound(learner.buffer) /\ TakenInTurn /\ LineInv

(* What the types say of sequences.                                         *)
LEMMA Sequences ==
  ASSUME Types
  PROVE  /\ actor.out \in Seq(Seq(Nat)) /\ actor.episode \in Seq(Nat)
         /\ learner.incoming \in Seq(Seq(Nat)) /\ learner.taken \in Seq(Nat)
         /\ disk.dataset \in Seq(Nat)
         /\ actor \in Actors /\ learner \in Learners /\ disk \in Disks
  BY DEF Types, Actors, Learners, Disks

(* Steps that move no transition.                                           *)
LEMMA LineStays ==
  ASSUME CollectedInv,
         actor'.out = actor.out, actor'.episode = actor.episode,
         learner'.incoming = learner.incoming, learner'.taken = learner.taken,
         learner'.buffer = learner.buffer, disk' = disk, kinds' = kinds,
         learner.taken # <<>> => learner'.pc = learner.pc
  PROVE  CollectedInv'
  BY DEF CollectedInv, TakenInTurn, LineInv

LEMMA QuietSteps ==
  ASSUME Types, CollectedInv,
         \/ ActorSignal
         \/ LearnerSignal \/ LearnerLoops \/ TransitionsTaken \/ (\E push \in BOOLEAN : Train(push))
         \/ (\E s \in Streams : Serve(s) \/ SenderEnds(s)) \/ SendWeights \/ OrphanEnds
         \/ UNCHANGED vars
  PROVE  CollectedInv'
<1> DEFINE Stays == /\ actor'.out = actor.out /\ actor'.episode = actor.episode
                    /\ learner'.incoming = learner.incoming /\ learner'.taken = learner.taken
                    /\ learner'.buffer = learner.buffer /\ disk' = disk /\ kinds' = kinds
                    /\ learner.taken # <<>> => learner'.pc = learner.pc
<1>0. actor \in Actors /\ learner \in Learners
  BY DEF Types
<1>1. CASE ActorSignal
  <2>1. Stays
    BY <1>0, <1>1 DEF ActorSignal, Actors
  <2>2. QED
    BY <2>1, LineStays
<1>2. CASE LearnerSignal
  <2>1. Stays
    BY <1>0, <1>2 DEF LearnerSignal, Learners
  <2>2. QED
    BY <2>1, LineStays
<1>3. CASE LearnerLoops
  <2>1. Stays
    BY <1>0, <1>3 DEF LearnerLoops, Loop, Learners, CollectedInv, TakenInTurn
  <2>2. QED
    BY <2>1, LineStays
<1>4. CASE TransitionsTaken
  <2>1. Stays
    BY <1>0, <1>4 DEF TransitionsTaken, Loop, Learners
  <2>2. QED
    BY <2>1, LineStays
<1>5. ASSUME NEW push \in BOOLEAN, Train(push)
      PROVE  CollectedInv'
  <2>1. learner.taken = <<>>
    BY <1>5 DEF Train, CollectedInv, TakenInTurn
  <2>2. Stays
    BY <1>0, <1>5, <2>1 DEF Train, Loop, Learners
  <2>3. QED
    BY <2>2, LineStays
<1>6. ASSUME NEW s \in Streams, Serve(s) \/ SenderEnds(s)
      PROVE  CollectedInv'
  <2>1. Stays
    BY <1>6 DEF Serve, SenderEnds, Transport
  <2>2. QED
    BY <2>1, LineStays
<1>7. CASE SendWeights
  <2>1. Stays
    BY <1>0, <1>7 DEF SendWeights, Transport, Actors, Learners
  <2>2. QED
    BY <2>1, LineStays
<1>8. CASE OrphanEnds
  <2>1. Stays
    BY <1>0, <1>8 DEF OrphanEnds, Transport, Learners
  <2>2. QED
    BY <2>1, LineStays
<1>9. CASE UNCHANGED vars
  BY <1>9, LineStays DEF vars
<1>10. QED
  BY <1>1, <1>2, <1>3, <1>4, <1>5, <1>6, <1>7, <1>8, <1>9

(* A transition is acted, and may end its episode.                          *)
LEMMA StepInLine ==
  ASSUME Types, CollectedInv, NEW kind \in Kinds, Step(kind)
  PROVE  CollectedInv'
<1> DEFINE episode == Append(actor.episode, Len(kinds) + 1)
           acts == [actor EXCEPT !.steps = @ + 1]
<1>1. kinds' = Append(kinds, kind) /\ kinds' \in Seq(Kinds) /\ learner' = learner /\ disk' = disk
  BY DEF Step, CollectedInv
<1>2. actor \in Actors
  BY DEF Types
<1>3. acts \in Actors /\ acts.out = actor.out
  BY <1>2 DEF Actors
<1>4. actor' = IF kind \in {"done", "truncated"} THEN EndEpisode(acts, episode)
                                                ELSE [acts EXCEPT !.episode = episode]
  BY DEF Step
<1> HIDE DEF acts, episode
<1>5. ToDataset(learner.buffer) \in Seq(Nat)
  BY DatasetIs DEF CollectedInv
<1>6. CASE kind \in {"done", "truncated"}
  <2>1. actor'.out = Append(actor.out, episode) /\ actor'.episode = <<>>
    BY <1>3, <1>4, <1>6 DEF EndEpisode, Actors
  <2>2. LineInv'
    BY <1>1, <1>5, <1>6, <2>1, LineEndsEpisode, Sequences DEF CollectedInv, LineInv, episode
  <2>3. QED
    BY <1>1, <2>2 DEF CollectedInv, TakenInTurn
<1>7. CASE kind \notin {"done", "truncated"}
  <2>1. actor'.out = actor.out /\ actor'.episode = episode
    BY <1>3, <1>4, <1>7 DEF Actors
  <2>2. LineInv'
    BY <1>1, <1>5, <2>1, LineActs, Sequences DEF CollectedInv, LineInv, episode
  <2>3. QED
    BY <1>1, <2>2 DEF CollectedInv, TakenInTurn
<1>8. QED
  BY <1>6, <1>7

(* An actor starts, leaves or is gone.                                      *)
LEMMA ActorInLine ==
  ASSUME Types, CollectedInv, ActorStarts \/ ActorLeaves \/ ActorEnds \/ ActorKilled
  PROVE  CollectedInv'
<1>1. /\ kinds' = kinds /\ learner' = learner /\ disk' = disk /\ actor'.episode = <<>>
      /\ actor'.out = actor.out \/ actor'.out = <<>>
  <2>1. actor \in Actors
    BY DEF Types
  <2>2. CASE ActorStarts
    BY <2>2 DEF ActorStarts, ActorDown
  <2>3. CASE ActorLeaves
    BY <2>1, <2>3 DEF ActorLeaves, Actors
  <2>4. CASE ActorEnds \/ ActorKilled
    BY <2>4 DEF ActorEnds, ActorKilled, ActorGone, ActorDown
  <2>5. QED
    BY <2>2, <2>3, <2>4
<1>2. LineInv'
  BY <1>1, LineLeaves DEF CollectedInv, LineInv
<1>3. QED
  BY <1>1, <1>2 DEF CollectedInv, TakenInTurn

(* An episode is sent.                                                      *)
LEMMA SendInLine ==
  ASSUME Types, CollectedInv, SendTransitions
  PROVE  CollectedInv'
<1>1. /\ actor.out # <<>> /\ actor'.out = Tail(actor.out) /\ actor'.episode = actor.episode
      /\ learner'.incoming = Append(learner.incoming, Head(actor.out))
      /\ learner'.taken = learner.taken /\ learner'.buffer = learner.buffer /\ learner'.pc = learner.pc
      /\ kinds' = kinds /\ disk' = disk
  BY Sequences DEF SendTransitions, Transport, Actors, Learners
<1>2. LineInv'
  BY <1>1, LineReceives, Sequences DEF CollectedInv, LineInv
<1>3. QED
  BY <1>1, <1>2 DEF CollectedInv, TakenInTurn

(* The learner is gone, with the saved buffer kept or removed.              *)
LEMMA GoneInLine ==
  ASSUME Types, CollectedInv, LearnerKilled \/ LearnerExits \/ KilledSaving
  PROVE  CollectedInv'
<1>1. /\ learner' = LearnerDown /\ actor' = actor /\ kinds' = kinds
      /\ disk'.dataset = disk.dataset \/ disk'.dataset = <<>>
  <2>1. CASE LearnerKilled \/ LearnerExits
    BY <2>1 DEF LearnerKilled, LearnerExits, LearnerGone
  <2>2. CASE KilledSaving
    <3>1. PICK n \in 1..3 : disk' = SaveStages[n]
      BY <2>2 DEF KilledSaving
    <3>2. disk'.dataset = disk.dataset \/ disk'.dataset = <<>>
      BY <3>1, StagesOfSave DEF None
    <3>3. QED
      BY <2>2, <3>2 DEF KilledSaving, LearnerGone
  <2>3. QED
    BY <2>1, <2>2
<1>2. /\ learner'.incoming = <<>> /\ learner'.taken = <<>> /\ learner'.buffer = Empty
  BY <1>1 DEF LearnerDown
<1>3. LineInv'
  BY <1>1, <1>2, LineGone, EmptyRing DEF CollectedInv, LineInv
<1>4. QED
  BY <1>1, <1>2, <1>3, EmptyRing DEF CollectedInv, TakenInTurn

(* A learner starts, empty or with the saved buffer.                        *)
LEMMA StartInLine ==
  ASSUME Types, CollectedInv, LearnerStarts
  PROVE  CollectedInv'
<1>1. /\ learner'.incoming = <<>> /\ learner'.taken = <<>> /\ actor' = actor /\ kinds' = kinds
      /\ \/ learner'.buffer = Empty /\ disk'.dataset = <<>>
         \/ /\ learner'.buffer = FromDataset(disk.dataset) /\ Len(disk.dataset) <= Capacity
            /\ disk' = disk
  BY LearnerStartsWith DEF None
<1>2. CASE learner'.buffer = Empty /\ disk'.dataset = <<>>
  <2>1. LineInv'
    BY <1>1, <1>2, LineGone, EmptyRing DEF CollectedInv, LineInv
  <2>2. QED
    BY <1>1, <1>2, <2>1, EmptyRing DEF CollectedInv, TakenInTurn
<1>3. CASE /\ learner'.buffer = FromDataset(disk.dataset) /\ Len(disk.dataset) <= Capacity
           /\ disk' = disk
  <2>1. RingSound(learner'.buffer) /\ ToDataset(learner'.buffer) = disk.dataset
    BY <1>3, LoadsWhatWasSaved, Sequences
  <2>2. LineInv'
    BY <1>1, <1>3, <2>1, LineGone DEF CollectedInv, LineInv
  <2>3. QED
    BY <1>1, <1>3, <2>1, <2>2 DEF CollectedInv, TakenInTurn
<1>4. QED
  BY <1>1, <1>2, <1>3

(* An episode is taken.                                                     *)
LEMMA TakeInLine ==
  ASSUME Types, CollectedInv, TakeTransitions
  PROVE  CollectedInv'
<1>1. /\ learner.taken = <<>> /\ learner.incoming # <<>> /\ learner.pc = "transitions"
      /\ learner'.incoming = Tail(learner.incoming) /\ learner'.taken = Head(learner.incoming)
      /\ learner'.buffer = learner.buffer /\ learner'.pc = learner.pc
      /\ actor' = actor /\ kinds' = kinds /\ disk' = disk
  BY Sequences DEF TakeTransitions, Loop, Learners
<1>2. LineInv'
  BY <1>1, LineTakes, Sequences DEF CollectedInv, LineInv
<1>3. QED
  BY <1>1, <1>2 DEF CollectedInv, TakenInTurn

(* A transition is added to the ring, or skipped for its NaN.               *)
LEMMA AddInLine ==
  ASSUME Types, CollectedInv, AddTransition
  PROVE  CollectedInv'
<1> DEFINE n == Head(learner.taken)
           stock == ToDataset(learner.buffer)
<1>1. /\ learner.taken # <<>> /\ learner'.taken = Tail(learner.taken)
      /\ learner'.buffer = IF Valid(n) THEN Add(learner.buffer, n) ELSE learner.buffer
      /\ learner'.incoming = learner.incoming /\ learner'.pc = learner.pc
      /\ actor' = actor /\ kinds' = kinds /\ disk' = disk
  BY Sequences DEF AddTransition, Loop, Learners
<1>2. n \in Nat /\ n = learner.taken[1]
  BY <1>1, Sequences, TailIs
<1>3. stock \in Seq(Nat) /\ Len(stock) = learner.buffer.size /\ RingSound(learner.buffer)
  BY DatasetIs DEF CollectedInv
<1>4. TakenInTurn'
  BY <1>1 DEF CollectedInv, TakenInTurn
<1>5. InLine(actor.out, actor.episode, learner.incoming, learner.taken, stock, disk.dataset, kinds)
  BY DEF CollectedInv, LineInv
<1> HIDE DEF n, stock
<1>6. CASE ~Valid(n)
  <2>1. kinds[learner.taken[1]] = "nan"
    BY <1>2, <1>6 DEF Valid
  <2>2. InLine(actor.out, actor.episode, learner.incoming, Tail(learner.taken), stock, disk.dataset, kinds)
    BY <1>1, <1>3, <1>5, <2>1, LineSkips, Sequences
  <2>3. LineInv'
    BY <1>1, <1>6, <2>2 DEF LineInv, stock
  <2>4. QED
    BY <1>1, <1>4, <1>6, <2>3 DEF CollectedInv
<1>7. CASE Valid(n)
  <2>1. learner'.buffer = Add(learner.buffer, n)
    BY <1>1, <1>7
  <2>2. RingSound(Add(learner.buffer, n))
    BY <1>2, <1>3, AddAppends
  <2>3. InLine(actor.out, actor.episode, learner.incoming, Tail(learner.taken), ToDataset(Add(learner.buffer, n)),
               disk.dataset, kinds)
    <3>1. CASE Full(learner.buffer)
      <4>1. ToDataset(Add(learner.buffer, n)) = Append(Tail(stock), n)
        BY <1>2, <1>3, <3>1, AddAppends DEF stock
      <4>2. stock # <<>>
        BY <1>3, <3>1, EmptyLength, CapacityAssumption DEF Full
      <4>3. InLine(actor.out, actor.episode, learner.incoming, Tail(learner.taken),
                   Append(Tail(stock), learner.taken[1]), disk.dataset, kinds)
        BY <1>1, <1>3, <1>5, <4>2, LineOverwrites, Sequences
      <4>4. QED
        BY <1>2, <4>1, <4>3
    <3>2. CASE ~Full(learner.buffer)
      <4>1. ToDataset(Add(learner.buffer, n)) = Append(stock, n)
        BY <1>2, <1>3, <3>2, AddAppends DEF stock
      <4>2. InLine(actor.out, actor.episode, learner.incoming, Tail(learner.taken), Append(stock, learner.taken[1]),
                   disk.dataset, kinds)
        BY <1>1, <1>3, <1>5, LineAdds, Sequences
      <4>3. QED
        BY <1>2, <4>1, <4>2
    <3>3. QED
      BY <3>1, <3>2
  <2>4. LineInv'
    BY <1>1, <2>1, <2>3 DEF LineInv
  <2>5. QED
    BY <1>1, <1>4, <2>1, <2>2, <2>4 DEF CollectedInv
<1>8. QED
  BY <1>6, <1>7

(* The ring is saved, with no episode half taken.                           *)
LEMMA SaveInLine ==
  ASSUME Types, CollectedInv, Save
  PROVE  CollectedInv'
<1>1. /\ learner.taken = <<>> /\ learner'.taken = learner.taken /\ learner'.incoming = learner.incoming
      /\ learner'.buffer = learner.buffer /\ actor' = actor /\ kinds' = kinds
  BY Sequences DEF Save, Learners, CollectedInv, TakenInTurn
<1>2. disk'.dataset = ToDataset(learner.buffer)
  BY StagesOfSave DEF Save
<1>3. LineInv'
  BY <1>1, <1>2, LineSaves DEF CollectedInv, LineInv
<1>4. QED
  BY <1>1, <1>3 DEF CollectedInv, TakenInTurn

(* Every step keeps the line.                                               *)
LEMMA CollectedKept ==
  ASSUME Types, CollectedInv, [Next]_vars
  PROVE  CollectedInv'
<1>1. CASE UNCHANGED vars
  BY <1>1, QuietSteps
<1>2. CASE Next
  BY <1>2, QuietSteps, StepInLine, ActorInLine, SendInLine, GoneInLine, StartInLine, TakeInLine, AddInLine,
     SaveInLine DEF Next, Acts, Faults, Learns, Sends
<1>3. QED
  BY <1>1, <1>2

-----------------------------------------------------------------------------
(* Workers: those of the calls, and of the handlers left behind.            *)
Running(c) == {s \in Streams : c[s] = "running"}

(* Running handlers can be counted.                                         *)
LEMMA RunningCounts ==
  ASSUME NEW c
  PROVE  /\ IsFiniteSet(Running(c)) /\ Cardinality(Running(c)) \in Nat
         /\ "weights" \in Running(c) => Cardinality(Running(c)) >= 1
<1>1. IsFiniteSet(Streams)
  <2>1. IsFiniteSet({"transitions"})
    BY FS_Singleton
  <2>2. IsFiniteSet({"transitions"} \cup {"messages"})
    BY <2>1, FS_AddElement
  <2>3. IsFiniteSet({"transitions"} \cup {"messages"} \cup {"weights"})
    BY <2>2, FS_AddElement
  <2>4. Streams = {"transitions"} \cup {"messages"} \cup {"weights"}
    BY DEF Streams
  <2>5. QED
    BY <2>3, <2>4
<1>2. IsFiniteSet(Running(c))
  BY <1>1, FS_Subset DEF Running
<1>3. Cardinality(Running(c)) \in Nat
  BY <1>2, FS_CardinalityType
<1>4. "weights" \in Running(c) => Cardinality(Running(c)) # 0
  BY <1>2, FS_EmptySet
<1>5. QED
  BY <1>2, <1>3, <1>4

Workers(held, c) == held \in Nat /\ held + Cardinality(Running(c)) <= MaxWorkers

(* No more handlers run, or one more where a worker was free.               *)
LEMMA WorkersLeft ==
  ASSUME NEW held, NEW c, NEW c2, Workers(held, c), Running(c2) \subseteq Running(c)
  PROVE  Workers(held, c2)
<1>1. Cardinality(Running(c2)) <= Cardinality(Running(c))
  BY RunningCounts, FS_Subset
<1>2. QED
  BY <1>1, RunningCounts, RLAssumption DEF Workers

LEMMA WorkerTaken ==
  ASSUME NEW held, NEW c, NEW c2, NEW s, Workers(held, c), Running(c2) \subseteq Running(c) \cup {s},
         held + Cardinality(Running(c)) < MaxWorkers
  PROVE  Workers(held, c2)
<1>1. /\ IsFiniteSet(Running(c) \cup {s})
      /\ Cardinality(Running(c) \cup {s}) \in {Cardinality(Running(c)), Cardinality(Running(c)) + 1}
  BY RunningCounts, FS_AddElement
<1>2. Cardinality(Running(c2)) <= Cardinality(Running(c) \cup {s})
  BY <1>1, FS_Subset
<1>3. Cardinality(Running(c)) \in Nat /\ Cardinality(Running(c2)) \in Nat
  BY RunningCounts
<1>4. QED
  BY <1>1, <1>2, <1>3, RLAssumption DEF Workers

(* A handler left behind keeps its worker; an orphan's end frees it.        *)
LEMMA WorkerLeftBehind ==
  ASSUME NEW held, NEW c, NEW c2, Workers(held, c), "weights" \in Running(c),
         Running(c2) \subseteq Running(c) \ {"weights"}
  PROVE  Workers(held + 1, c2)
<1>1. /\ IsFiniteSet(Running(c) \ {"weights"})
      /\ Cardinality(Running(c) \ {"weights"}) = Cardinality(Running(c)) - 1
  BY RunningCounts, FS_RemoveElement
<1>2. Cardinality(Running(c2)) <= Cardinality(Running(c) \ {"weights"})
  BY <1>1, FS_Subset
<1>3. Cardinality(Running(c)) \in Nat /\ Cardinality(Running(c2)) \in Nat
  BY RunningCounts
<1>4. QED
  BY <1>1, <1>2, <1>3, RLAssumption DEF Workers

LEMMA WorkerFreed ==
  ASSUME NEW held, NEW c, Workers(held, c), held > 0
  PROVE  Workers(held - 1, c)
  BY RunningCounts, RLAssumption DEF Workers

WorkersInv == Workers(orphans, calls)

LEMMA BusyIs == Busy = orphans + Cardinality(Running(calls))
  BY DEF Busy, Running

LEMMA GoneWorkers ==
  ASSUME Types, WorkersInv, ActorGone
  PROVE  WorkersInv'
<1>1. Running(calls') = {}
  BY DEF ActorGone, NoCalls, Running
<1>2. "weights" \in Running(calls) <=> calls["weights"] = "running"
  BY DEF Running, Streams
<1>3. CASE calls["weights"] = "running"
  <2>1. orphans' = orphans + 1
    BY <1>3 DEF ActorGone
  <2>2. Running(calls') \subseteq Running(calls) \ {"weights"}
    BY <1>1
  <2>3. Workers(orphans + 1, calls')
    BY <1>2, <1>3, <2>2, WorkerLeftBehind DEF WorkersInv
  <2>4. QED
    BY <2>1, <2>3 DEF WorkersInv
<1>4. CASE calls["weights"] # "running"
  <2>1. orphans' = orphans
    BY <1>4 DEF ActorGone, WorkersInv, Workers
  <2>2. Workers(orphans, calls')
    BY <1>1, WorkersLeft DEF WorkersInv
  <2>3. QED
    BY <2>1, <2>2 DEF WorkersInv
<1>5. QED
  BY <1>3, <1>4

LEMMA WorkersKept ==
  ASSUME Types, WorkersInv, [Next]_vars
  PROVE  WorkersInv'
<1>0. calls \in [Streams -> {"none", "queued", "running", "over"}]
  BY DEF Types
<1>1. CASE \/ Acts \/ ActorLeaves \/ SendTransitions \/ LearnerStarts \/ LearnerSignal
           \/ LearnerLoops \/ TakeTransitions \/ AddTransition \/ TransitionsTaken \/ Save
           \/ (\E push \in BOOLEAN : Train(push)) \/ UNCHANGED vars
  <2>1. calls' = calls /\ orphans' = orphans
    BY <1>1 DEF Acts, Step, ActorSignal, ActorLeaves, SendTransitions, Transport, LearnerStarts, LearnerSignal,
                LearnerLoops, TakeTransitions, AddTransition, TransitionsTaken, Save, Train, Loop, vars
  <2>2. QED
    BY <2>1 DEF WorkersInv
<1>2. CASE ActorStarts
  <2>1. Running(calls') = {} /\ orphans' = orphans
    BY <1>2 DEF ActorStarts, Running
  <2>2. QED
    BY <2>1, WorkersLeft DEF WorkersInv
<1>3. CASE ActorEnds \/ ActorKilled
  BY <1>3, GoneWorkers DEF ActorEnds, ActorKilled
<1>4. CASE LearnerKilled \/ LearnerExits \/ KilledSaving
  <2>1. Running(calls') = {} /\ orphans' = 0
    BY <1>4 DEF LearnerKilled, LearnerExits, KilledSaving, LearnerGone, Running
  <2>2. Workers(0, calls)
    BY RunningCounts, RLAssumption DEF WorkersInv, Workers
  <2>3. QED
    BY <2>1, <2>2, WorkersLeft DEF WorkersInv
<1>5. ASSUME NEW s \in Streams, Serve(s)
      PROVE  WorkersInv'
  <2>1. /\ orphans' = orphans /\ calls' = [calls EXCEPT ![s] = "running"]
        /\ orphans + Cardinality(Running(calls)) < MaxWorkers
    BY <1>5, BusyIs DEF Serve, FreeWorker
  <2>2. Running(calls') \subseteq Running(calls) \cup {s}
    BY <1>0, <2>1 DEF Running
  <2>3. QED
    BY <2>1, <2>2, WorkerTaken DEF WorkersInv
<1>6. ASSUME NEW s \in Streams, SenderEnds(s)
      PROVE  WorkersInv'
  <2>1. orphans' = orphans /\ calls' = [calls EXCEPT ![s] = "over"]
    BY <1>6 DEF SenderEnds
  <2>2. Running(calls') \subseteq Running(calls)
    BY <1>0, <2>1 DEF Running
  <2>3. QED
    BY <2>1, <2>2, WorkersLeft DEF WorkersInv
<1>7. CASE SendWeights
  <2>1. CASE actor.shutdown \/ Closed
    <3>1. calls["weights"] = "running" /\ calls' = [calls EXCEPT !["weights"] = "over"] /\ orphans' = orphans + 1
      BY <1>7, <2>1 DEF SendWeights
    <3>2. "weights" \in Running(calls) /\ Running(calls') \subseteq Running(calls) \ {"weights"}
      BY <1>0, <3>1 DEF Running, Streams
    <3>3. QED
      BY <3>1, <3>2, WorkerLeftBehind DEF WorkersInv
  <2>2. CASE ~(actor.shutdown \/ Closed)
    BY <1>7, <2>2 DEF SendWeights, WorkersInv
  <2>3. QED
    BY <2>1, <2>2
<1>8. CASE OrphanEnds
  <2>1. orphans > 0 /\ orphans' = orphans - 1 /\ calls' = calls
    BY <1>8 DEF OrphanEnds
  <2>2. QED
    BY <2>1, WorkerFreed DEF WorkersInv
<1>9. QED
  BY <1>1, <1>2, <1>3, <1>4, <1>5, <1>6, <1>7, <1>8 DEF Next, Faults, Learns, Sends

-----------------------------------------------------------------------------
(* Counters stay at their bounds, and weights are of a step that was made.  *)
NumbersInv ==
  /\ Len(kinds) <= MaxSteps
  /\ actor.steps <= OnlineSteps
  /\ learner.step <= MaxTraining /\ learner.trained <= learner.step
  /\ disk.checkpoint # None => disk.checkpoint[1] <= MaxTraining
  /\ torn \in {"none", "link", "buffer"}

WeightsInv ==
  /\ actor.weights <= MaxTraining
  /\ \A i \in 1..Len(actor.inbox) : actor.inbox[i] <= MaxTraining
  /\ \A i \in 1..Len(learner.weights) : learner.weights[i] <= MaxTraining

SlotsInv == \A i \in Slots : learner.buffer.slots[i] <= MaxSteps

(* Every slot holds a transition that was acted.                            *)
LEMMA SlotsKept ==
  ASSUME Types, CollectedInv, NumbersInv, SlotsInv, [Next]_vars
  PROVE  SlotsInv'
<1>0. learner \in Learners /\ learner.buffer \in Buffers /\ MaxSteps \in Nat
  BY RLAssumption DEF Types, Learners
<1>e. \A i \in Slots : Empty.slots[i] <= MaxSteps
  BY <1>0 DEF Empty
<1>1. CASE \/ ActorStarts \/ Acts \/ ActorLeaves \/ ActorEnds \/ ActorKilled \/ Sends
           \/ UNCHANGED vars
  BY <1>1, OthersLeaveLearner DEF SlotsInv
<1>2. CASE \/ LearnerSignal \/ LearnerLoops \/ TakeTransitions \/ TransitionsTaken \/ Save
           \/ \E push \in BOOLEAN : Train(push)
  <2>1. learner'.buffer = learner.buffer
    BY <1>0, <1>2 DEF LearnerSignal, LearnerLoops, TakeTransitions, TransitionsTaken, Save, Train, Learners
  <2>2. QED
    BY <2>1 DEF SlotsInv
<1>3. CASE LearnerKilled \/ LearnerExits \/ KilledSaving
  <2>1. learner'.buffer = Empty
    BY <1>3 DEF LearnerKilled, LearnerExits, KilledSaving, LearnerGone, LearnerDown
  <2>2. QED
    BY <1>e, <2>1 DEF SlotsInv
<1>4. CASE LearnerStarts
  <2>1. \/ learner'.buffer = Empty
        \/ learner'.buffer = FromDataset(disk.dataset) /\ Len(disk.dataset) <= Capacity
    BY <1>4, LearnerStartsWith
  <2>2. CASE learner'.buffer = FromDataset(disk.dataset)
    <3>1. \A i \in 1..Len(disk.dataset) : disk.dataset[i] \in 1..Len(kinds)
      BY DEF CollectedInv, LineInv, InLine, SavedLine, Stored, Acted
    <3>2. disk.dataset \in Seq(Nat) /\ Len(kinds) \in Nat /\ Len(kinds) <= MaxSteps
      BY Sequences DEF CollectedInv, NumbersInv
    <3>3. \A i \in Slots : i < Len(disk.dataset) => disk.dataset[i + 1] <= MaxSteps
      <4>1. SUFFICES ASSUME NEW i \in Slots, i < Len(disk.dataset) PROVE disk.dataset[i + 1] <= MaxSteps
        OBVIOUS
      <4>2. i + 1 \in 1..Len(disk.dataset)
        BY <3>2, <4>1, CapacityAssumption DEF Slots
      <4>3. disk.dataset[i + 1] \in 1..Len(kinds)
        BY <3>1, <4>2
      <4>4. QED
        BY <1>0, <3>2, <4>3
    <3>4. \A i \in Slots : learner'.buffer.slots[i] = IF i < Len(disk.dataset) THEN disk.dataset[i + 1] ELSE 0
      BY <2>2 DEF FromDataset
    <3>5. QED
      BY <1>0, <3>3, <3>4 DEF SlotsInv
  <2>3. QED
    BY <1>e, <2>1, <2>2 DEF SlotsInv
<1>5. CASE AddTransition
  <2> DEFINE n == Head(learner.taken)
  <2>1. learner.taken # <<>> /\ learner'.buffer = IF Valid(n) THEN Add(learner.buffer, n) ELSE learner.buffer
    BY <1>0, <1>5 DEF AddTransition, Learners
  <2>2. n \in 1..Len(kinds)
    BY <2>1, HeadComplete, Sequences DEF CollectedInv, LineInv, InLine, TakenLine
  <2>3. n <= MaxSteps
    BY <1>0, <2>2 DEF CollectedInv, NumbersInv
  <2> HIDE DEF n
  <2>4. learner'.buffer.slots \in {learner.buffer.slots, [learner.buffer.slots EXCEPT ![learner.buffer.position] = n]}
    BY <2>1 DEF Add
  <2>5. learner.buffer.slots \in [Slots -> Nat]
    BY <1>0 DEF Buffers
  <2>6. QED
    BY <2>3, <2>4, <2>5 DEF SlotsInv
<1>6. QED
  BY <1>1, <1>2, <1>3, <1>4, <1>5 DEF Next, Faults, Learns

(* Every step keeps the bounds.                                             *)
LEMMA NumbersKept ==
  ASSUME Types, CollectedInv, NumbersInv, [Next]_vars
  PROVE  NumbersInv'
<1>0. /\ actor \in Actors /\ learner \in Learners /\ disk \in Disks
      /\ learner.step \in Nat /\ learner.trained \in Nat /\ MaxTraining \in Nat /\ actor.steps \in Nat
      /\ OnlineSteps \in Nat /\ MaxSteps \in Nat
  BY RLAssumption DEF Types, Actors, Learners
<1>1. CASE UNCHANGED vars
  BY <1>1 DEF vars, NumbersInv
<1>2. CASE ActorStarts \/ ActorLeaves \/ ActorEnds \/ ActorKilled \/ ActorSignal
  <2>1. actor'.steps \in {0, actor.steps}
    <3>1. CASE ActorStarts
      BY <3>1 DEF ActorStarts, ActorDown
    <3>2. CASE ActorEnds \/ ActorKilled
      BY <3>2 DEF ActorEnds, ActorKilled, ActorGone, ActorDown
    <3>3. CASE ActorLeaves \/ ActorSignal
      BY <1>0, <3>3 DEF ActorLeaves, ActorSignal, Actors
    <3>4. QED
      BY <1>2, <3>1, <3>2, <3>3
  <2>2. learner' = learner /\ disk' = disk /\ kinds' = kinds /\ torn' = torn
    BY <1>2 DEF ActorStarts, ActorLeaves, ActorEnds, ActorKilled, ActorSignal
  <2>3. QED
    BY <1>0, <2>1, <2>2 DEF NumbersInv
<1>3. ASSUME NEW kind \in Kinds, Step(kind)
      PROVE  NumbersInv'
  <2>1. kinds' = Append(kinds, kind) /\ actor.steps < OnlineSteps /\ Len(kinds) < MaxSteps
        /\ learner' = learner /\ disk' = disk /\ torn' = torn
    BY <1>3 DEF Step
  <2>2. Len(kinds') <= MaxSteps
    BY <1>0, <2>1 DEF CollectedInv
  <2>3. actor'.steps = actor.steps + 1
    BY <1>0, <1>3 DEF Step, EndEpisode, Actors
  <2>4. QED
    BY <1>0, <2>1, <2>2, <2>3 DEF NumbersInv
<1>4. CASE \/ (\E s \in Streams : Serve(s) \/ SenderEnds(s)) \/ SendTransitions \/ SendWeights \/ OrphanEnds
           \/ LearnerSignal \/ LearnerLoops \/ TakeTransitions \/ AddTransition \/ TransitionsTaken
  <2>1. /\ learner'.step = learner.step /\ learner'.trained = learner.trained
        /\ actor'.steps = actor.steps
        /\ disk' = disk /\ kinds' = kinds /\ torn' = torn
    <3>1. CASE SendTransitions \/ SendWeights \/ OrphanEnds
      BY <1>0, <3>1 DEF SendTransitions, SendWeights, OrphanEnds, Transport, Actors, Learners
    <3>2. CASE \E s \in Streams : Serve(s) \/ SenderEnds(s)
      BY <3>2 DEF Serve, SenderEnds, Transport
    <3>3. CASE LearnerSignal \/ LearnerLoops \/ TakeTransitions \/ AddTransition \/ TransitionsTaken
      BY <1>0, <3>3 DEF LearnerSignal, LearnerLoops, TakeTransitions, AddTransition, TransitionsTaken, Loop,
                        Learners
    <3>4. QED
      BY <1>4, <3>1, <3>2, <3>3
  <2>2. QED
    BY <2>1 DEF NumbersInv
<1>5. CASE LearnerKilled \/ LearnerExits
  <2>1. /\ learner'.step = 0 /\ learner'.trained = 0
        /\ actor' = actor /\ disk' = disk /\ kinds' = kinds /\ torn' = torn
    BY <1>5 DEF LearnerKilled, LearnerExits, LearnerGone, LearnerDown
  <2>2. QED
    BY <1>0, <2>1 DEF NumbersInv
<1>6. CASE LearnerStarts
  <2>1. /\ actor' = actor /\ kinds' = kinds /\ learner'.trained = 0
        /\ \/ /\ learner'.step = 0
              /\ disk'.checkpoint = None /\ torn' = "none"
           \/ /\ disk.checkpoint # None /\ learner'.step \in {disk.checkpoint[1], 0}
              /\ disk' = disk /\ torn' = torn
    BY <1>6, LearnerStartsWith
  <2>2. disk.checkpoint # None => disk.checkpoint[1] \in Nat
    BY <1>0 DEF Disks, None
  <2>3. QED
    BY <1>0, <2>1, <2>2 DEF NumbersInv
<1>7. ASSUME NEW push \in BOOLEAN, Train(push)
      PROVE  NumbersInv'
  <2>1. /\ learner'.step = Counted(learner.step) /\ learner'.trained = Counted(learner.trained)
        /\ actor' = actor /\ disk' = disk /\ kinds' = kinds /\ torn' = torn
    BY <1>0, <1>7 DEF Train, Loop, Learners
  <2>2. Counted(learner.step) <= MaxTraining /\ Counted(learner.trained) <= Counted(learner.step)
    BY <1>0 DEF Counted, NumbersInv
  <2>3. QED
    BY <2>1, <2>2 DEF NumbersInv
<1>8. CASE Save \/ KilledSaving
  <2>1. disk'.checkpoint = None \/ disk'.checkpoint = <<learner.step>>
    <3>1. PICK n \in 1..4 : disk' = SaveStages[n]
      BY <1>8 DEF Save, KilledSaving
    <3>2. QED
      BY <3>1, StagesOfSave
  <2>2. /\ torn' \in {"none", "link", "buffer"} /\ actor' = actor /\ kinds' = kinds
    BY <1>8 DEF Save, KilledSaving
  <2>3. \/ learner'.step = 0 /\ learner'.trained = 0
        \/ learner'.step = learner.step /\ learner'.trained = learner.trained
    BY <1>0, <1>8 DEF Save, KilledSaving, LearnerGone, LearnerDown, Learners
  <2>4. disk'.checkpoint # None => disk'.checkpoint[1] <= MaxTraining
    BY <1>0, <2>1 DEF NumbersInv
  <2>5. QED
    BY <1>0, <2>2, <2>3, <2>4 DEF NumbersInv
<1>9. QED
  BY <1>1, <1>2, <1>3, <1>4, <1>5, <1>6, <1>7, <1>8 DEF Next, Acts, Faults, Learns, Sends

LEMMA WeightsBounded ==
  ASSUME Types, NumbersInv, WeightsInv, [Next]_vars
  PROVE  WeightsInv'
<1>0. /\ actor \in Actors /\ learner \in Learners /\ MaxTraining \in Nat
      /\ actor.weights \in Nat /\ actor.inbox \in Seq(Nat) /\ learner.weights \in Seq(Nat)
      /\ learner.trained \in Nat /\ learner.step \in Nat
  BY RLAssumption DEF Types, Actors, Learners
<1>n. \A i \in 1..Len(<<>>) : FALSE
  OBVIOUS
<1>w. \A w \in Nat : \A i \in 1..Len(<<w>>) : <<w>>[i] = w
  OBVIOUS
<1>1. ASSUME actor'.weights = actor.weights, actor'.inbox = actor.inbox, learner'.weights = learner.weights
      PROVE  WeightsInv'
  BY <1>1 DEF WeightsInv
<1>2. CASE UNCHANGED vars
  BY <1>1, <1>2 DEF vars
<1>3. CASE ActorSignal \/ ActorLeaves
  <2>1. actor'.weights = actor.weights /\ actor'.inbox = actor.inbox /\ learner' = learner
    BY <1>0, <1>3 DEF ActorSignal, ActorLeaves, Actors
  <2>2. QED
    BY <1>1, <2>1
<1>4. CASE ActorStarts \/ ActorEnds \/ ActorKilled
  <2>1. actor'.weights = 0 /\ actor'.inbox = <<>> /\ learner' = learner
    <3>1. CASE ActorStarts
      BY <3>1 DEF ActorStarts, ActorDown
    <3>2. CASE ActorEnds \/ ActorKilled
      BY <3>2 DEF ActorEnds, ActorKilled, ActorGone, ActorDown
    <3>3. QED
      BY <1>4, <3>1, <3>2
  <2>2. QED
    BY <1>0, <1>n, <2>1 DEF WeightsInv
<1>5. ASSUME NEW kind \in Kinds, Step(kind)
      PROVE  WeightsInv'
  <2>1. /\ \/ actor'.weights = actor.weights /\ actor'.inbox = actor.inbox
           \/ /\ actor'.inbox = <<>>
              /\ actor'.weights = IF actor.inbox = <<>> THEN actor.weights ELSE actor.inbox[1]
        /\ learner' = learner
    BY <1>0, <1>5 DEF Step, EndEpisode, Actors
  <2>2. actor.inbox # <<>> => 1 \in 1..Len(actor.inbox)
    BY <1>0
  <2>3. QED
    BY <1>0, <1>1, <1>n, <2>1, <2>2 DEF WeightsInv
<1>6. CASE \/ (\E s \in Streams : Serve(s) \/ SenderEnds(s)) \/ SendTransitions
           \/ LearnerSignal \/ LearnerLoops \/ TakeTransitions \/ AddTransition \/ TransitionsTaken \/ Save
  <2>1. actor'.weights = actor.weights /\ actor'.inbox = actor.inbox /\ learner'.weights = learner.weights
    <3>1. CASE SendTransitions
      BY <1>0, <3>1 DEF SendTransitions, Transport, Actors, Learners
    <3>2. CASE \E s \in Streams : Serve(s) \/ SenderEnds(s)
      BY <3>2 DEF Serve, SenderEnds, Transport
    <3>3. CASE LearnerSignal \/ LearnerLoops \/ TakeTransitions \/ AddTransition \/ TransitionsTaken \/ Save
      BY <1>0, <3>3 DEF LearnerSignal, LearnerLoops, TakeTransitions, AddTransition, TransitionsTaken, Save, Loop,
                        Learners
    <3>4. QED
      BY <1>6, <3>1, <3>2, <3>3
  <2>2. QED
    BY <1>1, <2>1
<1>7. CASE SendWeights \/ OrphanEnds
  <2>1. /\ learner'.weights = <<>> /\ actor'.weights = actor.weights
        /\ actor'.inbox = actor.inbox \/ actor'.inbox = learner.weights
    BY <1>0, <1>7 DEF SendWeights, OrphanEnds, Actors, Learners
  <2>2. QED
    BY <1>n, <2>1 DEF WeightsInv
<1>8. CASE LearnerKilled \/ LearnerExits \/ KilledSaving \/ LearnerStarts
  <2>1. actor' = actor /\ (learner'.weights = <<>> \/ learner'.weights = <<0>>)
    <3>1. CASE LearnerKilled \/ LearnerExits \/ KilledSaving
      BY <3>1 DEF LearnerKilled, LearnerExits, KilledSaving, LearnerGone, LearnerDown
    <3>2. CASE LearnerStarts
      BY <3>2, LearnerStartsWith
    <3>3. QED
      BY <1>8, <3>1, <3>2
  <2>2. \A i \in 1..Len(learner'.weights) : learner'.weights[i] <= MaxTraining
    BY <1>0, <1>n, <1>w, <2>1
  <2>3. QED
    BY <2>1, <2>2 DEF WeightsInv
<1>9. ASSUME NEW push \in BOOLEAN, Train(push)
      PROVE  WeightsInv'
  <2> DEFINE trained == Counted(learner.trained)
  <2>1. actor' = actor /\ learner'.weights = IF push THEN <<trained>> ELSE learner.weights
    BY <1>0, <1>9 DEF Train, Loop, Pushed, Learners
  <2>2. trained \in Nat /\ trained <= MaxTraining
    BY <1>0 DEF Counted, NumbersInv
  <2> HIDE DEF trained
  <2>3. push => \A i \in 1..Len(learner'.weights) : learner'.weights[i] <= MaxTraining
    BY <1>w, <2>1, <2>2
  <2>4. QED
    BY <2>1, <2>3 DEF WeightsInv
<1>10. QED
  BY <1>2, <1>3, <1>4, <1>5, <1>6, <1>7, <1>8, <1>9 DEF Next, Acts, Faults, Learns, Sends

-----------------------------------------------------------------------------
SamplesInv == Types /\ CollectedInv /\ NumbersInv /\ WeightsInv /\ SlotsInv /\ WorkersInv

(* The inductive invariant of the samples.                                  *)
LEMMA SamplesInvHolds == Spec => []SamplesInv
<1>1. Init => SamplesInv
  <2>1. ASSUME Init
        PROVE  SamplesInv
    <3>1. Types
      BY <2>1, EmptyIsBuffer, EmptySeqs
      DEF Init, Types, Disks, Actors, Learners, ActorDown, LearnerDown, NoCalls, None, Streams
    <3>2. CollectedInv
      <4>1. /\ actor.out = <<>> /\ actor.episode = <<>> /\ learner.incoming = <<>> /\ learner.taken = <<>>
            /\ learner.buffer = Empty /\ disk.dataset = <<>> /\ kinds = <<>>
        BY <2>1 DEF Init, ActorDown, LearnerDown, None
      <4>2. <<>> \in Seq(Kinds)
        OBVIOUS
      <4>3. QED
        BY <4>1, <4>2, EmptyRing, NothingInLine DEF CollectedInv, TakenInTurn, LineInv
    <3>3. NumbersInv /\ WeightsInv /\ SlotsInv
      <4>1. Len(<<>>) = 0 /\ \A i \in 1..Len(<<>>) : FALSE
        OBVIOUS
      <4>2. QED
        BY <2>1, <4>1, RLAssumption
        DEF Init, ActorDown, LearnerDown, None, Empty, NumbersInv, WeightsInv, SlotsInv
    <3>4. WorkersInv
      <4>1. Running(calls) = {} /\ orphans = 0
        BY <2>1 DEF Init, NoCalls, Running
      <4>2. QED
        BY <4>1, FS_EmptySet, RLAssumption DEF WorkersInv, Workers
    <3>5. QED
      BY <3>1, <3>2, <3>3, <3>4 DEF SamplesInv
  <2>2. QED
    BY <2>1
<1>2. SamplesInv /\ [Next]_vars => SamplesInv'
  BY TypesKept, CollectedKept, NumbersKept, WeightsBounded, SlotsKept, WorkersKept DEF SamplesInv
<1>3. QED
  BY <1>1, <1>2, PTL DEF Spec

(* Every value is of its type and within its bound, and no more handlers    *)
(* run than the server has workers, those of dead actors included           *)
(* (learner_service.py: MAX_WORKERS; actor.py, learner.py, buffer.py).      *)
THEOREM ValuesTyped == Spec => []TypeOK
<1>1. SamplesInv => TypeOK
  <2>1. SUFFICES ASSUME SamplesInv PROVE TypeOK
    OBVIOUS
  <2>2. /\ actor \in Actors /\ learner \in Learners /\ learner.buffer \in Buffers
        /\ calls \in [Streams -> {"none", "queued", "running", "over"}]
    BY <2>1 DEF SamplesInv, Types, Learners
  <2>3. /\ actor.pc \in {"down", "acting", "joining"}
        /\ {actor.threads, actor.shutdown, learner.shutdown} \subseteq BOOLEAN
        /\ learner.pc \in {"down", "top", "transitions", "train", "save"}
    BY <2>2 DEF Actors, Learners
  <2>4. /\ actor.steps \in 0..OnlineSteps /\ actor.weights \in 0..MaxTraining
        /\ learner.step \in 0..MaxTraining /\ learner.trained \in 0..learner.step
        /\ torn \in {"none", "link", "buffer"}
    BY <2>1, <2>2, RLAssumption DEF SamplesInv, NumbersInv, WeightsInv, Actors, Learners
  <2>5. \A w \in Range(actor.inbox) \union Range(learner.weights) : w \in 0..MaxTraining
    <3>1. actor.inbox \in Seq(Nat) /\ learner.weights \in Seq(Nat) /\ MaxTraining \in Nat
      BY <2>2, RLAssumption DEF Actors, Learners
    <3>2. /\ Range(actor.inbox) = {actor.inbox[i] : i \in 1..Len(actor.inbox)}
          /\ Range(learner.weights) = {learner.weights[i] : i \in 1..Len(learner.weights)}
      BY <3>1 DEF Range
    <3>3. QED
      BY <2>1, <3>1, <3>2 DEF SamplesInv, WeightsInv
  <2>6. Busy <= MaxWorkers
    BY <2>1, BusyIs DEF SamplesInv, WorkersInv, Workers
  <2>7. learner.buffer.slots \in [Slots -> 0..MaxSteps]
    BY <2>1, <2>2, RLAssumption DEF SamplesInv, SlotsInv, Buffers
  <2>8. learner.buffer.position \in Slots /\ learner.buffer.size \in 0..Capacity
    BY <2>1, <2>2 DEF SamplesInv, CollectedInv, RingSound, Buffers
  <2>9. QED
    BY <2>2, <2>3, <2>4, <2>5, <2>6, <2>7, <2>8 DEF TypeOK
<1>2. QED
  BY <1>1, SamplesInvHolds, PTL

(* What training samples: every transition once, in the order they were     *)
(* acted, with the state that followed it, through a ring that overwrites   *)
(* its oldest, episodes on their way, killed processes and a resumed        *)
(* learner (buffer.py: add, sample, to_lerobot_dataset,                     *)
(* from_lerobot_dataset; learner.py: process_transitions).                  *)
THEOREM SamplesAreSound == Spec => []SamplesSound
<1>1. SamplesInv => InOrderOnce
  <2>1. SUFFICES ASSUME SamplesInv PROVE InOrderOnce
    OBVIOUS
  <2>2. ToDataset(learner.buffer) \in Seq(Nat)
    BY <2>1, DatasetIs DEF SamplesInv, CollectedInv
  <2>3. Line \in Seq(Nat) /\ Rises(Line)
    BY <2>1, <2>2, LineRises, Sequences DEF SamplesInv, CollectedInv, LineInv, Line
  <2>4. DOMAIN Line = 1..Len(Line)
    BY <2>3
  <2>5. QED
    BY <2>3, <2>4 DEF Rises, InOrderOnce
<1>2. SamplesInv => NextStateFollows
  <2>1. SUFFICES ASSUME SamplesInv, NEW i \in Sampled(learner.buffer),
                        ~(Full(learner.buffer) /\ i = Newest(learner.buffer))
                 PROVE  Follows(learner.buffer.slots[i], learner.buffer.slots[NextSlot(i)], kinds)
    BY DEF NextStateFollows, Follows, EndsAt
  <2>2. RingSound(learner.buffer) /\ Stored(ToDataset(learner.buffer), kinds)
    BY <2>1 DEF SamplesInv, CollectedInv, LineInv, InLine, StockLine
  <2>3. QED
    BY <2>1, <2>2, SampledFollow
<1>3. QED
  BY <1>1, <1>2, ValuesTyped, SamplesInvHolds, PTL DEF SamplesSound
=============================================================================
