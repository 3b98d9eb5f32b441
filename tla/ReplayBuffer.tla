------------------------------ MODULE ReplayBuffer ------------------------------
(***************************************************************************)
(* The learner's ring of transitions (rl/buffer.py), with optimize_memory  *)
(* as the learner creates it: a slot keeps no next_state, sample takes the *)
(* state of the slot after it.  A transition is its number; what is stored *)
(* with it is a function of that number.                                   *)
(***************************************************************************)
EXTENDS Naturals, Sequences

CONSTANT Capacity       \* online_buffer_capacity

ASSUME CapacityAssumption == Capacity \in Nat \ {0}

Slots == 0..(Capacity - 1)

Empty == [slots |-> [i \in Slots |-> 0], position |-> 0, size |-> 0]

Full(buffer) == buffer.size = Capacity

Add(buffer, n) ==
    [slots |-> [buffer.slots EXCEPT ![buffer.position] = n],
     position |-> (buffer.position + 1) % Capacity,
     size |-> IF Full(buffer) THEN Capacity ELSE buffer.size + 1]

\* A mutant: an unfilled buffer is sampled up to its last slot.
SampledEverywhere(buffer) == {i \in Slots : i < buffer.size}

\* The slots sample may draw: all of a full buffer, else all but the last, whose next
\* state is not written yet.
Sampled(buffer) ==
    {i \in Slots : i < (IF Full(buffer) THEN buffer.size ELSE buffer.size - 1)}

\* The slot whose state is the next state of slot i.
NextSlot(i) == (i + 1) % Capacity

\* The slot written last.
Newest(buffer) == (buffer.position + Capacity - 1) % Capacity

\* to_lerobot_dataset: the transitions in the order they were added.
ToDataset(buffer) ==
    [k \in 1..buffer.size |->
        buffer.slots[(buffer.position + Capacity - buffer.size + k - 1) % Capacity]]

\* from_lerobot_dataset: they are added in that order; a dataset longer than the
\* capacity is refused.
FromDataset(dataset) ==
    [slots |-> [i \in Slots |-> IF i < Len(dataset) THEN dataset[i + 1] ELSE 0],
     position |-> Len(dataset) % Capacity,
     size |-> Len(dataset)]
=============================================================================
