------------------------------ MODULE TimedData ------------------------------
(***************************************************************************)
(* Timesteps and action chunks, shared by the robot client and the policy  *)
(* server (async_inference/helpers.py, policy_server._time_action_chunk).  *)
(***************************************************************************)
EXTENDS Integers, Sequences

CONSTANTS
  MaxStep,    \* bound: observations carry timesteps 0..MaxStep
  ChunkLen    \* actions_per_chunk

ASSUME TimedDataAssumption == MaxStep \in Nat /\ ChunkLen \in Nat \ {0}

ObsSteps == 0..MaxStep
Steps == 0..(MaxStep + ChunkLen - 1)

(* The timesteps of the chunk predicted from an observation at `first`.     *)
Chunk(first) == [i \in 1..ChunkLen |-> first + i - 1]
=============================================================================
