-------------------------- MODULE MCPolicySessions --------------------------
(* Instances of PolicySessions for TLC: worker threads are model values.    *)
EXTENDS PolicySessions, TLC

WorkerSymmetry == Permutations(Workers)
=============================================================================
