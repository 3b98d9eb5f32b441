-------------------------- MODULE MCAsyncInference --------------------------
(* Instances of AsyncInference for TLC: worker threads are model values.    *)
EXTENDS AsyncInference, TLC

WorkerSymmetry == Permutations(Workers)
=============================================================================
