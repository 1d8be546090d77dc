---------------------------- MODULE MCWorkerPool ----------------------------
(* Instances of WorkerPool for TLC. *)
EXTENDS WorkerPool, TLC

\* Jobs are interchangeable, and so are workers.
PoolSymmetry == Permutations(Jobs) \cup Permutations(Workers)
=============================================================================
