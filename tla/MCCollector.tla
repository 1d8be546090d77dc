----------------------------- MODULE MCCollector -----------------------------
(* Instances of Collector for TLC. *)
EXTENDS Collector, TLC

ActorSymmetry == Permutations(Threads) \cup Permutations(Outside)

\* What happens after the heap may have been used during a collection is left
\* alone: the properties of the heap say nothing of it.
UntilHeapRace == ~HeapRaced
=============================================================================
