--------------------------- MODULE MCEventService ---------------------------
(* Instances of EventService for TLC. *)
EXTENDS EventService

\* Events are interchangeable, and so are workers.
EventSymmetry == Permutations(Events) \cup Permutations(Workers)
=============================================================================
