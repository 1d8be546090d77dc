---------------------------- MODULE MCEspModules ----------------------------
(* Instances of EspModules for TLC. *)
EXTENDS EspModules

\* Controllers and views, or an application, with and without updates.
AllRoutes == [app : BOOLEAN, update : BOOLEAN]

\* One failed load without edits, or an edit that falls into a compilation, is looked
\* at, and not both.
Explored ==
    /\ Cardinality(failed) + Cardinality(missed) <= 1
    /\ failed # {} => edits = 0
=============================================================================
