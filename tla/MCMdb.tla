------------------------------- MODULE MCMdb --------------------------------
(* Instances of Mdb for TLC. *)
EXTENDS Mdb, TLC

\* Names are interchangeable.
DataSymmetry == Permutations(Names) \cup Permutations(ColNames)

\* The properties look no further than a call that the code does not cope with.
\* After a save that has failed, tables of one row are enough.
Explored == intact /\ (failures > 0 => \A i \in DOMAIN tables : Len(tables[i].rows) <= 1)

\* A backup that the next save deletes unread, and a new file that it truncates;
\* without a database, the backup is what is left.
StateView == <<phase, tables, held, saving, failures, saved, intact, file["path"],
               IF saving \in {"move", "publish"} THEN file
               ELSE IF file["path"] = None THEN file["bak"] ELSE None>>
=============================================================================
