------------------------------ MODULE EdiStore ------------------------------
(* What the Embedded Database Interface (edi.h) promises its callers: tables *)
(* that map a key to a row, requests that hold copies of rows, and a durable *)
(* copy from which a restart begins.  Module Mdb implements it.              *)
EXTENDS Integers

CONSTANTS
    Names,        \* names of tables
    Requests,     \* requests that hold a record (EdiRec)
    Keys,         \* values of the key column
    Fields,       \* values of any column, Null included
    Width,        \* columns a row has room for
    Null          \* a field without a value

VARIABLES
    alive,        \* a process has the database open
    store,        \* [tables there are -> [keys -> rows]]
    durable,      \* {the store a restart begins with}, {} when there is none
    backup,       \* {the copy before the durable one}, {}
    held          \* [requests that hold a record -> [table, key, row]]

vars == <<alive, store, durable, backup, held>>

Empty == <<>>
Blank == [c \in 1..Width |-> Null]

Put(f, x, y)  == [z \in DOMAIN f \cup {x} |-> IF z = x THEN y ELSE f[z]]
Without(f, x) == [z \in DOMAIN f \ {x} |-> f[z]]

\* The fields of a record replace those of the row, which may have more.
Merge(old, new) == [c \in 1..Width |-> IF c \in DOMAIN new THEN new[c] ELSE old[c]]

Init ==
    /\ alive = FALSE
    /\ store = Empty
    /\ durable = {}
    /\ backup = {}
    /\ held = Empty

\* ediOpen with EDI_CREATE: "Create database if not present".
Open ==
    /\ ~alive
    /\ alive' = TRUE
    /\ store' \in IF durable = {} THEN {Empty} ELSE durable
    /\ UNCHANGED <<durable, backup, held>>

Crash ==
    /\ alive' = FALSE
    /\ store' = Empty
    /\ held' = Empty
    /\ UNCHANGED <<durable, backup>>

\* A save drops the old backup, makes the durable copy the backup, and publishes
\* the store as the durable copy, or puts the backup back.  In between there is
\* no durable copy: a restart does not look for the backup.
DropBackup == backup' = {} /\ UNCHANGED durable
MoveAway   == backup' = durable /\ durable' = {}
PutBack    == durable' = backup /\ backup' = {} /\ durable = {}
Publish    == durable' = {store} /\ UNCHANGED backup

AddTable(n) ==
    /\ alive /\ n \notin DOMAIN store
    /\ store' = Put(store, n, Empty)

RemoveTable(n) ==
    /\ alive /\ n \in DOMAIN store
    /\ store' = Without(store, n)

RenameTable(n, m) ==
    /\ alive /\ n \in DOMAIN store /\ m \notin DOMAIN store
    /\ store' = Without(Put(store, m, store[n]), n)

\* ediCreateRec: a record without a key, of the columns the table has.
CreateRec(t, n) ==
    /\ alive /\ n \in DOMAIN store
    /\ \E w \in 1..Width :
          held' = Put(held, t, [table |-> n, key |-> Null, row |-> [c \in 1..w |-> Null]])

\* A record is a copy of the row with a key.
Hold(t, n, k) ==
    \E w \in 1..Width :
        held' = Put(held, t, [table |-> n, key |-> k, row |-> [c \in 1..w |-> store[n][k][c]]])
Drop(t) == held' = Without(held, t)

\* "Read a record from the given table as identified by the key value."
ReadRec(t, n, k) ==
    /\ alive /\ n \in DOMAIN store
    /\ IF k \in DOMAIN store[n] THEN Hold(t, n, k) ELSE Drop(t)

\* "First matching record. Returns NULL if no matching records."
ReadOneWhere(t, n, c, v) ==
    /\ alive /\ n \in DOMAIN store
    /\ LET found == {k \in DOMAIN store[n] : store[n][k][c] = v}
       IN  IF found = {} THEN Drop(t) ELSE \E k \in found : Hold(t, n, k)

SetField(t, c, v) ==
    /\ t \in DOMAIN held
    /\ c \in DOMAIN held[t].row
    /\ held' = [held EXCEPT ![t].row[c] = v]

\* ediUpdateRec: "If the record is a new record and the id column is
\* EDI_AUTO_INC, then the id will be assigned prior to saving the record."
\* A record whose row was removed in the meantime makes the row anew.
UpdateRec(t) ==
    /\ alive /\ t \in DOMAIN held
    /\ LET n == held[t].table
           k == held[t].key
       IN  /\ n \in DOMAIN store
           /\ IF k = Null
              THEN \E i \in Keys \ DOMAIN store[n] :
                      store' = [store EXCEPT ![n] = Put(@, i, Merge(Blank, [held[t].row EXCEPT ![1] = i]))]
              ELSE store' = [store EXCEPT ![n] =
                               Put(@, k, Merge(IF k \in DOMAIN @ THEN @[k] ELSE Blank, held[t].row))]

UpdateField(n, k, c, v) ==
    /\ alive /\ n \in DOMAIN store /\ k \in DOMAIN store[n]
    /\ store' = [store EXCEPT ![n][k][c] = v]

DeleteRow(n, k) ==
    /\ alive /\ n \in DOMAIN store /\ k \in DOMAIN store[n]
    /\ store' = [store EXCEPT ![n] = Without(@, k)]

\* Each step concerns the tables, the records that are held, or the files.
StoreStep ==
    /\ UNCHANGED <<alive, durable, backup, held>>
    /\ \/ \E n \in Names : AddTable(n) \/ RemoveTable(n) \/ \E m \in Names : RenameTable(n, m)
       \/ \E t \in Requests : UpdateRec(t)
       \/ \E n \in Names, k \in Keys :
             DeleteRow(n, k) \/ \E c \in 2..Width, v \in Fields : UpdateField(n, k, c, v)
HeldStep ==
    /\ UNCHANGED <<alive, durable, backup, store>>
    /\ \E t \in Requests :
          \/ \E n \in Names : CreateRec(t, n) \/ \E k \in Keys : ReadRec(t, n, k)
          \/ \E n \in Names, c \in 1..Width, v \in Fields : ReadOneWhere(t, n, c, v)
          \/ \E c \in 2..Width, v \in Fields : SetField(t, c, v)
FileStep ==
    /\ UNCHANGED <<alive, store, held>>
    /\ DropBackup \/ MoveAway \/ PutBack \/ Publish

Next == Open \/ Crash \/ StoreStep \/ HeldStep \/ FileStep

Spec == Init /\ [][Next]_vars
=============================================================================
