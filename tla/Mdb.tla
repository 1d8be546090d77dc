-------------------------------- MODULE Mdb --------------------------------
(* The memory database of ESP (mdb.c): tables of columns and rows under one  *)
(* recursive lock, an optional index, records that requests hold, and a file *)
(* that is rewritten after every change.  A call is one step, because it     *)
(* holds the lock throughout, except for the save, whose operations on files *)
(* are steps of their own, so that the process can die between them.         *)
(* A null pointer that is dereferenced ends the process, which Crash covers. *)
EXTENDS Integers, Sequences, FiniteSets, SequencesExt, FiniteSetsExt

CONSTANTS
    Names,        \* names of tables
    ColNames,     \* names of columns
    Requests,     \* requests that hold a record (EdiRec)
    Values,       \* values a request writes in a field
    Null,         \* a null pointer
    NullText,     \* "(null)": what a null pointer is written as
    EmptyText,    \* "": what sclone makes of a null pointer
    None,         \* no record, no file
    Torn,         \* the content of a file that is not complete
    MaxTables, MaxCols, MaxRows,
    MaxId,        \* bound of the values an automatic id reaches
    UniqueCols,   \* positions of the columns an application validates as unique
    Faults,       \* the steps of a save that can fail
    MaxFailures   \* of a step of a save

Ids    == 1..MaxId
Fields == Int \cup Values \cup {Null, NullText, EmptyText}
Flags  == {"auto", "key", "index"}     \* EDI_AUTO_INC, EDI_KEY, EDI_INDEX

\* A record that a request holds, and a table in a file.
RecType   == [table : Names, id : Ids \cup {Null}, fields : Seq(Fields)]
ImageType == [name : Names, cols : Seq([name : ColNames, flags : SUBSET Flags]), rows : Seq(Seq(Fields))]

ASSUME MdbAssumption ==
    /\ MaxTables \in Nat \ {0} /\ MaxRows \in Nat /\ MaxId \in Nat /\ MaxFailures \in Nat
    \* growSchema never moves the columns: MDB_INCR of them fit.
    /\ MaxCols \in 2..8
    /\ Faults \subseteq {"open", "move", "publish"}
    /\ UniqueCols \subseteq 1..MaxCols
    /\ Null # NullText /\ Null # EmptyText
    /\ {Null, NullText, EmptyText} \cap (Ids \cup Values) = {}

\* No record is none, and no file that is complete is torn or none.
ASSUME NoneAssumption ==
    None \notin RecType /\ None \notin Seq(ImageType) /\ Torn \notin Seq(ImageType)

VARIABLES
    phase,        \* "down"; "create": mdbOpen saves an empty database; "up"
    tables,       \* Seq of [name, cols, keyCol, indexCol, index, rows]
    held,         \* [Requests -> None or [table, id, fields]]
    saving,       \* the step of mdbSave that is next, "no" outside of it
    file,         \* ["path", "bak", "new" -> None, Torn or an image]
    failures,     \* steps of a save that have failed
    saved,        \* history: the image of the last save that this database completed
    intact        \* history: no call has yet done what the code does not cope with

vars == <<phase, tables, held, saving, file, failures, saved, intact>>
fileVars == <<file, failures, saved>>
-----------------------------------------------------------------------------
(* Tables, columns and rows.  Positions count from 1, and 0 is none.         *)

FirstIn(S) == IF S = {} THEN 0 ELSE Min(S)

\* What n steps make of x, one for each of 1..n.
Iterate(step(_, _), n, x) ==
    LET upTo[k \in 0..n] == IF k = 0 THEN x ELSE step(upTo[k - 1], k)
    IN  upTo[n]

lookupTable(n)     == FirstIn({i \in DOMAIN tables : tables[i].name = n})
lookupColumn(t, c) == FirstIn({i \in DOMAIN t.cols : t.cols[i].name = c})

\* keyCol->cid; a slot behind the last column has been cleared.
KeyCid(t) == IF t.keyCol \in DOMAIN t.cols THEN t.cols[t.keyCol].cid ELSE 1

\* lookupRow: through the index, if there is one, with the position the row had
\* when it was made; else the first row with the key.
BugLookupRow(t, k) ==
    LET found == {r \in DOMAIN t.rows : t.rows[r].fields[KeyCid(t)] = k}
    IN  IF found = {} THEN Len(t.rows) ELSE Min(found)
lookupRow(t, k) ==
    IF t.index # None
    THEN IF k \in DOMAIN t.index THEN t.index[k] ELSE 0
    ELSE FirstIn({r \in DOMAIN t.rows : t.rows[r].fields[KeyCid(t)] = k})

NewTable(n) == [name |-> n, cols |-> <<>>, keyCol |-> 0, indexCol |-> 0,
                index |-> None, rows |-> <<>>]

\* createCol, and the flags that mdbAddColumn or the loader set.
NewCol(cid, c, flags) ==
    [name |-> c, cid |-> cid, flags |-> flags, last |-> 0, unique |-> FALSE]

\* createRow: nfields is the number of columns there are now.
NewRow(t) == [rid |-> Len(t.rows) + 1, nfields |-> Max({1, Len(t.cols)}),
              fields |-> [c \in 1..MaxCols |-> Null]]
createRow(t) == [t EXCEPT !.rows = Append(@, NewRow(t))]

\* A null pointer is cloned to an empty text.
sclone(v) == IF v = Null THEN EmptyText ELSE v

stoi(v) == IF v \in Int THEN v ELSE 0

Unkey(index, k)  == [v \in DOMAIN index \ {k} |-> index[v]]
Key(index, k, r) == [v \in DOMAIN index \cup {k} |-> IF v = k THEN r ELSE index[v]]

\* updateFieldValue: column c of row r takes value v; an automatic column takes
\* its next number for a null value, and follows the numbers it is given.  Another
\* column takes the empty text for a null value, which no index has.
BugFollow(last, v) == last
Follow(last, v) == Max({last, stoi(v)})
updateFieldValue(t, r, c, v) ==
    LET col  == t.cols[c]
        auto == "auto" \in col.flags
        new  == IF auto /\ v = Null THEN col.last + 1 ELSE sclone(v)
        last == IF ~auto THEN col.last ELSE IF v = Null THEN col.last + 1 ELSE Follow(col.last, v)
        freed == Unkey(t.index, t.rows[r].fields[col.cid])
    IN  [t EXCEPT !.rows[r].fields[col.cid] = new,
                  !.cols[c].last = last,
                  !.index = IF "index" \notin col.flags \/ @ = None THEN @
                            ELSE IF v = Null /\ ~auto THEN freed ELSE Key(freed, new, t.rows[r].rid)]

\* The loop of mdbUpdateRec over the fields of a record.
UpdateFields(t, r, fields) ==
    Iterate(LAMBDA u, c : updateFieldValue(u, r, c, fields[c]),
            Min({Len(fields), Len(t.cols)}), t)

Room(t) == \A c \in DOMAIN t.cols : t.cols[c].last < MaxId

\* createRecFromRow: the key is the first field, whatever column is the key.
RecOf(t, r) ==
    [table |-> t.name, id |-> t.rows[r].fields[1],
     fields |-> [c \in 1..t.rows[r].nfields |-> t.rows[r].fields[t.cols[c].cid]]]
-----------------------------------------------------------------------------
(* The file.  An image is what mdbSave writes: no cid, no position, no       *)
(* validation, no last number, and a null field as a text.                   *)

Written(v) == IF v = Null THEN NullText ELSE v
Image(ts) ==
    [i \in DOMAIN ts |->
        [name |-> ts[i].name,
         cols |-> [c \in DOMAIN ts[i].cols |->
                     [name |-> ts[i].cols[c].name, flags |-> ts[i].cols[c].flags]],
         rows |-> [r \in DOMAIN ts[i].rows |->
                     [c \in DOMAIN ts[i].cols |->
                        Written(ts[i].rows[r].fields[ts[i].cols[c].cid])]]]]

\* What mdbSave does to the tables: a null in an automatic column becomes the
\* next number, after its text has been written.
RenumberField(t, r, c) ==
    LET col == t.cols[c]
    IN  IF t.rows[r].fields[col.cid] = Null /\ "auto" \in col.flags
        THEN [t EXCEPT !.rows[r].fields[col.cid] = col.last + 1, !.cols[c].last = col.last + 1]
        ELSE t
RenumberRow(t, r) == Iterate(LAMBDA u, c : RenumberField(u, r, c), Len(t.cols), t)
Renumber(t)       == Iterate(RenumberRow, Len(t.rows), t)

\* mdbLoadFromString: checkMdbState makes tables, columns and rows, and
\* setMdbValue sets the flags of columns and the fields of rows.
LoadSchema(im) ==
    LET with(f) == {c \in DOMAIN im.cols : f \in im.cols[c].flags}
        last(S) == IF S = {} THEN 0 ELSE Max(S)
    IN  [name |-> im.name,
         cols |-> [c \in DOMAIN im.cols |-> NewCol(c, im.cols[c].name, im.cols[c].flags)],
         keyCol |-> last(with("key")), indexCol |-> last(with("index")),
         index |-> IF with("index") = {} THEN None ELSE <<>>, rows |-> <<>>]
LoadRow(t, row) == UpdateFields(createRow(t), Len(t.rows) + 1, row)
LoadTable(im)   == Iterate(LAMBDA t, r : LoadRow(t, im.rows[r]), Len(im.rows), LoadSchema(im))
Load(image)     == [i \in DOMAIN image |-> LoadTable(image[i])]

\* A name that occurs twice ends the load (mdbAddTable, createCol).
Loadable(image) ==
    /\ \A i, j \in DOMAIN image : i # j => image[i].name # image[j].name
    /\ \A i \in DOMAIN image : \A c, d \in DOMAIN image[i].cols :
          c # d => image[i].cols[c].name # image[i].cols[d].name
-----------------------------------------------------------------------------
Init ==
    /\ phase = "down"
    /\ tables = <<>>
    /\ held = [t \in Requests |-> None]
    /\ saving = "no"
    /\ file = [f \in {"path", "bak", "new"} |-> None]
    /\ failures = 0
    /\ saved = None
    /\ intact = TRUE

\* A call of an open database that finds its table i; no other call holds the lock.
Locked(n, i) == phase = "up" /\ saving = "no" /\ i # 0 /\ i = lookupTable(n)

\* The tables change, and autoSave begins.
Change(ts)     == tables' = ts /\ saving' = "open" /\ UNCHANGED <<phase, fileVars>>
SetTable(i, t) == Change([tables EXCEPT ![i] = t])

\* What the code does without a check and does not cope with (see the README): a
\* flag of another column than the first, a column or an index that is given to a
\* table with rows, another column than the last that is removed, or from a table
\* with rows, a delete that leaves rows behind it in an indexed table, a name that
\* is used already, a key that is overwritten, a field of a row that is not there.
Copes(what) == intact' = (intact /\ what)

mdbAddTable(n) ==
    /\ phase = "up" /\ saving = "no" /\ lookupTable(n) = 0
    /\ Len(tables) < MaxTables
    /\ Change(Append(tables, NewTable(n)))
    /\ UNCHANGED <<held, intact>>

mdbRemoveTable(n) ==
    \E i \in DOMAIN tables :
        Locked(n, i) /\ Change(RemoveAt(tables, i)) /\ UNCHANGED <<held, intact>>

mdbRenameTable(n, m) ==
    \E i \in DOMAIN tables :
        /\ Locked(n, i)
        /\ Copes(lookupTable(m) = 0)
        /\ Change([tables EXCEPT ![i].name = m])
        /\ UNCHANGED held

mdbAddColumn(n, c, flags) ==
    \E i \in DOMAIN tables :
        LET t == tables[i]
        IN  /\ Locked(n, i) /\ lookupColumn(t, c) = 0
            /\ Len(t.cols) < MaxCols
            /\ Copes(IF t.cols = <<>> THEN {"auto", "key"} \subseteq flags
                               ELSE flags = {} /\ t.rows = <<>>)
            /\ SetTable(i, [t EXCEPT !.cols = Append(@, NewCol(Len(t.cols) + 1, c, flags)),
                                     !.index = IF "index" \in flags THEN <<>> ELSE @,
                                     !.indexCol = IF "index" \in flags THEN Len(t.cols) + 1 ELSE @])
            /\ UNCHANGED held

\* The columns behind move up and keep their cid, by which rows are read.
mdbRemoveColumn(n, c) ==
    \E i \in DOMAIN tables :
        LET t == tables[i]
            s == lookupColumn(t, c)
        IN  /\ Locked(n, i) /\ s # 0
            /\ Copes(s = Len(t.cols) /\ t.rows = <<>>)
            /\ SetTable(i, [t EXCEPT !.cols = [j \in 1..(Len(@) - 1) |-> IF j < @[s].cid THEN @[j] ELSE @[j + 1]],
                                     !.index = IF t.indexCol = s THEN None ELSE @,
                                     !.indexCol = IF @ = s THEN 0 ELSE @,
                                     !.keyCol = IF @ = s THEN 0 ELSE @])
            /\ UNCHANGED held

mdbRenameColumn(n, c, d) ==
    \E i \in DOMAIN tables :
        LET s == lookupColumn(tables[i], c)
        IN  /\ Locked(n, i) /\ s # 0
            /\ Copes(lookupColumn(tables[i], d) = 0)
            /\ Change([tables EXCEPT ![i].cols[s].name = d])
            /\ UNCHANGED held

\* The type, which is not modelled, changes.
mdbChangeColumn(n, c) ==
    \E i \in DOMAIN tables :
        Locked(n, i) /\ lookupColumn(tables[i], c) # 0 /\ Change(tables) /\ UNCHANGED <<held, intact>>

\* The index starts empty, whatever rows there are.
mdbAddIndex(n, c) ==
    \E i \in DOMAIN tables :
        LET s == lookupColumn(tables[i], c)
        IN  /\ Locked(n, i) /\ s # 0
            /\ Copes(s = 1 /\ tables[i].rows = <<>>)
            /\ SetTable(i, [tables[i] EXCEPT !.index = <<>>, !.indexCol = s,
                                             !.cols[s].flags = @ \cup {"index"}])
            /\ UNCHANGED held

mdbRemoveIndex(n) ==
    \E i \in DOMAIN tables :
        LET t == tables[i]
        IN  /\ Locked(n, i)
            /\ IF t.indexCol \in DOMAIN t.cols
               THEN SetTable(i, [t EXCEPT !.index = None, !.indexCol = 0,
                                          !.cols[t.indexCol].flags = @ \ {"index"}])
               ELSE /\ tables' = [tables EXCEPT ![i].index = None]
                    /\ UNCHANGED <<phase, saving, fileVars>>
            /\ UNCHANGED <<held, intact>>

\* ediAddValidation of "unique", the validation that reads other rows.
mdbAddValidation(n, c) ==
    \E i \in DOMAIN tables :
        LET s == lookupColumn(tables[i], c)
        IN  /\ Locked(n, i) /\ s \in UniqueCols
            /\ tables' = [tables EXCEPT ![i].cols[s].unique = TRUE]
            /\ UNCHANGED <<phase, held, saving, fileVars, intact>>

-----------------------------------------------------------------------------
(* Records and rows.                                                         *)

\* Does not take the lock.
mdbCreateRec(t, n) ==
    LET i == lookupTable(n)
    IN  /\ phase = "up" /\ i # 0 /\ tables[i].cols # <<>>
        /\ held' = [held EXCEPT ![t] = [table |-> n, id |-> Null,
                                        fields |-> [c \in DOMAIN tables[i].cols |-> Null]]]
        /\ UNCHANGED <<phase, tables, saving, fileVars, intact>>

\* The record of a row, or none; rows wider than the table end the process.
Hold(t, tb, r) ==
    /\ r \in DOMAIN tb.rows => tb.rows[r].nfields <= Len(tb.cols)
    /\ held' = [held EXCEPT ![t] = IF r \in DOMAIN tb.rows THEN RecOf(tb, r) ELSE None]
    /\ UNCHANGED <<phase, tables, saving, fileVars, intact>>

mdbReadRec(t, n, k) ==
    \E i \in DOMAIN tables :
        Locked(n, i) /\ Hold(t, tables[i], lookupRow(tables[i], k))

\* The first of the rows that mdbReadWhere finds with "=="; no text is not found.
matchRow(tb, s, v) ==
    {r \in DOMAIN tb.rows : v \notin {Null, EmptyText} /\ tb.rows[r].fields[tb.cols[s].cid] = v}
ediReadOneWhere(t, n, c, v) ==
    \E i \in DOMAIN tables :
        LET s == lookupColumn(tables[i], c)
        IN  /\ Locked(n, i) /\ s # 0 /\ v # Null
            /\ Hold(t, tables[i], FirstIn(matchRow(tables[i], s, v)))

ediSetField(t, c, v) ==
    /\ held[t] # None /\ c \in DOMAIN held[t].fields
    /\ Copes(c # 1)
    /\ held' = [held EXCEPT ![t].fields[c] = v]
    /\ UNCHANGED <<phase, tables, saving, fileVars>>

\* checkUnique: no row has the value, or the first that has is the record's own.
BugCheckUnique(tb, s, v, id) ==
    id # Null \/ matchRow(tb, s, v) = {}
checkUnique(tb, s, v, id) ==
    LET found == matchRow(tb, s, v)
    IN  \A r \in found : r = Min(found) => tb.rows[r].fields[1] = id

\* mdbValidateRec, under the lock of mdbUpdateRec.
mdbValidateRec(tb, rec) ==
    \A s \in DOMAIN rec.fields :
        tb.cols[s].unique => checkUnique(tb, s, rec.fields[s], rec.id)

\* A record without a key, or whose row is gone, makes a row.  A record wider
\* than the table ends the process in mdbValidateRec.
mdbUpdateRec(t) ==
    /\ held[t] # None
    /\ \E i \in DOMAIN tables :
          LET tb  == tables[i]
              rec == held[t]
              r   == IF rec.id = Null THEN 0 ELSE lookupRow(tb, rec.id)
          IN  /\ Locked(rec.table, i)
              /\ Len(rec.fields) <= Len(tb.cols)
              /\ mdbValidateRec(tb, rec)
              /\ rec.id = Null => Room(tb)
              /\ IF r = 0
                 THEN Len(tb.rows) < MaxRows /\ SetTable(i, UpdateFields(createRow(tb), Len(tb.rows) + 1, rec.fields))
                 ELSE r \in DOMAIN tb.rows /\ SetTable(i, UpdateFields(tb, r, rec.fields))
    /\ UNCHANGED <<held, intact>>

\* The change is not saved.  A row that is missing is made, and left empty.
mdbUpdateField(n, k, c, v) ==
    \E i \in DOMAIN tables :
        LET tb == tables[i]
            s  == lookupColumn(tb, c)
            r  == lookupRow(tb, k)
        IN  /\ Locked(n, i) /\ s # 0
            /\ Copes(r # 0 /\ s # 1)
            /\ r = 0 => Len(tb.rows) < MaxRows
            /\ tables' = [tables EXCEPT ![i] = IF r = 0 THEN createRow(tb)
                                               ELSE IF r \in DOMAIN tb.rows THEN updateFieldValue(tb, r, s, v)
                                               ELSE tb]
            /\ UNCHANGED <<phase, held, saving, fileVars>>

\* The rows behind move up; the index keeps the positions they had.
mdbDeleteRow(n, k) ==
    \E i \in DOMAIN tables :
        LET tb == tables[i]
            r  == lookupRow(tb, k)
        IN  /\ Locked(n, i) /\ r # 0
            /\ Copes(tb.index = None \/ r = Len(tb.rows))
            /\ SetTable(i, [tb EXCEPT !.rows = IF r \in DOMAIN @ THEN RemoveAt(@, r) ELSE @,
                                      !.index = IF @ = None THEN @ ELSE Unkey(@, k)])
            /\ UNCHANGED held
-----------------------------------------------------------------------------
(* mdbSave, the start and the end of the process.                            *)

Step(from, to) == saving = from /\ saving' = to /\ UNCHANGED <<phase, held, intact>>
Works(from, to) == Step(from, to) /\ UNCHANGED failures

\* A call that fails ends the save; that of open is reported as success.  When
\* rename(new, path) fails, rename(bak, path) puts the backup back.
SaveFails(step) ==
    /\ step \in Faults /\ failures < MaxFailures
    /\ Step(step, "no")
    /\ step = "move" => file["path"] # None
    /\ failures' = failures + 1
    /\ file' = IF step = "publish" /\ file["bak"] # None
               THEN [file EXCEPT !["path"] = file["bak"], !["bak"] = None] ELSE file
    /\ UNCHANGED <<tables, saved>>

\* open(path.new, O_TRUNC).
SaveOpen ==
    /\ Works("open", "write")
    /\ file' = [file EXCEPT !["new"] = Torn]
    /\ UNCHANGED <<tables, saved>>

SaveWrite ==
    /\ Works("write", "drop")
    /\ file' = [file EXCEPT !["new"] = Image(tables)]
    /\ tables' = [i \in DOMAIN tables |-> Renumber(tables[i])]
    /\ UNCHANGED saved

\* mprDeletePath(bak).
SaveDrop ==
    /\ Works("drop", "move")
    /\ file' = [file EXCEPT !["bak"] = None]
    /\ UNCHANGED <<tables, saved>>

\* rename(path, bak), if there is a path.
BugSaveMove ==
    /\ Works("move", "publish")
    /\ file' = [file EXCEPT !["path"] = None]
    /\ UNCHANGED <<tables, saved>>
SaveMove ==
    /\ Works("move", "publish")
    /\ file' = IF file["path"] = None THEN file
               ELSE [file EXCEPT !["bak"] = file["path"], !["path"] = None]
    /\ UNCHANGED <<tables, saved>>

\* rename(new, path).
SavePublish ==
    /\ Works("publish", "no")
    /\ file' = [file EXCEPT !["path"] = file["new"], !["new"] = None]
    /\ saved' = file["new"]
    /\ UNCHANGED tables

\* mdbOpen with EDI_CREATE and EDI_AUTO_SAVE, as espDbDirective has it: a path
\* that is missing is first saved from a database without tables, which begins a
\* new one: the backup is not looked for, and that save deletes it.
mdbOpen ==
    /\ phase = "down" /\ file["path"] = None
    /\ phase' = "create" /\ saving' = "open"
    /\ saved' = None
    /\ UNCHANGED <<tables, held, file, failures, intact>>

\* mdbLoad: what cannot be loaded is not opened.
mdbLoad ==
    /\ \/ phase = "down" /\ file["path"] # None
       \/ phase = "create" /\ saving = "no"
    /\ IF file["path"] \notin {None, Torn} /\ Loadable(file["path"])
       THEN phase' = "up" /\ tables' = Load(file["path"])
       ELSE phase' = "down" /\ tables' = <<>>
    /\ UNCHANGED <<held, saving, fileVars, intact>>

\* Between the two renames of a save, too, when there is no path.
Crash ==
    /\ phase # "down"
    /\ phase' = "down" /\ saving' = "no"
    /\ tables' = <<>>
    /\ held' = [t \in Requests |-> None]
    /\ UNCHANGED <<fileVars, intact>>

Schema ==
    \E n \in Names :
        \/ mdbAddTable(n) \/ mdbRemoveTable(n) \/ mdbRemoveIndex(n)
        \/ \E m \in Names \ {n} : mdbRenameTable(n, m)
        \/ \E c \in ColNames :
              \/ mdbRemoveColumn(n, c) \/ mdbChangeColumn(n, c)
              \/ mdbAddIndex(n, c)
              \/ mdbAddValidation(n, c)
              \/ \E flags \in SUBSET Flags : mdbAddColumn(n, c, flags)
              \/ \E d \in ColNames \ {c} : mdbRenameColumn(n, c, d)
Rows ==
    \/ \E t \in Requests, n \in Names :
          \/ mdbCreateRec(t, n)
          \/ \E k \in Ids : mdbReadRec(t, n, k)
          \/ \E c \in ColNames, v \in Values : ediReadOneWhere(t, n, c, v)
    \/ \E t \in Requests, c \in 1..MaxCols, v \in Values : ediSetField(t, c, v)
    \/ \E t \in Requests : mdbUpdateRec(t)
    \/ \E n \in Names, k \in Ids :
          \/ mdbDeleteRow(n, k)
          \/ \E c \in ColNames, v \in Values : mdbUpdateField(n, k, c, v)
Saving ==
    \/ SaveOpen \/ SaveWrite \/ SaveDrop \/ SaveMove \/ SavePublish
    \/ \E step \in {"open", "move", "publish"} : SaveFails(step)

Next == Schema \/ Rows \/ Saving \/ mdbOpen \/ mdbLoad \/ Crash

Spec == Init /\ [][Next]_vars
-----------------------------------------------------------------------------
(* Properties.                                                               *)

\* The store that tables stand for, in memory and in a file: rows by their key; a
\* null field is not told from the texts it is stored and saved as.
Clean(v) == IF v \in {NullText, EmptyText} THEN Null ELSE v
RowsOf(rows) ==
    [k \in {rows[r][1] : r \in DOMAIN rows} |->
        LET r == CHOOSE q \in DOMAIN rows : rows[q][1] = k
        IN  [c \in 1..MaxCols |-> Clean(rows[r][c])]]
Named(ts, n) == ts[CHOOSE i \in DOMAIN ts : ts[i].name = n]
InMemory(ts) ==
    [n \in {ts[i].name : i \in DOMAIN ts} |->
        LET rows == Named(ts, n).rows IN RowsOf([r \in DOMAIN rows |-> rows[r].fields])]
Padded(row) == [c \in 1..MaxCols |-> IF c \in DOMAIN row THEN row[c] ELSE Null]
InFile(image) ==
    [n \in {image[i].name : i \in DOMAIN image} |->
        LET rows == Named(image, n).rows
        IN  RowsOf([r \in DOMAIN rows |-> Padded(rows[r])])]

\* The copies that a file stands for, and the records of requests.
Copies(content) == IF content \in {None, Torn} THEN {} ELSE {InFile(content)}
RecordOf(rec) ==
    [table |-> rec.table, key |-> rec.id, row |-> [c \in DOMAIN rec.fields |-> Clean(rec.fields[c])]]
Records(recs) == [t \in {q \in Requests : recs[q] # None} |-> RecordOf(recs[t])]

Store == INSTANCE EdiStore WITH
            Keys    <- Ids,
            Width   <- MaxCols,
            Fields  <- Values \cup {Null},
            alive   <- phase = "up",
            store   <- InMemory(tables),
            durable <- Copies(file["path"]),
            backup  <- Copies(file["bak"]),
            held    <- Records(held)

\* The database is the store that edi.h describes, through saves, faults and
\* restarts, although rows are found by position and records grow stale, until a
\* call does what the code does not cope with.
ImplementsStore == Store!Init /\ [][~intact' \/ Store!Next]_(Store!vars)

\* What lookups rest on: names and keys are distinct, the numbers of an automatic
\* column are ahead of its keys, and the index points to the rows that have the keys,
\* until a call does what the code does not cope with.
Consistent ==
    intact => \A i \in DOMAIN tables :
        LET t == tables[i]
        IN  /\ \A j \in DOMAIN tables : tables[j].name = t.name => j = i
            /\ \A c, d \in DOMAIN t.cols : t.cols[c].name = t.cols[d].name => c = d
            /\ \A r, q \in DOMAIN t.rows : t.rows[r].fields[1] = t.rows[q].fields[1] => r = q
            /\ \A r \in DOMAIN t.rows : t.rows[r].fields[1] \in 1..t.cols[1].last
            /\ t.index # None =>
                  /\ \A r \in DOMAIN t.rows : t.rows[r].fields[1] \in DOMAIN t.index
                  /\ \A k \in DOMAIN t.index : t.index[k] \in DOMAIN t.rows
                                               /\ t.rows[t.index[k]].fields[1] = k

\* A record that mdbUpdateRec writes never gives a value of a unique column to a
\* second row, however stale the record is, until a call does what the code does
\* not cope with: after a delete the index may name a row of another key.
Twice(i, c, v) == c \in DOMAIN tables[i].cols /\ Cardinality(matchRow(tables[i], c, v)) > 1
UniqueKept ==
    [][intact => \A i \in DOMAIN tables, c \in 1..MaxCols, v \in Values :
          i \in DOMAIN tables' /\ Twice(i, c, v)' /\ ~Twice(i, c, v) /\ tables[i].cols[c].unique
              => \A t \in Requests : ~mdbUpdateRec(t)]_vars

\* Wherever the process dies, between the two renames too, and whichever step of a
\* save fails, the image of the last completed save is left as the database or as
\* its backup, and the path of the database names that image or nothing.  It is so
\* until mdbOpen, for which a missing path is no database, begins a new one.
Recoverable ==
    /\ saved # None => saved \in {file["path"], file["bak"]}
    /\ file["path"] \in {None, saved}

\* ediReadRec: "Read a record from the given table as identified by the key
\* value": the record, if there is one, is a copy of the row with the key, also
\* after deletes from a table without an index, or of the last row of one that has
\* an index, until a call does what the code does not cope with.
ReadByKey ==
    [][intact => \A t \in Requests, i \in DOMAIN tables, k \in Ids :
          mdbReadRec(t, tables[i].name, k) =>
             LET rows == {r \in DOMAIN tables[i].rows : tables[i].rows[r].fields[1] = k}
             IN  IF rows = {} THEN held'[t] = None
                 ELSE held'[t] \in {RecOf(tables[i], r) : r \in rows}]_vars
=============================================================================
