----------------------------- MODULE MdbProofs ------------------------------
(* For every number of tables, columns, rows, requests and failures: a save  *)
(* never loses the last completed one before a new database begins; and      *)
(* until a call does what the code does not cope with, the tables stay       *)
(* consistent, unique columns unique, a key finds its row, and the database  *)
(* is the store that edi.h describes.                                        *)
EXTENDS Mdb, SequenceTheorems, FiniteSetTheorems, WellFoundedInduction, TLAPS

Files     == {"path", "bak", "new"}
SaveSteps == {"no", "open", "write", "drop", "move", "publish"}

\* Except between the renames the path names the last completed image; between
\* them, and when the process has died there, the backup does.  No save is under
\* way without a process.
FileInv ==
    /\ DOMAIN file = Files
    /\ saving \in SaveSteps
    /\ phase = "down" => saving = "no"
    /\ saving # "publish" => \/ file["path"] = saved
                             \/ phase = "down" /\ file["path"] = None /\ file["bak"] = saved
    /\ saving = "move" => file["bak"] = None
    /\ saving = "publish" => file["path"] = None /\ file["bak"] = saved

\* The invariant holds when no process has run.
LEMMA InitFileInv == Init => FileInv
  BY DEF Init, FileInv, Files, SaveSteps

\* The invariant is what Recoverable needs.
LEMMA FileInvRecoverable == FileInv => Recoverable
  BY DEF FileInv, Recoverable, SaveSteps

\* A call leaves the files alone, and begins a save if it changes what is saved;
\* tables change only while no save is under way; what it does not cope with is
\* never undone.
Calls == /\ UNCHANGED <<phase, fileVars>>
         /\ \/ UNCHANGED saving
            \/ phase = "up" /\ saving = "no" /\ saving' = "open"
         /\ \/ UNCHANGED tables
            \/ phase = "up" /\ saving = "no"
         /\ intact' => intact

\* Such calls keep the invariant.
LEMMA CallsKeep == FileInv /\ Calls => FileInv'
  BY DEF FileInv, Calls, fileVars, SaveSteps

\* The operations on tables and columns are such calls.
LEMMA SchemaCalls == Schema => Calls
<1> SUFFICES ASSUME Schema PROVE Calls
  OBVIOUS
<1> USE DEF Calls, Change, SetTable, Locked, fileVars, Copes
<1>1. ASSUME NEW n \in Names, mdbAddTable(n) PROVE Calls
  BY <1>1 DEF mdbAddTable
<1>2. ASSUME NEW n \in Names, mdbRemoveTable(n) PROVE Calls
  BY <1>2 DEF mdbRemoveTable
<1>3. ASSUME NEW n \in Names, mdbRemoveIndex(n) PROVE Calls
  BY <1>3 DEF mdbRemoveIndex
<1>4. ASSUME NEW n \in Names, NEW m \in Names, mdbRenameTable(n, m) PROVE Calls
  BY <1>4 DEF mdbRenameTable
<1>5. ASSUME NEW n \in Names, NEW c \in ColNames, mdbRemoveColumn(n, c) PROVE Calls
  BY <1>5 DEF mdbRemoveColumn
<1>6. ASSUME NEW n \in Names, NEW c \in ColNames, mdbChangeColumn(n, c) PROVE Calls
  BY <1>6 DEF mdbChangeColumn
<1>7. ASSUME NEW n \in Names, NEW c \in ColNames, mdbAddIndex(n, c) PROVE Calls
  BY <1>7 DEF mdbAddIndex
<1>8. ASSUME NEW n \in Names, NEW c \in ColNames, mdbAddValidation(n, c) PROVE Calls
  BY <1>8 DEF mdbAddValidation
<1>9. ASSUME NEW n \in Names, NEW c \in ColNames, NEW f \in SUBSET Flags, mdbAddColumn(n, c, f)
      PROVE  Calls
  BY <1>9 DEF mdbAddColumn
<1>10. ASSUME NEW n \in Names, NEW c \in ColNames, NEW d \in ColNames, mdbRenameColumn(n, c, d)
       PROVE  Calls
  BY <1>10 DEF mdbRenameColumn
<1>. QED
  BY <1>1, <1>2, <1>3, <1>4, <1>5, <1>6, <1>7, <1>8, <1>9, <1>10 DEF Schema

\* The operations on records and rows are such calls.
LEMMA RowCalls == Rows => Calls
<1> SUFFICES ASSUME Rows PROVE Calls
  OBVIOUS
<1> USE DEF Calls, Change, SetTable, Locked, fileVars, Copes
<1>1. ASSUME NEW t \in Requests, NEW n \in Names, mdbCreateRec(t, n) PROVE Calls
  BY <1>1 DEF mdbCreateRec
<1>2. ASSUME NEW t \in Requests, NEW n \in Names, NEW k \in Ids, mdbReadRec(t, n, k) PROVE Calls
  BY <1>2 DEF mdbReadRec, Hold
<1>3. ASSUME NEW t \in Requests, NEW n \in Names, NEW c \in ColNames, NEW v \in Values,
             ediReadOneWhere(t, n, c, v)
      PROVE  Calls
  BY <1>3 DEF ediReadOneWhere, Hold
<1>4. ASSUME NEW t \in Requests, NEW c \in 1..MaxCols, NEW v \in Values, ediSetField(t, c, v)
      PROVE  Calls
  BY <1>4 DEF ediSetField
<1>5. ASSUME NEW t \in Requests, mdbUpdateRec(t) PROVE Calls
  BY <1>5 DEF mdbUpdateRec
<1>6. ASSUME NEW n \in Names, NEW k \in Ids, mdbDeleteRow(n, k) PROVE Calls
  BY <1>6 DEF mdbDeleteRow
<1>7. ASSUME NEW n \in Names, NEW k \in Ids, NEW c \in ColNames, NEW v \in Values,
             mdbUpdateField(n, k, c, v)
      PROVE  Calls
  BY <1>7 DEF mdbUpdateField
<1>. QED
  BY <1>1, <1>2, <1>3, <1>4, <1>5, <1>6, <1>7 DEF Rows

\* No step takes back that a call did what the code does not cope with.
LEMMA WasIntact ==
    ASSUME [Next]_vars, intact'
    PROVE  intact
<1>1. CASE Schema
  BY <1>1, SchemaCalls DEF Calls
<1>2. CASE Rows
  BY <1>2, RowCalls DEF Calls
<1>3. CASE Saving
  BY <1>3 DEF Saving, SaveOpen, SaveWrite, SaveDrop, SaveMove, SavePublish, SaveFails, Works, Step
<1>4. CASE mdbOpen
  BY <1>4 DEF mdbOpen
<1>5. CASE mdbLoad
  BY <1>5 DEF mdbLoad
<1>6. CASE Crash
  BY <1>6 DEF Crash
<1>7. CASE UNCHANGED vars
  BY <1>7 DEF vars
<1> QED
  BY <1>1, <1>2, <1>3, <1>4, <1>5, <1>6, <1>7 DEF Next

\* Each step of a save: the backup is dropped while the path names the image,
\* and the path is given up only for the backup.
LEMMA SavingKeeps == FileInv /\ Saving => FileInv'
<1> SUFFICES ASSUME FileInv, Saving PROVE FileInv'
  OBVIOUS
<1> USE DEF FileInv, Files, SaveSteps, Step, Works
<1>1. CASE SaveOpen
  BY <1>1 DEF SaveOpen
<1>2. CASE SaveWrite
  BY <1>2 DEF SaveWrite
<1>3. CASE SaveDrop
  BY <1>3 DEF SaveDrop
<1>4. CASE SaveMove
  BY <1>4 DEF SaveMove
<1>5. CASE SavePublish
  BY <1>5 DEF SavePublish
<1>6. ASSUME NEW step \in {"open", "move", "publish"}, SaveFails(step) PROVE FileInv'
  BY <1>6 DEF SaveFails
<1>. QED
  BY <1>1, <1>2, <1>3, <1>4, <1>5, <1>6 DEF Saving

\* A save leaves the last completed one in the database or in its backup, through
\* every failure of a step and every end of the process, until mdbOpen, for which a
\* missing path is no database, begins a new one.
THEOREM SaveIsRecoverable == Spec => []Recoverable
<1>1. FileInv /\ [Next]_vars => FileInv'
  <2> SUFFICES ASSUME FileInv, [Next]_vars PROVE FileInv'
    OBVIOUS
  <2>1. CASE Schema
    BY <2>1, SchemaCalls, CallsKeep
  <2>2. CASE Rows
    BY <2>2, RowCalls, CallsKeep
  <2>3. CASE Saving
    BY <2>3, SavingKeeps
  <2>4. CASE mdbOpen
    BY <2>4 DEF mdbOpen, FileInv, fileVars, SaveSteps
  <2>5. CASE mdbLoad
    BY <2>5 DEF mdbLoad, FileInv, fileVars, SaveSteps
  <2>6. CASE Crash
    BY <2>6 DEF Crash, FileInv, fileVars, SaveSteps
  <2>7. CASE UNCHANGED vars
    BY <2>7 DEF vars, FileInv
  <2>. QED
    BY <2>1, <2>2, <2>3, <2>4, <2>5, <2>6, <2>7 DEF Next
<1>. QED
  BY <1>1, InitFileInv, FileInvRecoverable, PTL DEF Spec
-----------------------------------------------------------------------------
(* What the tables keep, for callers that follow all rules.                  *)

\* What tables, columns, rows and indices are made of.
ColType == [name : ColNames, cid : 1..MaxCols, flags : SUBSET Flags, last : Int, unique : BOOLEAN]
RowType == [rid : Nat, nfields : Nat \ {0}, fields : [1..MaxCols -> Fields]]
Indexes == {None} \cup UNION {[D -> Nat] : D \in SUBSET Fields}
TableType == [name : Names, cols : Seq(ColType), keyCol : Nat, indexCol : Nat,
              index : Indexes, rows : Seq(RowType)]

\* The first column is the key, and alone has flags; rows are read in the order of columns.
Schemed(cols) ==
    /\ Len(cols) <= MaxCols
    /\ \A c \in DOMAIN cols : IF c = 1 THEN {"auto", "key"} \subseteq cols[c].flags
                              ELSE cols[c].flags = {}

\* Columns are numbered in their order, and have distinct names.
Columns(t) ==
    /\ Schemed(t.cols)
    /\ \A c \in DOMAIN t.cols : t.cols[c].cid = c
    /\ \A c, d \in DOMAIN t.cols : t.cols[c].name = t.cols[d].name => c = d
    /\ t.cols # <<>> => t.cols[1].last \in 0..MaxId
    /\ t.keyCol \in {0, 1} /\ t.indexCol \in {0, 1}
    /\ t.rows # <<>> => t.cols # <<>>

\* The key of a row of a table.
KeyOf(t, r) == t.rows[r].fields[1]

\* Keys are distinct, and not ahead of the automatic numbers.
Keyed(t) ==
    /\ \A r \in DOMAIN t.rows : KeyOf(t, r) \in 1..t.cols[1].last
    /\ \A r, q \in DOMAIN t.rows : KeyOf(t, r) = KeyOf(t, q) => r = q

\* The index has the position of every key, which is the row's own.
Indexed(t) ==
    t.index # None =>
        /\ t.cols # <<>> /\ t.indexCol = 1 /\ "index" \in t.cols[1].flags
        /\ \A r \in DOMAIN t.rows : t.rows[r].rid = r /\ KeyOf(t, r) \in DOMAIN t.index
        /\ \A k \in DOMAIN t.index : t.index[k] \in DOMAIN t.rows /\ KeyOf(t, t.index[k]) = k

\* A consistent table.
TableInv(t) == t \in TableType /\ Columns(t) /\ Keyed(t) /\ Indexed(t)

\* A record begins with its key, or has none.
RecInv(rec) ==
    /\ rec \in RecType
    /\ rec.fields # <<>> /\ rec.fields[1] = rec.id

\* An image has the keys of the rows in its first column, and no null.
ImageInv(im) ==
    /\ im \in ImageType
    /\ Schemed(im.cols)
    /\ im.rows # <<>> => im.cols # <<>>
    /\ \A r \in DOMAIN im.rows : Len(im.rows[r]) = Len(im.cols) /\ im.rows[r][1] \in Ids
    /\ \A r \in DOMAIN im.rows : \A c \in 1..Len(im.cols) : im.rows[r][c] # Null
    /\ \A r, q \in DOMAIN im.rows : im.rows[r][1] = im.rows[q][1] => r = q

\* Tables are consistent and have distinct names.
TablesInv(ts) ==
    /\ ts \in Seq(TableType)
    /\ \A i \in DOMAIN ts : TableInv(ts[i])
    /\ \A i, j \in DOMAIN ts : ts[i].name = ts[j].name => i = j

\* Requests hold such records.
HeldInv ==
    /\ DOMAIN held = Requests
    /\ \A t \in Requests : held[t] = None \/ RecInv(held[t])

\* The files have images that can be loaded, or nothing.
ImagesInv ==
    /\ DOMAIN file = Files
    /\ \A f \in Files : \/ file[f] \in {None, Torn}
                        \/ file[f] \in Seq(ImageType) /\ \A i \in DOMAIN file[f] : ImageInv(file[f][i])

\* The invariant: lookups depend on the tables, the tables on the records that are
\* written to them and on the images that they are loaded from.
DbInv == TablesInv(tables) /\ HeldInv /\ ImagesInv
-----------------------------------------------------------------------------
(* Induction, the least of some numbers, and what loops compute.             *)

\* Induction over the natural numbers, for a set rather than an operator.
LEMMA Induct ==
    ASSUME NEW S \in SUBSET Nat, 0 \in S, \A n \in S : n + 1 \in S
    PROVE  S = Nat
<1> SUFFICES ASSUME Nat \ S # {} PROVE FALSE
  OBVIOUS
<1> DEFINE Less == {p \in Nat \X Nat : p[1] < p[2]}
<1>1. IsWellFoundedOn(Less, Nat)
  BY NatLessThanWellFounded DEF OpToRel
<1>2. \A x, y \in Nat : y < x => <<y, x>> \in Less
  OBVIOUS
<1> HIDE DEF Less
<1>3. PICK x \in Nat \ S : \A y \in Nat \ S : <<y, x>> \notin Less
  BY <1>1, WFMin, Zenon
<1>4. x # 0
  BY <1>3
<1>5. x - 1 \in Nat /\ x - 1 < x
  BY <1>3, <1>4
<1>6. x - 1 \in S
  BY <1>2, <1>3, <1>5
<1> QED
  BY <1>3, <1>5, <1>6

\* The least number of a set of positions.
LEMMA MinOfNats ==
    ASSUME NEW S \in SUBSET Nat, S # {}
    PROVE  Min(S) \in S /\ \A x \in S : Min(S) <= x
<1> DEFINE Less == {p \in Nat \X Nat : p[1] < p[2]}
<1>1. IsWellFoundedOn(Less, Nat)
  BY NatLessThanWellFounded DEF OpToRel
<1>2. \A x, y \in Nat : y < x => <<y, x>> \in Less
  OBVIOUS
<1> HIDE DEF Less
<1>3. PICK x \in S : \A y \in S : <<y, x>> \notin Less
  BY <1>1, WFMin, Zenon
<1>4. ASSUME NEW y \in S PROVE x <= y
  <2>1. x \in Nat /\ y \in Nat
    OBVIOUS
  <2>2. ~(y < x)
    BY <1>2, <1>3, <2>1
  <2> QED
    BY <2>1, <2>2
<1> QED
  BY <1>3, <1>4 DEF Min

\* The greater of two numbers.
LEMMA GreaterOfTwo ==
    ASSUME NEW a \in Int, NEW b \in Int
    PROVE  Max({a, b}) = IF a >= b THEN a ELSE b
<1> DEFINE m == IF a >= b THEN a ELSE b
<1>1. m \in {a, b} /\ \A y \in {a, b} : m >= y
  OBVIOUS
<1>2. \A x \in {a, b} : (\A y \in {a, b} : x >= y) => x = m
  OBVIOUS
<1> QED
  BY <1>1, <1>2 DEF Max

\* The lesser of two numbers.
LEMMA LesserOfTwo ==
    ASSUME NEW a \in Int, NEW b \in Int
    PROVE  Min({a, b}) = IF a <= b THEN a ELSE b
<1> DEFINE m == IF a <= b THEN a ELSE b
<1>1. m \in {a, b} /\ \A y \in {a, b} : m <= y
  OBVIOUS
<1>2. \A x \in {a, b} : (\A y \in {a, b} : x <= y) => x = m
  OBVIOUS
<1> QED
  BY <1>1, <1>2 DEF Min

\* The first of some positions, and 0 if there are none.
LEMMA FirstInNats ==
    ASSUME NEW S \in SUBSET (Nat \ {0})
    PROVE  /\ FirstIn(S) = 0 <=> S = {}
           /\ S # {} => FirstIn(S) \in S /\ \A x \in S : FirstIn(S) <= x
<1>1. CASE S = {}
  BY <1>1 DEF FirstIn
<1>2. CASE S # {}
  <2>1. Min(S) \in S /\ \A x \in S : Min(S) <= x
    BY <1>2, MinOfNats
  <2> QED
    BY <1>2, <2>1 DEF FirstIn
<1> QED
  BY <1>1, <1>2

\* The tables that the loop of mdbUpdateRec goes through.
FieldSteps(u, n, t, r, fields) ==
    u[0] = t /\ \A k \in 1..n : u[k] = updateFieldValue(u[k - 1], r, k, fields[k])

\* UpdateFields is the last table of that loop.
LEMMA FieldsOneByOne ==
    ASSUME NEW t, NEW r, NEW fields, NEW n \in Nat, n = Min({Len(fields), Len(t.cols)})
    PROVE  \E u : FieldSteps(u, n, t, r, fields) /\ UpdateFields(t, r, fields) = u[n]
<1> DEFINE Next1(f, k) == IF k = 0 THEN t ELSE updateFieldValue(f[k - 1], r, k, fields[k])
           Good(f, m) == f = [k \in 0..m |-> Next1(f, k)]
           S == {m \in Nat : \E f : Good(f, m)}
<1>1. 0 \in S
  <2> DEFINE f == [k \in 0..0 |-> t]
  <2>1. Good(f, 0)
    OBVIOUS
  <2> QED
    BY <2>1
<1>2. ASSUME NEW m \in S PROVE m + 1 \in S
  <2>1. PICK f : Good(f, m)
    BY <1>2
  <2> DEFINE x == Next1(f, m + 1)
             g == [k \in 0..(m + 1) |-> IF k = m + 1 THEN x ELSE f[k]]
  <2>2. m \in Nat
    BY <1>2
  <2> HIDE DEF x
  <2>3. \A k \in 0..m : g[k] = f[k]
    BY <2>2
  <2>4. \A k \in 0..m : Next1(g, k) = Next1(f, k)
    BY <2>2, <2>3
  <2>5. \A k \in 0..m : f[k] = Next1(f, k)
    <3> HIDE DEF Next1
    <3> QED
      BY <2>1
  <2>6. g[m + 1] = x /\ Next1(g, m + 1) = x
    BY <2>2, <2>3 DEF x
  <2>7. \A k \in 0..(m + 1) : g[k] = Next1(g, k)
    <3> HIDE DEF Next1, g
    <3> SUFFICES ASSUME NEW k \in 0..(m + 1) PROVE g[k] = Next1(g, k)
      OBVIOUS
    <3>1. CASE k = m + 1
      BY <2>6, <3>1
    <3>2. CASE k # m + 1
      <4>1. k \in 0..m
        BY <2>2, <3>2
      <4> QED
        BY <4>1, <2>3, <2>4, <2>5
    <3> QED
      BY <3>1, <3>2
  <2>8. g = [k \in 0..(m + 1) |-> g[k]]
    OBVIOUS
  <2>9. Good(g, m + 1)
    <3> HIDE DEF Next1, g
    <3> QED
      BY <2>7, <2>8
  <2> HIDE DEF Good
  <2> QED
    BY <2>2, <2>9
<1>3. n \in S
  <2> HIDE DEF S
  <2>1. S = Nat
    <3>1. S \in SUBSET Nat
      BY DEF S
    <3> QED
      BY <1>1, <1>2, <3>1, Induct
  <2> QED
    BY <2>1
<1> DEFINE u == CHOOSE f : Good(f, n)
<1>4. Good(u, n)
  <2>1. \E f : Good(f, n)
    BY <1>3
  <2> QED
    BY <2>1, Zenon
<1>5. UpdateFields(t, r, fields) = u[n]
  BY DEF UpdateFields, Iterate
<1>6. \A k \in 0..n : u[k] = Next1(u, k)
  <2> HIDE DEF Next1, u
  <2> QED
    BY <1>4 DEF u
<1> HIDE DEF u
<1>7. u[0] = t
  BY <1>6
<1>8. ASSUME NEW k \in 1..n PROVE u[k] = updateFieldValue(u[k - 1], r, k, fields[k])
  <2>1. k \in 0..n /\ k # 0
    OBVIOUS
  <2> QED
    BY <1>6, <2>1, Zenon
<1> QED
  BY <1>5, <1>7, <1>8 DEF FieldSteps

\* The tables that the loop of the loader goes through.
RowSteps(u, n, im) ==
    u[0] = LoadSchema(im) /\ \A k \in 1..n : u[k] = LoadRow(u[k - 1], im.rows[k])

\* LoadTable is the last table of that loop.
LEMMA RowsOneByOne ==
    ASSUME NEW im, NEW n \in Nat, n = Len(im.rows)
    PROVE  \E u : RowSteps(u, n, im) /\ LoadTable(im) = u[n]
<1> DEFINE Next1(f, k) == IF k = 0 THEN LoadSchema(im) ELSE LoadRow(f[k - 1], im.rows[k])
           Good(f, m) == f = [k \in 0..m |-> Next1(f, k)]
           S == {m \in Nat : \E f : Good(f, m)}
<1>1. 0 \in S
  <2> DEFINE f == [k \in 0..0 |-> LoadSchema(im)]
  <2>1. Good(f, 0)
    OBVIOUS
  <2> QED
    BY <2>1
<1>2. ASSUME NEW m \in S PROVE m + 1 \in S
  <2>1. PICK f : Good(f, m)
    BY <1>2
  <2> DEFINE x == Next1(f, m + 1)
             g == [k \in 0..(m + 1) |-> IF k = m + 1 THEN x ELSE f[k]]
  <2>2. m \in Nat
    BY <1>2
  <2> HIDE DEF x
  <2>3. \A k \in 0..m : g[k] = f[k]
    BY <2>2
  <2>4. \A k \in 0..m : Next1(g, k) = Next1(f, k)
    BY <2>2, <2>3
  <2>5. \A k \in 0..m : f[k] = Next1(f, k)
    <3> HIDE DEF Next1
    <3> QED
      BY <2>1
  <2>6. g[m + 1] = x /\ Next1(g, m + 1) = x
    BY <2>2, <2>3 DEF x
  <2>7. \A k \in 0..(m + 1) : g[k] = Next1(g, k)
    <3> HIDE DEF Next1, g
    <3> SUFFICES ASSUME NEW k \in 0..(m + 1) PROVE g[k] = Next1(g, k)
      OBVIOUS
    <3>1. CASE k = m + 1
      BY <2>6, <3>1
    <3>2. CASE k # m + 1
      <4>1. k \in 0..m
        BY <2>2, <3>2
      <4> QED
        BY <4>1, <2>3, <2>4, <2>5
    <3> QED
      BY <3>1, <3>2
  <2>8. g = [k \in 0..(m + 1) |-> g[k]]
    OBVIOUS
  <2>9. Good(g, m + 1)
    <3> HIDE DEF Next1, g
    <3> QED
      BY <2>7, <2>8
  <2> HIDE DEF Good
  <2> QED
    BY <2>2, <2>9
<1>3. n \in S
  <2> HIDE DEF S
  <2>1. S = Nat
    <3>1. S \in SUBSET Nat
      BY DEF S
    <3> QED
      BY <1>1, <1>2, <3>1, Induct
  <2> QED
    BY <2>1
<1> DEFINE u == CHOOSE f : Good(f, n)
<1>4. Good(u, n)
  <2>1. \E f : Good(f, n)
    BY <1>3
  <2> QED
    BY <2>1, Zenon
<1>5. LoadTable(im) = u[n]
  BY DEF LoadTable, Iterate
<1>6. \A k \in 0..n : u[k] = Next1(u, k)
  <2> HIDE DEF Next1, u
  <2> QED
    BY <1>4 DEF u
<1> HIDE DEF u
<1>7. u[0] = LoadSchema(im)
  BY <1>6
<1>8. ASSUME NEW k \in 1..n PROVE u[k] = LoadRow(u[k - 1], im.rows[k])
  <2>1. k \in 0..n /\ k # 0
    OBVIOUS
  <2> QED
    BY <1>6, <2>1, Zenon
<1> QED
  BY <1>5, <1>7, <1>8 DEF RowSteps
-----------------------------------------------------------------------------
(* One field of a row.                                                       *)

\* The field, the last number and the index that updateFieldValue leaves.
NewField(t, c, v) == IF "auto" \in t.cols[c].flags /\ v = Null THEN t.cols[c].last + 1 ELSE sclone(v)
NewLast(t, c, v)  == IF "auto" \notin t.cols[c].flags THEN t.cols[c].last
                     ELSE IF v = Null THEN t.cols[c].last + 1 ELSE Follow(t.cols[c].last, v)
NewIndex(t, r, c, v) ==
    IF "index" \notin t.cols[c].flags \/ t.index = None THEN t.index
    ELSE IF v = Null /\ "auto" \notin t.cols[c].flags THEN Unkey(t.index, t.rows[r].fields[c])
    ELSE Key(Unkey(t.index, t.rows[r].fields[c]), NewField(t, c, v), t.rows[r].rid)

\* u is t after updateFieldValue.
Updated(u, t, r, c, v) ==
    /\ u \in TableType
    /\ u.name = t.name /\ u.keyCol = t.keyCol /\ u.indexCol = t.indexCol
    /\ u.index = NewIndex(t, r, c, v)
    /\ Len(u.cols) = Len(t.cols) /\ Len(u.rows) = Len(t.rows)
    /\ \A d \in DOMAIN t.cols : u.cols[d] = [t.cols[d] EXCEPT !.last = IF d = c THEN NewLast(t, c, v) ELSE @]
    /\ \A q \in DOMAIN t.rows :
          IF q = r THEN u.rows[q] = [t.rows[q] EXCEPT !.fields = [t.rows[q].fields EXCEPT ![c] = NewField(t, c, v)]]
          ELSE u.rows[q] = t.rows[q]

\* The sequences of a table are sequences.
LEMMA LengthsOfTables ==
    ASSUME NEW t \in TableType
    PROVE  /\ Len(t.cols) \in Nat /\ DOMAIN t.cols = 1..Len(t.cols)
           /\ Len(t.rows) \in Nat /\ DOMAIN t.rows = 1..Len(t.rows)
           /\ \A c \in DOMAIN t.cols : t.cols[c] \in ColType
           /\ \A r \in DOMAIN t.rows : t.rows[r] \in RowType
  BY DEF TableType

\* What a step of the loop changes in a table.
LEMMA UpdateChanges ==
    ASSUME NEW t \in TableType, NEW c \in DOMAIN t.cols, NEW r \in DOMAIN t.rows, NEW v \in Fields,
           t.cols[c].cid = c, NewIndex(t, r, c, v) \in Indexes,
           NEW u, u = updateFieldValue(t, r, c, v)
    PROVE  Updated(u, t, r, c, v)
<1> DEFINE new == NewField(t, c, v)
           last == NewLast(t, c, v)
           index == NewIndex(t, r, c, v)
           col == [t.cols[c] EXCEPT !.last = last]
           row == [t.rows[r] EXCEPT !.fields = [t.rows[r].fields EXCEPT ![c] = new]]
           cols == [t.cols EXCEPT ![c] = col]
           rows == [t.rows EXCEPT ![r] = row]
<1>1. u = [t EXCEPT !.rows = rows, !.cols = cols, !.index = index]
  <2>1. updateFieldValue(t, r, c, v) = [t EXCEPT !.rows = rows, !.cols = cols, !.index = index]
    <3>1. NewField(t, c, v) = IF "auto" \in t.cols[c].flags /\ v = Null THEN t.cols[c].last + 1 ELSE sclone(v)
      BY DEF NewField
    <3> HIDE DEF new
    <3> QED
      BY <3>1 DEF updateFieldValue, NewLast, NewIndex, TableType, new
  <2> QED
    BY <2>1
<1>2. t.cols[c] \in ColType /\ t.rows[r] \in RowType
  BY LengthsOfTables
<1>3. new \in Fields
  BY <1>2 DEF NewField, sclone, Fields, ColType
<1>4. last \in Int
  <2>1. t.cols[c].last \in Int /\ stoi(v) \in Int
    BY <1>2 DEF ColType, stoi
  <2>2. Max({t.cols[c].last, stoi(v)}) \in Int
    BY <2>1, GreaterOfTwo
  <2> QED
    BY <2>1, <2>2 DEF NewLast, Follow
<1> HIDE DEF new, last, index
<1>5. col \in ColType
  BY <1>2, <1>4 DEF ColType
<1>6. row \in RowType
  BY <1>2, <1>3 DEF RowType
<1>7. /\ t.cols \in Seq(ColType) /\ t.rows \in Seq(RowType) /\ t.name \in Names
      /\ t.keyCol \in Nat /\ t.indexCol \in Nat
      /\ index \in Indexes
  BY DEF TableType, index
<1>8. /\ cols \in Seq(ColType) /\ Len(cols) = Len(t.cols)
      /\ \A d \in DOMAIN t.cols : cols[d] = IF d = c THEN col ELSE t.cols[d]
  <2> HIDE DEF col
  <2> QED
    BY <1>5, <1>7, ExceptSeq
<1>9. /\ rows \in Seq(RowType) /\ Len(rows) = Len(t.rows)
      /\ \A q \in DOMAIN t.rows : rows[q] = IF q = r THEN row ELSE t.rows[q]
  <2> HIDE DEF row
  <2> QED
    BY <1>6, <1>7, ExceptSeq
<1> HIDE DEF cols, rows
<1>10. /\ u.name = t.name /\ u.keyCol = t.keyCol /\ u.indexCol = t.indexCol
       /\ u.index = index /\ u.cols = cols /\ u.rows = rows /\ u \in TableType
  <2> t \in [name : Names, cols : Seq(ColType), keyCol : Nat, indexCol : Nat,
              index : Indexes, rows : Seq(RowType)]
    BY DEF TableType
  <2> QED
    BY <1>1, <1>7, <1>8, <1>9 DEF TableType
<1>11. ASSUME NEW d \in DOMAIN t.cols
       PROVE  cols[d] = [t.cols[d] EXCEPT !.last = IF d = c THEN last ELSE @]
  <2>1. CASE d = c
    BY <1>8, <2>1
  <2>2. CASE d # c
    <3>1. t.cols[d] \in ColType
      BY LengthsOfTables
    <3> QED
      BY <1>8, <2>2, <3>1 DEF ColType
  <2> QED
    BY <2>1, <2>2
<1> QED
  BY <1>8, <1>9, <1>10, <1>11 DEF last, index, row, new, Updated

\* A table stays consistent when the keys and the positions of its rows are kept.
LEMMA SameKeys ==
    ASSUME NEW t, TableInv(t), NEW u \in TableType,
           u.cols = t.cols, u.index = t.index, u.keyCol = t.keyCol, u.indexCol = t.indexCol,
           Len(u.rows) = Len(t.rows),
           \A q \in DOMAIN t.rows : KeyOf(u, q) = KeyOf(t, q) /\ u.rows[q].rid = t.rows[q].rid
    PROVE  TableInv(u)
<1>1. t \in TableType
  BY DEF TableInv
<1>2. DOMAIN u.rows = DOMAIN t.rows /\ (u.rows # <<>> => t.rows # <<>>)
  BY <1>1, LengthsOfTables
<1>3. Columns(u)
  BY <1>2 DEF TableInv, Columns
<1>4. Keyed(u)
  BY <1>2 DEF TableInv, Keyed
<1>5. Indexed(u)
  BY <1>2 DEF TableInv, Indexed
<1> QED
  BY <1>3, <1>4, <1>5 DEF TableInv

\* Of the rows, r alone differs, in column c.
OneField(u, t, r, c, v) ==
    /\ u.name = t.name /\ u.cols = t.cols /\ u.index = t.index /\ Len(u.rows) = Len(t.rows)
    /\ \A q \in DOMAIN t.rows :
          IF q = r THEN u.rows[q] = [t.rows[q] EXCEPT !.fields = [t.rows[q].fields EXCEPT ![c] = v]]
          ELSE u.rows[q] = t.rows[q]

\* A value of a column other than the key changes nothing else.
LEMMA PlainStep ==
    ASSUME NEW t, TableInv(t), NEW c \in DOMAIN t.cols, c # 1, NEW r \in DOMAIN t.rows, NEW v \in Fields,
           NEW u, u = updateFieldValue(t, r, c, v)
    PROVE  TableInv(u) /\ OneField(u, t, r, c, sclone(v))
<1>1. t \in TableType
  BY DEF TableInv
<1>2. t.cols[c].flags = {} /\ t.cols[c].cid = c
  BY DEF TableInv, Columns, Schemed
<1>3. NewField(t, c, v) = sclone(v) /\ NewLast(t, c, v) = t.cols[c].last /\ NewIndex(t, r, c, v) = t.index
  BY <1>2 DEF NewField, NewLast, NewIndex
<1>4. t.index \in Indexes
  BY <1>1 DEF TableType
<1>5. Updated(u, t, r, c, v)
  <2>1. NewIndex(t, r, c, v) \in Indexes
    BY <1>3, <1>4
  <2> QED
    BY <1>1, <1>2, <2>1, UpdateChanges
<1>6. u.cols = t.cols
  <2>1. ASSUME NEW d \in DOMAIN t.cols PROVE u.cols[d] = t.cols[d]
    <3>1. t.cols[d] \in ColType
      BY <1>1, LengthsOfTables
    <3>2. u.cols[d] = [t.cols[d] EXCEPT !.last = IF d = c THEN NewLast(t, c, v) ELSE @]
      BY <1>5 DEF Updated
    <3>3. u.cols[d] = [t.cols[d] EXCEPT !.last = t.cols[d].last]
      BY <1>3, <3>2
    <3> QED
      BY <3>1, <3>3 DEF ColType
  <2>2. u.cols \in Seq(ColType) /\ t.cols \in Seq(ColType)
    BY <1>1, <1>5 DEF TableType, Updated
  <2> QED
    BY <1>5, <2>1, <2>2 DEF Updated
<1>7. ASSUME NEW q \in DOMAIN t.rows
      PROVE  KeyOf(u, q) = KeyOf(t, q) /\ u.rows[q].rid = t.rows[q].rid
  <2>1. t.rows[q] \in RowType
    BY <1>1, LengthsOfTables
  <2>2. CASE q = r
    <3>1. u.rows[q] = [t.rows[q] EXCEPT !.fields = [t.rows[q].fields EXCEPT ![c] = sclone(v)]]
      BY <1>3, <1>5, <2>2 DEF Updated
    <3>2. t.rows[q].fields \in [1..MaxCols -> Fields] /\ 1 \in 1..MaxCols
      BY <2>1, MdbAssumption DEF RowType
    <3>3. [t.rows[q].fields EXCEPT ![c] = sclone(v)][1] = t.rows[q].fields[1]
      BY <3>2
    <3> QED
      BY <2>1, <3>1, <3>3 DEF KeyOf, RowType
  <2>3. CASE q # r
    BY <1>5, <2>3 DEF KeyOf, Updated
  <2> QED
    BY <2>2, <2>3
<1>8. TableInv(u)
  BY <1>3, <1>5, <1>6, <1>7, SameKeys DEF Updated
<1> QED
  BY <1>3, <1>5, <1>6, <1>8 DEF Updated, OneField

\* lookupRow finds the row that has the key, through the index or without.
LEMMA LookupFinds ==
    ASSUME NEW t, TableInv(t), NEW k \in Ids
    PROVE  \/ lookupRow(t, k) = 0 /\ \A r \in DOMAIN t.rows : KeyOf(t, r) # k
           \/ lookupRow(t, k) \in DOMAIN t.rows /\ KeyOf(t, lookupRow(t, k)) = k
<1>1. t \in TableType
  BY DEF TableInv
<1>2. CASE t.index # None
  BY <1>2 DEF TableInv, Indexed, lookupRow
<1>3. CASE t.index = None
  <2>1. KeyCid(t) = 1
    BY DEF TableInv, Columns, KeyCid
  <2> DEFINE S == {r \in DOMAIN t.rows : KeyOf(t, r) = k}
  <2>2. lookupRow(t, k) = FirstIn(S)
    BY <1>3, <2>1 DEF lookupRow, KeyOf
  <2>3. S \in SUBSET (Nat \ {0})
    BY <1>1, LengthsOfTables
  <2>4. (FirstIn(S) = 0 <=> S = {}) /\ (S # {} => FirstIn(S) \in S)
    BY <2>3, FirstInNats
  <2> QED
    BY <2>2, <2>4
<1> QED
  BY <1>2, <1>3

\* A row that is made, before its fields are set.
LEMMA RowMade ==
    ASSUME NEW t \in TableType, NEW w, w = createRow(t)
    PROVE  /\ w \in TableType
           /\ w.name = t.name /\ w.cols = t.cols /\ w.index = t.index
           /\ w.keyCol = t.keyCol /\ w.indexCol = t.indexCol
           /\ Len(w.rows) = Len(t.rows) + 1
           /\ \A q \in DOMAIN t.rows : w.rows[q] = t.rows[q]
           /\ w.rows[Len(t.rows) + 1] = NewRow(t)
           /\ NewRow(t) \in RowType
<1>1. Len(t.cols) \in Nat /\ Len(t.rows) \in Nat
  BY LengthsOfTables
<1>2. Max({1, Len(t.cols)}) \in Nat \ {0}
  BY <1>1, GreaterOfTwo
<1>3. NewRow(t) \in RowType
  BY <1>1, <1>2 DEF NewRow, RowType, Fields
<1>4. t.rows \in Seq(RowType)
  BY DEF TableType
<1> DEFINE row == NewRow(t)
           rows == Append(t.rows, row)
<1>5. /\ rows \in Seq(RowType) /\ Len(rows) = Len(t.rows) + 1
      /\ \A q \in DOMAIN t.rows : rows[q] = t.rows[q]
      /\ rows[Len(t.rows) + 1] = row
  <2> HIDE DEF row
  <2> QED
    BY <1>3, <1>4, AppendProperties DEF row
<1>6. w = [t EXCEPT !.rows = rows]
  BY DEF createRow
<1> HIDE DEF rows
<1> QED
  BY <1>3, <1>5, <1>6 DEF TableType, row

\* Row r is new, with the key v or an automatic one.
MadeRow(u, t, r, v) ==
    /\ u.name = t.name
    /\ Len(u.cols) = Len(t.cols) /\ Len(u.rows) = r
    /\ \A q \in DOMAIN t.rows : u.rows[q] = t.rows[q]
    /\ v # Null => KeyOf(u, r) = v
    /\ \A d \in 2..MaxCols : u.rows[r].fields[d] = Null

\* The key of a new row: its own, which no row has, or the next number.
LEMMA KeyStep ==
    ASSUME NEW t, TableInv(t), t.cols # <<>>, NEW v \in Ids \cup {Null},
           v = Null => t.cols[1].last < MaxId,
           v # Null => \A q \in DOMAIN t.rows : KeyOf(t, q) # v,
           NEW r, r = Len(t.rows) + 1,
           NEW u, u = updateFieldValue(createRow(t), r, 1, v)
    PROVE  TableInv(u) /\ MadeRow(u, t, r, v)
<1> DEFINE w == createRow(t)
           new == NewField(w, 1, v)
           last == NewLast(w, 1, v)
           index == NewIndex(w, r, 1, v)
<1>1. t \in TableType
  BY DEF TableInv
<1>2. /\ w \in TableType
      /\ w.name = t.name /\ w.cols = t.cols /\ w.index = t.index
      /\ w.keyCol = t.keyCol /\ w.indexCol = t.indexCol
      /\ Len(w.rows) = r
      /\ \A q \in DOMAIN t.rows : w.rows[q] = t.rows[q]
      /\ w.rows[r] = NewRow(t)
      /\ NewRow(t) \in RowType
  BY <1>1, RowMade
<1>3. /\ 1 \in DOMAIN t.cols /\ t.cols[1] \in ColType
      /\ "auto" \in t.cols[1].flags /\ t.cols[1].cid = 1 /\ t.cols[1].last \in 0..MaxId
  <2>1. 1 \in DOMAIN t.cols
    BY <1>1 DEF TableType
  <2> QED
    BY <1>1, <2>1, LengthsOfTables DEF TableInv, Columns, Schemed
<1> HIDE DEF w
<1>4. MaxId \in Nat /\ Null \notin Ids
  BY MdbAssumption
<1>5. new \in Ids /\ last \in 0..MaxId /\ new \in 1..last /\ t.cols[1].last <= last
  <2>1. CASE v = Null
    BY SMTT(40), <1>2, <1>3, <1>4, <2>1 DEF NewField, NewLast, Ids
  <2>2. CASE v # Null
    <3>1. v \in Ids /\ stoi(v) = v
      BY <2>2 DEF Ids, stoi
    <3>2. new = v /\ last = Max({t.cols[1].last, v})
      BY <1>2, <1>3, <2>2, <3>1 DEF NewField, sclone, NewLast, Follow
    <3>3. last = IF t.cols[1].last >= v THEN t.cols[1].last ELSE v
      BY <1>3, <3>1, <3>2, GreaterOfTwo DEF Ids
    <3> QED
      BY <1>3, <1>4, <3>1, <3>2, <3>3 DEF Ids
  <2> QED
    BY <2>1, <2>2
<1>6. \A q \in DOMAIN t.rows : KeyOf(t, q) # new
  <2>1. CASE v = Null
    <3>1. new = t.cols[1].last + 1
      BY <1>2, <1>3, <2>1 DEF NewField
    <3>2. \A q \in DOMAIN t.rows : KeyOf(t, q) \in 1..t.cols[1].last
      BY DEF TableInv, Keyed
    <3> QED
      BY <1>3, <3>1, <3>2
  <2>2. CASE v # Null
    BY <2>2 DEF NewField, sclone
  <2> QED
    BY <2>1, <2>2
<1>7. /\ t.index = None => index = None
      /\ t.index # None => index = [k \in DOMAIN t.index \cup {new} |-> IF k = new THEN r ELSE t.index[k]]
  <2>1. CASE t.index = None
    BY <1>2, <2>1 DEF NewIndex
  <2>2. CASE t.index # None
    <3>1. "index" \in t.cols[1].flags
      BY <2>2 DEF TableInv, Indexed
    <3>2. w.rows[r].fields[1] = Null /\ w.rows[r].rid = r
      BY <1>2, MdbAssumption DEF NewRow
    <3>3. Null \notin DOMAIN t.index
      <4> SUFFICES ASSUME Null \in DOMAIN t.index PROVE FALSE
        OBVIOUS
      <4>1. t.index[Null] \in DOMAIN t.rows /\ KeyOf(t, t.index[Null]) = Null
        BY <2>2 DEF TableInv, Indexed
      <4>2. Null \in 1..t.cols[1].last
        BY <4>1 DEF TableInv, Keyed
      <4> QED
        BY <1>3, <1>4, <4>2 DEF Ids
    <3>4. new # Null
      BY <1>4, <1>5
    <3>5. index = Key(Unkey(t.index, Null), new, r)
      <4>1. "index" \in w.cols[1].flags /\ "auto" \in w.cols[1].flags /\ w.index # None
        BY <1>2, <1>3, <2>2, <3>1
      <4>2. index = Key(Unkey(w.index, w.rows[r].fields[1]), new, w.rows[r].rid)
        BY <4>1 DEF NewIndex
      <4> HIDE DEF new, index
      <4> QED
        BY <1>2, <3>2, <4>2
    <3>6. DOMAIN Unkey(t.index, Null) = DOMAIN t.index /\ \A k \in DOMAIN t.index : Unkey(t.index, Null)[k] = t.index[k]
      BY <3>3 DEF Unkey
    <3> HIDE DEF new, index
    <3> QED
      BY <2>2, <3>5, <3>6 DEF Key
  <2> QED
    BY <2>1, <2>2
<1>8. index \in Indexes
  <2>1. CASE t.index = None
    BY <1>7, <2>1 DEF Indexes
  <2>2. CASE t.index # None
    <3>1. t.index \in Indexes
      BY <1>1 DEF TableType
    <3>2. PICK D \in SUBSET Fields : t.index \in [D -> Nat]
      BY <2>2, <3>1 DEF Indexes
    <3>3. new \in Fields /\ r \in Nat
      BY <1>1, <1>5, LengthsOfTables DEF Fields, Ids
    <3> HIDE DEF new, index
    <3>4. index \in [D \cup {new} -> Nat] /\ D \cup {new} \in SUBSET Fields
      BY <1>7, <2>2, <3>2, <3>3
    <3> QED
      BY <3>4 DEF Indexes
  <2> QED
    BY <2>1, <2>2
<1>9. Updated(u, w, r, 1, v)
  <2>1. v \in Fields
    BY DEF Fields, Ids
  <2>2. 1 \in DOMAIN w.cols /\ w.cols[1].cid = 1
    BY <1>2, <1>3
  <2>3. r \in DOMAIN w.rows
    BY <1>1, <1>2, LengthsOfTables
  <2>4. u = updateFieldValue(w, r, 1, v)
    BY DEF w
  <2> QED
    BY <1>2, <1>8, <2>1, <2>2, <2>3, <2>4, UpdateChanges
<1> HIDE DEF new, last, index
<1>10. /\ Len(u.cols) = Len(t.cols) /\ Len(u.rows) = r /\ u.name = t.name /\ u.index = index
       /\ u.keyCol = t.keyCol /\ u.indexCol = t.indexCol /\ u \in TableType
  BY <1>2, <1>9 DEF Updated, index
<1>11. \A q \in DOMAIN t.rows : u.rows[q] = t.rows[q]
  <2> SUFFICES ASSUME NEW q \in DOMAIN t.rows PROVE u.rows[q] = t.rows[q]
    OBVIOUS
  <2>1. q \in DOMAIN w.rows /\ q # r
    BY <1>1, <1>2, LengthsOfTables
  <2> QED
    BY <1>2, <1>9, <2>1 DEF Updated
<1>12. u.rows[r] = [NewRow(t) EXCEPT !.fields = [NewRow(t).fields EXCEPT ![1] = new]]
  <2>1. r \in DOMAIN w.rows
    BY <1>1, <1>2, LengthsOfTables
  <2> QED
    BY <1>2, <1>9, <2>1 DEF Updated, new
<1>13. /\ KeyOf(u, r) = new /\ u.rows[r].rid = r
       /\ \A d \in 2..MaxCols : u.rows[r].fields[d] = Null
  BY SMTT(60), <1>12, MdbAssumption DEF NewRow, KeyOf
<1>14. \A d \in DOMAIN t.cols : u.cols[d] = [t.cols[d] EXCEPT !.last = IF d = 1 THEN last ELSE @]
  BY ZenonT(60), <1>2, <1>9 DEF Updated, last
<1>15. /\ DOMAIN t.rows = 1..(r - 1) /\ r \in Nat \ {0} /\ DOMAIN u.rows = 1..r
       /\ DOMAIN u.cols = DOMAIN t.cols /\ Len(t.cols) \in Nat
  BY <1>1, <1>10, LengthsOfTables
<1>16. /\ \A d \in DOMAIN t.cols : /\ u.cols[d].name = t.cols[d].name /\ u.cols[d].cid = t.cols[d].cid
                                  /\ u.cols[d].flags = t.cols[d].flags
       /\ u.cols[1].last = last
  <2>1. \A d \in DOMAIN t.cols : t.cols[d] \in ColType
    BY <1>1, LengthsOfTables
  <2> QED
    BY ZenonT(40), <1>3, <1>14, <2>1 DEF ColType
<1>17. Columns(u)
  <2>1. Columns(t) /\ u.cols # <<>>
    BY <1>3, <1>15 DEF TableInv
  <2> QED
    BY SMTT(40), <1>5, <1>10, <1>15, <1>16, <2>1 DEF Columns, Schemed
<1>18. Keyed(u)
  <2>1. \A q \in DOMAIN t.rows : KeyOf(u, q) = KeyOf(t, q)
    BY <1>11 DEF KeyOf
  <2>2. \A q \in DOMAIN t.rows : KeyOf(t, q) \in 1..last
    BY <1>3, <1>5 DEF TableInv, Keyed
  <2>3. \A p, q \in DOMAIN t.rows : KeyOf(t, p) = KeyOf(t, q) => p = q
    BY DEF TableInv, Keyed
  <2>4. \A q \in DOMAIN u.rows : q = r \/ q \in DOMAIN t.rows
    BY <1>15
  <2>5. \A q \in DOMAIN u.rows : KeyOf(u, q) \in 1..u.cols[1].last
    BY <1>5, <1>13, <1>16, <2>1, <2>2, <2>4
  <2>6. ASSUME NEW p \in DOMAIN u.rows, NEW q \in DOMAIN u.rows, KeyOf(u, p) = KeyOf(u, q) PROVE p = q
    BY <1>6, <1>13, <2>1, <2>3, <2>4, <2>6
  <2> QED
    BY <2>5, <2>6 DEF Keyed
<1>19. Indexed(u)
  <2> SUFFICES ASSUME t.index # None PROVE Indexed(u)
    BY <1>7, <1>10 DEF Indexed
  <2>1. u.index = [k \in DOMAIN t.index \cup {new} |-> IF k = new THEN r ELSE t.index[k]]
    BY <1>7, <1>10
  <2>2. /\ t.indexCol = 1 /\ "index" \in t.cols[1].flags
        /\ \A q \in DOMAIN t.rows : t.rows[q].rid = q /\ KeyOf(t, q) \in DOMAIN t.index
        /\ \A k \in DOMAIN t.index : t.index[k] \in DOMAIN t.rows /\ KeyOf(t, t.index[k]) = k
    BY DEF TableInv, Indexed
  <2>3. u.cols # <<>> /\ u.indexCol = 1 /\ "index" \in u.cols[1].flags
    BY <1>3, <1>10, <1>15, <1>16, <2>2
  <2>4. \A q \in DOMAIN t.rows : KeyOf(u, q) = KeyOf(t, q) /\ u.rows[q].rid = q
    BY <1>11, <2>2 DEF KeyOf
  <2>5. \A q \in DOMAIN u.rows : q = r \/ q \in DOMAIN t.rows
    BY <1>15
  <2>6. \A q \in DOMAIN u.rows : u.rows[q].rid = q /\ KeyOf(u, q) \in DOMAIN u.index
    BY <1>13, <2>1, <2>2, <2>4, <2>5
  <2>7. \A k \in DOMAIN u.index : u.index[k] \in DOMAIN u.rows /\ KeyOf(u, u.index[k]) = k
    <3> SUFFICES ASSUME NEW k \in DOMAIN u.index PROVE u.index[k] \in DOMAIN u.rows /\ KeyOf(u, u.index[k]) = k
      OBVIOUS
    <3>1. CASE k = new
      BY <1>13, <1>15, <2>1, <3>1
    <3>2. CASE k # new
      BY <1>15, <2>1, <2>2, <2>4, <3>2
    <3> QED
      BY <3>1, <3>2
  <2> QED
    BY <2>3, <2>6, <2>7 DEF Indexed
<1> QED
  <2>1. v # Null => new = v
    BY DEF NewField, sclone, new
  <2> QED
    BY <1>10, <1>11, <1>13, <1>17, <1>18, <1>19, <2>1 DEF TableInv, MadeRow

\* The key of a row that has it: nothing changes.
LEMMA KeyKept ==
    ASSUME NEW t, TableInv(t), NEW r \in DOMAIN t.rows
    PROVE  updateFieldValue(t, r, 1, KeyOf(t, r)) = t
<1> DEFINE v == KeyOf(t, r)
           u == updateFieldValue(t, r, 1, v)
<1>1. t \in TableType /\ t.index \in Indexes
  BY DEF TableInv, TableType
<1>2. /\ 1 \in DOMAIN t.cols /\ t.cols[1] \in ColType
      /\ "auto" \in t.cols[1].flags /\ t.cols[1].cid = 1 /\ t.cols[1].last \in 0..MaxId
  <2>1. t.cols # <<>>
    BY <1>1, LengthsOfTables DEF TableInv, Columns
  <2>2. 1 \in DOMAIN t.cols
    BY <1>1, <2>1 DEF TableType
  <2> QED
    BY <1>1, <2>1, <2>2, LengthsOfTables DEF TableInv, Columns, Schemed
<1>3. v \in 1..t.cols[1].last /\ v # Null /\ v \in Fields
  <2>1. v \in 1..t.cols[1].last
    BY DEF TableInv, Keyed
  <2>2. v \in Ids
    BY <1>2, <2>1, MdbAssumption DEF Ids
  <2> QED
    BY <2>1, <2>2, MdbAssumption DEF Ids, Fields
<1>4. NewField(t, 1, v) = v
  BY <1>3 DEF NewField, sclone
<1>5. NewLast(t, 1, v) = t.cols[1].last
  <2>1. stoi(v) = v
    BY <1>3 DEF stoi
  <2>2. Max({t.cols[1].last, v}) = t.cols[1].last
    BY <1>2, <1>3, GreaterOfTwo
  <2> QED
    BY <1>2, <1>3, <2>1, <2>2 DEF NewLast, Follow
<1>6. NewIndex(t, r, 1, v) = t.index
  <2> SUFFICES ASSUME t.index # None PROVE NewIndex(t, r, 1, v) = t.index
    BY DEF NewIndex
  <2>1. /\ t.rows[r].rid = r /\ v \in DOMAIN t.index
        /\ \A k \in DOMAIN t.index : t.index[k] \in DOMAIN t.rows /\ KeyOf(t, t.index[k]) = k
    BY DEF TableInv, Indexed
  <2>2. t.index[v] = r
    BY <2>1 DEF TableInv, Keyed
  <2>3. "index" \in t.cols[1].flags
    BY DEF TableInv, Indexed
  <2>4. NewIndex(t, r, 1, v) = Key(Unkey(t.index, v), v, r)
    BY <1>3, <1>4, <2>1, <2>3 DEF NewIndex, KeyOf
  <2>5. PICK D \in SUBSET Fields : t.index \in [D -> Nat]
    BY <1>1 DEF Indexes
  <2>6. DOMAIN Unkey(t.index, v) = DOMAIN t.index \ {v} /\ \A k \in DOMAIN t.index \ {v} : Unkey(t.index, v)[k] = t.index[k]
    BY DEF Unkey
  <2>7. Key(Unkey(t.index, v), v, r) = [k \in DOMAIN t.index |-> t.index[k]]
    <3> HIDE DEF v
    <3> QED
      BY <2>1, <2>2, <2>6 DEF Key
  <2> HIDE DEF v
  <2> QED
    BY <2>4, <2>5, <2>7
<1>7. Updated(u, t, r, 1, v)
  BY <1>1, <1>2, <1>3, <1>6, UpdateChanges
<1> HIDE DEF u, v
<1>8. \A d \in DOMAIN t.cols : u.cols[d] = t.cols[d]
  <2>1. \A d \in DOMAIN t.cols : t.cols[d] \in ColType
    BY <1>1, LengthsOfTables
  <2>2. \A d \in DOMAIN t.cols :
          u.cols[d] = [t.cols[d] EXCEPT !.last = IF d = 1 THEN t.cols[1].last ELSE t.cols[d].last]
    BY <1>5, <1>7, <2>1 DEF Updated
  <2>3. \A d \in DOMAIN t.cols : (IF d = 1 THEN t.cols[1].last ELSE t.cols[d].last) = t.cols[d].last
    OBVIOUS
  <2>4. \A d \in DOMAIN t.cols : [t.cols[d] EXCEPT !.last = t.cols[d].last] = t.cols[d]
    BY <2>1 DEF ColType
  <2> QED
    BY <2>2, <2>3, <2>4
<1>9. \A q \in DOMAIN t.rows : u.rows[q] = t.rows[q]
  <2>1. t.rows[r] \in RowType
    BY <1>1, LengthsOfTables
  <2>2. [t.rows[r].fields EXCEPT ![1] = v] = t.rows[r].fields
    BY <2>1 DEF RowType, v, KeyOf
  <2>3. u.rows[r] = [t.rows[r] EXCEPT !.fields = t.rows[r].fields]
    BY <1>4, <1>7, <2>2 DEF Updated
  <2>4. u.rows[r] = t.rows[r]
    BY <2>1, <2>3 DEF RowType
  <2> QED
    BY <1>7, <2>4 DEF Updated
<1>10. u.cols = t.cols /\ u.rows = t.rows
  <2>1. /\ u.cols \in Seq(ColType) /\ t.cols \in Seq(ColType) /\ Len(u.cols) = Len(t.cols)
        /\ u.rows \in Seq(RowType) /\ t.rows \in Seq(RowType) /\ Len(u.rows) = Len(t.rows)
    BY <1>1, <1>7 DEF TableType, Updated
  <2> QED
    BY <1>8, <1>9, <2>1
<1>11. /\ u \in TableType /\ u.name = t.name /\ u.keyCol = t.keyCol /\ u.indexCol = t.indexCol
       /\ u.index = t.index
  BY <1>6, <1>7 DEF Updated
<1> QED
  BY <1>1, <1>10, <1>11 DEF TableType, u, v

\* Behind the key, row r has the first n fields of a record.
TailTaken(u, t, r, n, fields) ==
    /\ u.name = t.name /\ u.cols = t.cols /\ Len(u.rows) = Len(t.rows)
    /\ \A q \in DOMAIN t.rows \ {r} : u.rows[q] = t.rows[q]
    /\ \A d \in 1..MaxCols :
          u.rows[r].fields[d] = IF d \in 2..n THEN sclone(fields[d]) ELSE t.rows[r].fields[d]

\* The columns behind the key take the fields of the record.
LEMMA TailOfFields ==
    ASSUME NEW u, TableInv(u[1]), NEW r \in DOMAIN u[1].rows,
           NEW fields \in Seq(Fields), NEW n \in Nat, 1 <= n, n <= Len(fields), n <= Len(u[1].cols),
           NEW w, FieldSteps(u, n, w, r, fields)
    PROVE  TableInv(u[n]) /\ TailTaken(u[n], u[1], r, n, fields)
<1>0. \A k \in 2..n : u[k] = updateFieldValue(u[k - 1], r, k, fields[k])
  BY DEF FieldSteps
<1> USE DEF TailTaken
<1> DEFINE Done(m) == TableInv(u[m]) /\ TailTaken(u[m], u[1], r, m, fields)
           S == {m \in Nat : m + 1 <= n => Done(m + 1)}
<1>1. 0 \in S
  OBVIOUS
<1>2. ASSUME NEW m \in S PROVE m + 1 \in S
  <2> SUFFICES ASSUME (m + 1) + 1 <= n PROVE Done((m + 1) + 1)
    OBVIOUS
  <2>1. m \in Nat /\ Done(m + 1)
    OBVIOUS
  <2> DEFINE t == u[m + 1]
             c == (m + 1) + 1
             x == u[c]
             v == fields[c]
  <2>2. x = updateFieldValue(t, r, c, v)
    BY <1>0, <2>1
  <2>3. c \in 2..n /\ c # 1 /\ v \in Fields
    BY <2>1
  <2>4. c \in DOMAIN t.cols /\ r \in DOMAIN t.rows /\ DOMAIN t.rows = DOMAIN u[1].rows
    BY SMTT(40), <2>1, <2>3, LengthsOfTables DEF TableInv
  <2>5. TableInv(t)
    BY <2>1
  <2> HIDE DEF t, c, x, v
  <2>6. TableInv(x) /\ OneField(x, t, r, c, sclone(v))
    BY <2>2, <2>3, <2>4, <2>5, PlainStep
  <2>7. t.rows[r] \in RowType
    BY <2>4, <2>5, LengthsOfTables DEF TableInv
  <2>8. \A d \in 1..MaxCols : x.rows[r].fields[d] = IF d = c THEN sclone(fields[c]) ELSE t.rows[r].fields[d]
    BY ZenonT(40), <2>4, <2>6, <2>7 DEF RowType, v, OneField
  <2>9. \A d \in 1..MaxCols : t.rows[r].fields[d] = IF d \in 2..(m + 1) THEN sclone(fields[d]) ELSE u[1].rows[r].fields[d]
    BY <2>1 DEF t
  <2>10. \A d \in 1..MaxCols : x.rows[r].fields[d] = IF d \in 2..c THEN sclone(fields[d]) ELSE u[1].rows[r].fields[d]
    BY <2>1, <2>3, <2>8, <2>9 DEF c
  <2>11. Done(c)
    BY <2>1, <2>4, <2>6, <2>10 DEF t, x, OneField
  <2> QED
    BY <2>11 DEF c
<1>3. n - 1 \in S
  <2>1. S = Nat
    <3> HIDE DEF S
    <3>1. S \in SUBSET Nat
      BY DEF S
    <3> QED
      BY <1>1, <1>2, <3>1, Induct
  <2>2. n - 1 \in Nat
    OBVIOUS
  <2> HIDE DEF S
  <2> QED
    BY <2>1, <2>2
<1>4. n - 1 \in Nat /\ (n - 1) + 1 = n
  OBVIOUS
<1> QED
  BY <1>3, <1>4
-----------------------------------------------------------------------------
(* All fields of a row.                                                      *)

\* The values that a record gives to a row of a table.
Width(t, fields) == Min({Len(fields), Len(t.cols)})

\* Those are at least one, the key, and at most what both have.
LEMMA WidthIs ==
    ASSUME NEW t \in TableType, t.cols # <<>>, NEW fields \in Seq(Fields), fields # <<>>
    PROVE  /\ Width(t, fields) \in Nat /\ 1 <= Width(t, fields)
           /\ Width(t, fields) <= Len(fields) /\ Width(t, fields) <= Len(t.cols)
           /\ \A d \in 2..Width(t, fields) : fields[d] \in Fields
           /\ \A d \in Nat : d <= Width(t, fields) <=> d <= Len(fields) /\ d <= Len(t.cols)
<1>1. Len(fields) \in Nat \ {0} /\ Len(t.cols) \in Nat \ {0}
  <2>1. t.cols \in Seq(ColType)
    BY DEF TableType
  <2> QED
    BY <2>1
<1>2. Width(t, fields) = IF Len(fields) <= Len(t.cols) THEN Len(fields) ELSE Len(t.cols)
  BY <1>1, LesserOfTwo DEF Width
<1> QED
  BY <1>1, <1>2

\* A row takes the fields of a record that has its key.
LEMMA FieldsOfRow ==
    ASSUME NEW t, TableInv(t), NEW r \in DOMAIN t.rows,
           NEW fields \in Seq(Fields), fields # <<>>, fields[1] = KeyOf(t, r),
           NEW u, u = UpdateFields(t, r, fields)
    PROVE  TableInv(u) /\ TailTaken(u, t, r, Width(t, fields), fields)
<1> DEFINE n == Width(t, fields)
<1>1. t \in TableType /\ t.cols # <<>>
  <2>1. t \in TableType
    BY DEF TableInv
  <2> QED
    BY <2>1, LengthsOfTables DEF TableInv, Columns
<1>2. n \in Nat /\ 1 <= n /\ n <= Len(fields) /\ n <= Len(t.cols)
  BY <1>1, WidthIs
<1>3. PICK s : FieldSteps(s, n, t, r, fields) /\ UpdateFields(t, r, fields) = s[n]
  <2>1. n = Min({Len(fields), Len(t.cols)})
    BY DEF Width
  <2> HIDE DEF n
  <2> QED
    BY <1>2, <2>1, FieldsOneByOne
<1> HIDE DEF n
<1>4. s[1] = t
  <2>1. s[1] = updateFieldValue(s[1 - 1], r, 1, fields[1])
    BY <1>2, <1>3 DEF FieldSteps
  <2>2. s[1] = updateFieldValue(t, r, 1, KeyOf(t, r))
    BY <1>3, <2>1 DEF FieldSteps
  <2> QED
    BY <2>2, KeyKept
<1>5. TableInv(s[n]) /\ TailTaken(s[n], s[1], r, n, fields)
  <2>1. TableInv(s[1]) /\ r \in DOMAIN s[1].rows /\ n <= Len(s[1].cols)
    BY <1>2, <1>4
  <2> QED
    BY <1>2, <1>3, <2>1, TailOfFields
<1> QED
  BY <1>3, <1>4, <1>5 DEF n

\* What it takes for a record to make a row of a table.
Makes(t, fields) ==
    /\ t.cols # <<>> /\ fields \in Seq(Fields) /\ fields # <<>> /\ fields[1] \in Ids \cup {Null}
    /\ fields[1] = Null => t.cols[1].last < MaxId
    /\ fields[1] # Null => \A q \in DOMAIN t.rows : KeyOf(t, q) # fields[1]

\* A new row takes its key, if it has to from the automatic column, and the fields behind it.
LEMMA FieldsOfNewRow ==
    ASSUME NEW t, TableInv(t), NEW fields, Makes(t, fields), NEW r, r = Len(t.rows) + 1,
           NEW u, u = UpdateFields(createRow(t), r, fields)
    PROVE  /\ TableInv(u)
           /\ u.name = t.name /\ Len(u.cols) = Len(t.cols) /\ Len(u.rows) = r
           /\ \A q \in DOMAIN t.rows : u.rows[q] = t.rows[q]
           /\ fields[1] # Null => KeyOf(u, r) = fields[1]
           /\ \A d \in 2..MaxCols :
                 u.rows[r].fields[d] = IF d <= Width(t, fields) THEN sclone(fields[d]) ELSE Null
<1> DEFINE n == Width(t, fields)
           w == createRow(t)
<1>1. t \in TableType /\ Makes(t, fields)
  BY DEF TableInv
<1>2. /\ n \in Nat /\ 1 <= n /\ n <= Len(fields) /\ n <= Len(t.cols)
  BY <1>1, WidthIs DEF Makes
<1>3. w.cols = t.cols
  BY <1>1, RowMade
<1>4. PICK s : FieldSteps(s, n, w, r, fields) /\ UpdateFields(w, r, fields) = s[n]
  <2>1. n = Min({Len(fields), Len(w.cols)})
    BY <1>3 DEF Width
  <2> HIDE DEF n, w
  <2> QED
    BY <1>2, <2>1, FieldsOneByOne
<1> HIDE DEF n
<1> DEFINE x == s[1]
           v == fields[1]
<1>5. x = updateFieldValue(createRow(t), r, 1, v)
  <2>1. x = updateFieldValue(s[1 - 1], r, 1, v)
    BY <1>2, <1>4 DEF FieldSteps
  <2> QED
    BY <1>4, <2>1 DEF FieldSteps
<1> HIDE DEF x, v, w
<1>6. TableInv(x) /\ MadeRow(x, t, r, v)
  <2>1. /\ t.cols # <<>> /\ v \in Ids \cup {Null}
        /\ v = Null => t.cols[1].last < MaxId
        /\ v # Null => \A q \in DOMAIN t.rows : KeyOf(t, q) # v
    BY <1>1 DEF Makes, v
  <2> QED
    BY <1>5, <2>1, KeyStep
<1>7. DOMAIN x.rows = 1..r /\ DOMAIN t.rows = 1..(r - 1) /\ r \in Nat \ {0}
  BY <1>1, <1>6, LengthsOfTables DEF TableInv, MadeRow
<1>8. fields \in Seq(Fields)
  BY <1>1 DEF Makes
<1>9. TableInv(s[n]) /\ TailTaken(s[n], s[1], r, n, fields)
  <2>1. TableInv(s[1]) /\ r \in DOMAIN s[1].rows /\ n <= Len(s[1].cols)
    BY <1>2, <1>6, <1>7 DEF x, MadeRow
  <2> QED
    BY <1>2, <1>4, <1>8, <2>1, TailOfFields
<1>10. u = s[n]
  BY <1>4 DEF w
<1>11. KeyOf(u, r) = KeyOf(x, r)
  <2>1. 1 \in 1..MaxCols /\ ~(1 \in 2..n)
    BY MdbAssumption
  <2> QED
    BY <1>9, <1>10, <2>1 DEF KeyOf, x, TailTaken
<1>12. \A q \in DOMAIN t.rows : u.rows[q] = t.rows[q]
  <2> SUFFICES ASSUME NEW q \in DOMAIN t.rows PROVE u.rows[q] = t.rows[q]
    OBVIOUS
  <2>1. q \in DOMAIN s[1].rows \ {r}
    BY <1>7 DEF x
  <2> QED
    BY <1>6, <1>9, <1>10, <2>1 DEF x, TailTaken, MadeRow
<1>13. ASSUME NEW d \in 2..MaxCols
       PROVE  u.rows[r].fields[d] = IF d <= n THEN sclone(fields[d]) ELSE Null
  <2>1. d \in 1..MaxCols /\ (d \in 2..n <=> d <= n)
    BY <1>2
  <2> QED
    BY <1>6, <1>9, <1>10, <2>1 DEF x, TailTaken, MadeRow
<1>14. TableInv(u) /\ u.name = t.name /\ Len(u.cols) = Len(t.cols) /\ Len(u.rows) = r
  BY <1>6, <1>9, <1>10 DEF x, TailTaken, MadeRow
<1> QED
  BY <1>6, <1>11, <1>12, <1>13, <1>14 DEF n, v, MadeRow
-----------------------------------------------------------------------------
(* What is loaded.                                                           *)

\* The schema of an image, before its rows are loaded, is a consistent table.
LEMMA SchemaLoads ==
    ASSUME NEW im, ImageInv(im),
           \A c, d \in DOMAIN im.cols : im.cols[c].name = im.cols[d].name => c = d,
           NEW t, t = LoadSchema(im)
    PROVE  /\ TableInv(t) /\ t.name = im.name /\ t.rows = <<>>
           /\ Len(t.cols) = Len(im.cols)
<1> DEFINE CT == [name : ColNames, flags : SUBSET Flags]
           with(f) == {c \in DOMAIN im.cols : f \in im.cols[c].flags}
           last(S) == IF S = {} THEN 0 ELSE Max(S)
           new == [c \in DOMAIN im.cols |-> NewCol(c, im.cols[c].name, im.cols[c].flags)]
           index == IF with("index") = {} THEN None ELSE <<>>
<1>1. im.name \in Names /\ im.cols \in Seq(CT) /\ Schemed(im.cols)
  BY DEF ImageInv, ImageType
<1>2. t = [name |-> im.name, cols |-> new, keyCol |-> last(with("key")),
           indexCol |-> last(with("index")), index |-> index, rows |-> <<>>]
  BY DEF LoadSchema
<1> HIDE DEF CT
<1>3. /\ Len(im.cols) \in Nat /\ DOMAIN im.cols = 1..Len(im.cols) /\ Len(im.cols) <= MaxCols
      /\ \A c \in DOMAIN im.cols : im.cols[c] \in CT
  BY <1>1 DEF Schemed
<1>4. \A c \in DOMAIN im.cols : NewCol(c, im.cols[c].name, im.cols[c].flags) \in ColType
  BY <1>3, MdbAssumption DEF NewCol, ColType, CT
<1>5. new \in Seq(ColType) /\ Len(new) = Len(im.cols) /\ DOMAIN new = DOMAIN im.cols
  BY <1>3, <1>4
<1>6. ASSUME NEW f \in {"key", "index"}
      PROVE  last(with(f)) = IF 1 \in with(f) THEN 1 ELSE 0
  <2>1. with(f) \subseteq {1}
    BY <1>1 DEF Schemed
  <2>2. CASE 1 \in with(f)
    <3>1. with(f) = {1, 1}
      BY <2>1, <2>2
    <3>2. Max({1, 1}) = 1
      BY GreaterOfTwo
    <3> QED
      BY <2>2, <3>1, <3>2
  <2>3. CASE 1 \notin with(f)
    BY <2>1, <2>3
  <2> QED
    BY <2>2, <2>3
<1>7. \A c \in DOMAIN im.cols : /\ new[c].name = im.cols[c].name /\ new[c].cid = c
                                /\ new[c].flags = im.cols[c].flags /\ new[c].last = 0
  BY DEF NewCol
<1>8. <<>> \in Indexes
  <2>1. <<>> \in [{} -> Nat]
    OBVIOUS
  <2> QED
    BY <2>1 DEF Indexes
<1>9. index \in Indexes
  BY <1>8 DEF Indexes
<1>10. index # None => 1 \in with("index")
  BY <1>1 DEF Schemed
<1>11. <<>> \in Seq(RowType)
  OBVIOUS
<1> DEFINE key == last(with("key"))
           pos == last(with("index"))
<1>12. key \in {0, 1} /\ pos = IF 1 \in with("index") THEN 1 ELSE 0
  BY <1>6
<1>13. index # None => index = <<>>
  OBVIOUS
<1>14. 1 \in with("index") => 1 \in DOMAIN im.cols /\ "index" \in im.cols[1].flags
  OBVIOUS
<1> HIDE DEF new, index, key, pos, with
<1>15. /\ t.name = im.name /\ t.cols = new /\ t.keyCol = key /\ t.indexCol = pos
       /\ t.index = index /\ t.rows = <<>>
  BY <1>2 DEF key, pos
<1>16. t \in TableType
  <2>1. key \in Nat /\ pos \in Nat
    BY <1>12
  <2>2. t = [name |-> im.name, cols |-> new, keyCol |-> key, indexCol |-> pos, index |-> index, rows |-> <<>>]
    BY <1>2 DEF key, pos
  <2> QED
    BY <1>1, <1>5, <1>9, <1>11, <2>1, <2>2 DEF TableType
<1>17. Columns(t)
  <2>1. Schemed(t.cols)
    BY <1>1, <1>5, <1>7, <1>15 DEF Schemed
  <2>2. t.cols # <<>> => t.cols[1].last \in 0..MaxId
    <3>1. t.cols # <<>> => 1 \in DOMAIN im.cols
      BY <1>3, <1>5, <1>15
    <3> QED
      BY <1>7, <1>15, <3>1, MdbAssumption
  <2>3. t.keyCol \in {0, 1} /\ t.indexCol \in {0, 1}
    BY <1>12, <1>15
  <2> QED
    BY <1>5, <1>7, <1>15, <2>1, <2>2, <2>3 DEF Columns
<1>18. Keyed(t)
  BY <1>15 DEF Keyed
<1>19. Indexed(t)
  <2> SUFFICES ASSUME t.index # None PROVE Indexed(t)
    BY DEF Indexed
  <2>1. 1 \in DOMAIN t.cols /\ t.indexCol = 1 /\ "index" \in t.cols[1].flags /\ t.index = <<>>
    BY <1>5, <1>7, <1>10, <1>12, <1>13, <1>14, <1>15
  <2> QED
    BY <1>15, <2>1 DEF Indexed
<1> QED
  BY <1>5, <1>15, <1>16, <1>17, <1>18, <1>19 DEF TableInv

\* The first m rows of an image have been loaded.
Loaded(t, im, m) ==
    /\ TableInv(t) /\ t.name = im.name
    /\ Len(t.cols) = Len(im.cols) /\ Len(t.rows) = m
    /\ \A q \in 1..m : t.rows[q].fields = Padded(im.rows[q])

\* A table is loaded row by row; the keys in the file are distinct.
LEMMA TableLoads ==
    ASSUME NEW im, ImageInv(im),
           \A c, d \in DOMAIN im.cols : im.cols[c].name = im.cols[d].name => c = d
    PROVE  Loaded(LoadTable(im), im, Len(im.rows))
<1> DEFINE n == Len(im.rows)
<1>1. /\ im \in ImageType /\ im.rows \in Seq(Seq(Fields)) /\ n \in Nat /\ DOMAIN im.rows = 1..n
      /\ im.cols \in Seq([name : ColNames, flags : SUBSET Flags])
  BY DEF ImageInv, ImageType
<1>0. /\ im.rows # <<>> => im.cols # <<>>
      /\ \A r \in 1..n : Len(im.rows[r]) = Len(im.cols) /\ im.rows[r][1] \in Ids
      /\ \A r \in 1..n : \A c \in 1..Len(im.cols) : im.rows[r][c] # Null
      /\ \A r, q \in 1..n : im.rows[r][1] = im.rows[q][1] => r = q
  BY <1>1 DEF ImageInv
<1>2. PICK u : RowSteps(u, n, im) /\ LoadTable(im) = u[n]
  <2> HIDE DEF n
  <2>1. n = Len(im.rows)
    BY DEF n
  <2> QED
    BY <1>1, <2>1, RowsOneByOne
<1> DEFINE Done(m) == Loaded(u[m], im, m)
           S == {m \in Nat : m <= n => Done(m)}
<1>3. 0 \in S
  <2> DEFINE t == u[0]
  <2>1. t = LoadSchema(im)
    BY <1>2 DEF RowSteps
  <2> HIDE DEF t
  <2>2. TableInv(t) /\ t.name = im.name /\ t.rows = <<>> /\ Len(t.cols) = Len(im.cols)
    BY <2>1, SchemaLoads
  <2>3. Done(0)
    BY <2>2 DEF t, Loaded
  <2> QED
    BY <2>3
<1>4. ASSUME NEW m \in S PROVE m + 1 \in S
  <2> SUFFICES ASSUME m + 1 <= n PROVE Done(m + 1)
    OBVIOUS
  <2>1. m \in Nat /\ Done(m)
    OBVIOUS
  <2> DEFINE t == u[m]
             r == m + 1
             fields == im.rows[r]
             x == u[r]
  <2>2. r \in 1..n /\ r = Len(t.rows) + 1 /\ r - 1 = m /\ m \in Nat
    BY <2>1 DEF Loaded
  <2>3. x = UpdateFields(createRow(t), r, fields)
    BY <1>2, <2>2 DEF RowSteps, LoadRow
  <2>4. /\ TableInv(t) /\ t.name = im.name /\ Len(t.cols) = Len(im.cols) /\ Len(t.rows) = m
        /\ \A q \in 1..m : t.rows[q].fields = Padded(im.rows[q])
    BY <2>1 DEF Loaded
  <2>5. fields \in Seq(Fields) /\ Len(fields) = Len(im.cols) /\ fields[1] \in Ids
    BY <1>0, <1>1, <2>2
  <2>a. \A d \in 1..Len(im.cols) : sclone(fields[d]) = fields[d]
    BY <1>0, <2>2 DEF sclone
  <2>6. im.cols # <<>> /\ \A q \in 1..n : im.rows[q][1] = fields[1] => q = r
    BY <1>0, <1>1, <2>2
  <2> HIDE DEF t, r, fields, x
  <2>7. t \in TableType /\ DOMAIN t.rows = 1..m
    BY <2>4, LengthsOfTables DEF TableInv
  <2>8. Makes(t, fields)
    <3>1. fields[1] # Null
      BY <2>5, MdbAssumption
    <3>2. Len(im.cols) # 0
      BY <1>1, <2>6
    <3>3. t.cols # <<>> /\ fields # <<>>
      BY <2>4, <2>5, <3>2
    <3>4. ASSUME NEW q \in DOMAIN t.rows PROVE KeyOf(t, q) # fields[1]
      <4>1. q \in 1..n /\ q # r /\ q \in 1..m
        BY <2>2, <2>7
      <4>2. im.rows[q] \in Seq(Fields) /\ Len(im.rows[q]) = Len(im.cols) /\ Len(im.cols) \in Nat \ {0}
        BY SMTT(40), <1>0, <1>1, <2>6, <4>1
      <4>3. Padded(im.rows[q])[1] = im.rows[q][1]
        BY <4>2, MdbAssumption DEF Padded
      <4> QED
        BY <2>4, <2>6, <4>1, <4>3 DEF KeyOf
    <3> QED
      BY <2>5, <3>1, <3>3, <3>4 DEF Makes
  <2>9. /\ TableInv(x)
        /\ x.name = t.name /\ Len(x.cols) = Len(t.cols) /\ Len(x.rows) = r
        /\ \A q \in DOMAIN t.rows : x.rows[q] = t.rows[q]
        /\ fields[1] # Null => KeyOf(x, r) = fields[1]
        /\ \A d \in 2..MaxCols : x.rows[r].fields[d] = IF d <= Width(t, fields) THEN sclone(fields[d]) ELSE Null
    BY SMTT(40), <2>2, <2>3, <2>4, <2>8, FieldsOfNewRow
  <2>10. fields[1] # Null
    BY <2>5, MdbAssumption
  <2>11. x.rows[r].fields = Padded(fields)
    <3>1. x \in TableType /\ r \in DOMAIN x.rows
      BY <2>2, <2>9, LengthsOfTables DEF TableInv
    <3>2. x.rows[r].fields \in [1..MaxCols -> Fields]
      BY <3>1, LengthsOfTables DEF RowType
    <3>3. Len(t.cols) \in Nat \ {0} /\ Len(fields) = Len(t.cols) /\ DOMAIN fields = 1..Len(fields)
      BY <2>4, <2>5, <2>7, <2>8, LengthsOfTables DEF Makes
    <3>4. \A d \in Nat : d <= Width(t, fields) <=> d <= Len(fields)
      BY <2>5, <2>7, <2>8, <3>3, WidthIs DEF Makes
    <3>5. ASSUME NEW d \in 1..MaxCols
          PROVE  x.rows[r].fields[d] = IF d \in DOMAIN fields THEN fields[d] ELSE Null
      <4>1. CASE d = 1
        BY <2>9, <2>10, <3>3, <4>1 DEF KeyOf
      <4>2. CASE d # 1
        <5>1. d \in 2..MaxCols /\ (d \in DOMAIN fields <=> d <= Len(fields)) /\ d \in Nat
          BY <3>3, <4>2, MdbAssumption
        <5>2. d \in DOMAIN fields => sclone(fields[d]) = fields[d]
          BY <2>5, <2>a, <3>3
        <5> QED
          BY <2>9, <3>4, <5>1, <5>2
      <4> QED
        BY <4>1, <4>2
    <3> QED
      BY <3>2, <3>5 DEF Padded
  <2>12. \A q \in 1..r : x.rows[q].fields = Padded(im.rows[q])
    <3>1. \A q \in 1..m : x.rows[q] = t.rows[q]
      BY <2>7, <2>9
    <3>2. \A q \in 1..r : q \in 1..m \/ q = r
      BY <2>2
    <3> QED
      BY <2>4, <2>11, <3>1, <3>2 DEF fields
  <2> QED
    BY <2>4, <2>9, <2>12 DEF x, r, Loaded
<1>5. n \in S
  <2>1. S = Nat
    <3> HIDE DEF S
    <3>1. S \in SUBSET Nat
      BY DEF S
    <3> QED
      BY <1>3, <1>4, <3>1, Induct
  <2> HIDE DEF S
  <2> QED
    BY <1>1, <2>1
<1> QED
  BY <1>1, <1>2, <1>5
-----------------------------------------------------------------------------
(* What is saved.                                                            *)

\* The loop of mdbSave finds no key to give: every row has one.
LEMMA NothingToRenumber ==
    ASSUME NEW t, TableInv(t), NEW r \in DOMAIN t.rows, NEW c \in DOMAIN t.cols
    PROVE  RenumberField(t, r, c) = t
<1>1. t.cols[c].cid = c /\ ("auto" \in t.cols[c].flags => c = 1)
  BY DEF TableInv, Columns, Schemed
<1>2. c = 1 => t.cols[1].last \in 0..MaxId
  BY DEF TableInv, Columns
<1>3. c = 1 => t.rows[r].fields[1] \in Ids
  BY <1>2, MdbAssumption DEF TableInv, Keyed, KeyOf, Ids
<1> QED
  BY <1>1, <1>3, MdbAssumption DEF RenumberField

\* So a row stays what it is,
LEMMA RenumberRowKeeps ==
    ASSUME NEW t, TableInv(t), NEW r \in DOMAIN t.rows
    PROVE  RenumberRow(t, r) = t
<1> DEFINE n == Len(t.cols)
           Good(f) == f = [k \in 0..n |-> IF k = 0 THEN t ELSE RenumberField(f[k - 1], r, k)]
           u == CHOOSE f : Good(f)
<1>1. n \in Nat /\ DOMAIN t.cols = 1..n
  BY LengthsOfTables DEF TableInv
<1>2. \A k \in 1..n : RenumberField(t, r, k) = t
  BY <1>1, NothingToRenumber
<1>3. Good(u)
  <2> DEFINE g == [k \in 0..n |-> t]
  <2>1. \A k \in 0..n : g[k] = IF k = 0 THEN t ELSE RenumberField(g[k - 1], r, k)
    <3> SUFFICES ASSUME NEW k \in 0..n PROVE t = IF k = 0 THEN t ELSE RenumberField(g[k - 1], r, k)
      OBVIOUS
    <3>1. CASE k # 0
      <4>1. k \in 1..n /\ k - 1 \in 0..n
        BY <1>1, <3>1
      <4>2. g[k - 1] = t
        BY <4>1
      <4> QED
        BY <1>2, <4>1, <4>2
    <3> QED
      BY <3>1
  <2>2. g = [k \in 0..n |-> g[k]]
    OBVIOUS
  <2> HIDE DEF g
  <2>3. Good(g)
    BY <2>1, <2>2
  <2> QED
    BY <2>3, Zenon
<1>4. RenumberRow(t, r) = u[n]
  BY DEF RenumberRow, Iterate
<1> DEFINE S == {k \in Nat : k <= n => u[k] = t}
<1>5. \A k \in 0..n : u[k] = IF k = 0 THEN t ELSE RenumberField(u[k - 1], r, k)
  <2> HIDE DEF u
  <2> QED
    BY <1>3
<1> HIDE DEF u
<1>6. 0 \in S
  BY <1>1, <1>5
<1>7. ASSUME NEW k \in S PROVE k + 1 \in S
  <2> SUFFICES ASSUME k + 1 <= n PROVE u[k + 1] = t
    OBVIOUS
  <2>1. k \in Nat /\ k + 1 \in 1..n /\ (k + 1) - 1 = k /\ u[k] = t
    BY <1>1
  <2>2. u[k + 1] = RenumberField(u[(k + 1) - 1], r, k + 1)
    BY <1>5, <2>1
  <2> QED
    BY <1>2, <2>1, <2>2
<1>8. S = Nat
  <2> HIDE DEF S
  <2>1. S \in SUBSET Nat
    BY DEF S
  <2> QED
    BY <1>6, <1>7, <2>1, Induct
<1> QED
  BY <1>1, <1>4, <1>8

\* and a table does.
LEMMA RenumberKeeps ==
    ASSUME NEW t, TableInv(t)
    PROVE  Renumber(t) = t
<1> DEFINE n == Len(t.rows)
           Good(f) == f = [k \in 0..n |-> IF k = 0 THEN t ELSE RenumberRow(f[k - 1], k)]
           u == CHOOSE f : Good(f)
<1>1. n \in Nat /\ DOMAIN t.rows = 1..n
  BY LengthsOfTables DEF TableInv
<1>2. \A k \in 1..n : RenumberRow(t, k) = t
  BY <1>1, RenumberRowKeeps
<1>3. Good(u)
  <2> DEFINE g == [k \in 0..n |-> t]
  <2>1. \A k \in 0..n : g[k] = IF k = 0 THEN t ELSE RenumberRow(g[k - 1], k)
    <3> SUFFICES ASSUME NEW k \in 0..n PROVE t = IF k = 0 THEN t ELSE RenumberRow(g[k - 1], k)
      OBVIOUS
    <3>1. CASE k # 0
      <4>1. k \in 1..n /\ k - 1 \in 0..n
        BY <1>1, <3>1
      <4>2. g[k - 1] = t
        BY <4>1
      <4> QED
        BY <1>2, <4>1, <4>2
    <3> QED
      BY <3>1
  <2>2. g = [k \in 0..n |-> g[k]]
    OBVIOUS
  <2> HIDE DEF g
  <2>3. Good(g)
    BY <2>1, <2>2
  <2> QED
    BY <2>3, Zenon
<1>4. Renumber(t) = u[n]
  BY DEF Renumber, Iterate
<1> DEFINE S == {k \in Nat : k <= n => u[k] = t}
<1>5. \A k \in 0..n : u[k] = IF k = 0 THEN t ELSE RenumberRow(u[k - 1], k)
  <2> HIDE DEF u
  <2> QED
    BY <1>3
<1> HIDE DEF u
<1>6. 0 \in S
  BY <1>1, <1>5
<1>7. ASSUME NEW k \in S PROVE k + 1 \in S
  <2> SUFFICES ASSUME k + 1 <= n PROVE u[k + 1] = t
    OBVIOUS
  <2>1. k \in Nat /\ k + 1 \in 1..n /\ (k + 1) - 1 = k /\ u[k] = t
    BY <1>1
  <2>2. u[k + 1] = RenumberRow(u[(k + 1) - 1], k + 1)
    BY <1>5, <2>1
  <2> QED
    BY <1>2, <2>1, <2>2
<1>8. S = Nat
  <2> HIDE DEF S
  <2>1. S \in SUBSET Nat
    BY DEF S
  <2> QED
    BY <1>6, <1>7, <2>1, Induct
<1> QED
  BY <1>1, <1>4, <1>8

\* The image of a consistent table.
TableImage(t) ==
    [name |-> t.name,
     cols |-> [c \in DOMAIN t.cols |-> [name |-> t.cols[c].name, flags |-> t.cols[c].flags]],
     rows |-> [r \in DOMAIN t.rows |-> [c \in DOMAIN t.cols |-> Written(t.rows[r].fields[t.cols[c].cid])]]]

\* It has the keys of the rows in its first column, as ImageInv demands.
LEMMA ImageOfTable ==
    ASSUME NEW t, TableInv(t)
    PROVE  ImageInv(TableImage(t))
<1> DEFINE im == TableImage(t)
           CT == [name : ColNames, flags : SUBSET Flags]
<1>1. t \in TableType /\ t.name \in Names
  BY DEF TableInv, TableType
<1>2. /\ Len(t.cols) \in Nat /\ DOMAIN t.cols = 1..Len(t.cols)
      /\ Len(t.rows) \in Nat /\ DOMAIN t.rows = 1..Len(t.rows)
      /\ \A c \in DOMAIN t.cols : t.cols[c] \in ColType
      /\ \A r \in DOMAIN t.rows : t.rows[r] \in RowType
  BY <1>1, LengthsOfTables
<1> DEFINE cols == [c \in DOMAIN t.cols |-> [name |-> t.cols[c].name, flags |-> t.cols[c].flags]]
           row(r) == [c \in DOMAIN t.cols |-> Written(t.rows[r].fields[t.cols[c].cid])]
           rows == [r \in DOMAIN t.rows |-> row(r)]
<1>3. cols \in Seq(CT) /\ Len(cols) = Len(t.cols) /\ DOMAIN cols = DOMAIN t.cols
  <2>1. \A c \in DOMAIN t.cols : [name |-> t.cols[c].name, flags |-> t.cols[c].flags] \in CT
    BY <1>2 DEF ColType
  <2> HIDE DEF CT
  <2> QED
    BY <1>2, <2>1
<1>4. \A c \in DOMAIN t.cols : t.cols[c].cid = c /\ c \in 1..MaxCols
  <2>1. Len(t.cols) <= MaxCols /\ \A c \in DOMAIN t.cols : t.cols[c].cid = c
    BY SMTT(40) DEF TableInv, Columns, Schemed
  <2> QED
    BY <1>2, <2>1, MdbAssumption
<1>5. ASSUME NEW r \in DOMAIN t.rows
      PROVE  /\ row(r) \in Seq(Fields) /\ Len(row(r)) = Len(t.cols) /\ row(r)[1] = KeyOf(t, r) /\ KeyOf(t, r) \in Ids
             /\ \A c \in 1..Len(t.cols) : row(r)[c] # Null
  <2>1. t.rows # <<>>
    BY <1>2
  <2>2. t.cols # <<>> /\ t.cols[1].last \in 0..MaxId
    BY <2>1 DEF TableInv, Columns
  <2>3. 1 \in DOMAIN t.cols
    BY <1>1, <2>2 DEF TableType
  <2>4. KeyOf(t, r) \in Ids
    BY <2>2, MdbAssumption DEF TableInv, Keyed, Ids
  <2>5. \A c \in DOMAIN t.cols : Written(t.rows[r].fields[t.cols[c].cid]) \in Fields
    BY ZenonT(40), <1>2, <1>4 DEF RowType, Written, Fields
  <2>6. row(r)[1] = KeyOf(t, r)
    BY <1>4, <2>3, <2>4, MdbAssumption DEF KeyOf, Written
  <2>7. row(r) \in Seq(Fields) /\ Len(row(r)) = Len(t.cols)
    BY <1>2, <2>5
  <2>8. \A c \in 1..Len(t.cols) : row(r)[c] # Null
    BY <1>2, MdbAssumption DEF Written
  <2> QED
    BY <2>4, <2>6, <2>7, <2>8
<1> HIDE DEF row
<1>6. rows \in Seq(Seq(Fields)) /\ Len(rows) = Len(t.rows) /\ DOMAIN rows = DOMAIN t.rows
  BY <1>2, <1>5
<1>7. im.name = t.name /\ im.cols = cols /\ im.rows = rows
  BY SMTT(40) DEF TableImage, row
<1>8. im \in ImageType
  BY <1>1, <1>3, <1>6 DEF TableImage, ImageType, CT, row
<1>9. Schemed(cols)
  BY <1>2, <1>3 DEF TableInv, Columns, Schemed
<1>10. rows # <<>> => cols # <<>>
  BY <1>2, <1>3, <1>6 DEF TableInv, Columns
<1>11. \A r \in DOMAIN rows : Len(rows[r]) = Len(cols) /\ rows[r][1] \in Ids
  BY <1>3, <1>5, <1>6
<1>12. \A r, q \in DOMAIN rows : rows[r][1] = rows[q][1] => r = q
  BY <1>5, <1>6 DEF TableInv, Keyed
<1>13. \A r \in DOMAIN rows : \A c \in 1..Len(cols) : rows[r][c] # Null
  BY <1>3, <1>5, <1>6
<1> HIDE DEF im, cols, rows
<1> QED
  BY <1>7, <1>8, <1>9, <1>10, <1>11, <1>12, <1>13 DEF ImageInv, im
-----------------------------------------------------------------------------
(* What calls do to a table.                                                 *)

\* lookupColumn finds the column that has the name.
LEMMA ColumnFound ==
    ASSUME NEW t, TableInv(t), NEW c
    PROVE  /\ lookupColumn(t, c) = 0 => \A d \in DOMAIN t.cols : t.cols[d].name # c
           /\ lookupColumn(t, c) # 0 => /\ lookupColumn(t, c) \in DOMAIN t.cols
                                        /\ t.cols[lookupColumn(t, c)].name = c
<1> DEFINE S == {d \in DOMAIN t.cols : t.cols[d].name = c}
<1>1. S \in SUBSET (Nat \ {0})
  BY LengthsOfTables DEF TableInv
<1>2. (FirstIn(S) = 0 <=> S = {}) /\ (S # {} => FirstIn(S) \in S)
  BY <1>1, FirstInNats
<1>3. lookupColumn(t, c) = FirstIn(S)
  BY DEF lookupColumn
<1> QED
  BY <1>2, <1>3

\* A table without rows is consistent if its columns are, and its index is empty.
LEMMA EmptyTable ==
    ASSUME NEW t \in TableType, Columns(t), t.rows = <<>>,
           t.index # None => /\ t.cols # <<>> /\ t.indexCol = 1 /\ "index" \in t.cols[1].flags
                             /\ t.index = <<>>
    PROVE  TableInv(t)
<1>1. Keyed(t)
  BY DEF Keyed
<1>2. Indexed(t)
  BY DEF Indexed
<1> QED
  BY <1>1, <1>2 DEF TableInv

\* An index that is empty, and none at all, are indices.
LEMMA EmptyIndex == <<>> \in Indexes /\ None \in Indexes
<1>1. <<>> \in [{} -> Nat]
  OBVIOUS
<1> QED
  BY <1>1 DEF Indexes

\* With an index there are only rows that it names: an empty one has none.
LEMMA IndexOfNoRows ==
    ASSUME NEW t, TableInv(t), t.rows = <<>>, t.index # None
    PROVE  t.index = <<>>
<1>1. t.index \in Indexes
  BY DEF TableInv, TableType
<1>2. PICK D \in SUBSET Fields : t.index \in [D -> Nat]
  BY <1>1 DEF Indexes
<1>3. \A k \in DOMAIN t.index : t.index[k] \in DOMAIN t.rows
  BY DEF TableInv, Indexed
<1>4. D = {}
  BY <1>2, <1>3
<1> QED
  BY <1>2, <1>4

\* A table has its name and its rows, in as many columns, or no rows at all.
Reshapes(u, t) == u.name = t.name /\ u.rows = t.rows /\ (u.rows = <<>> \/ Len(u.cols) = Len(t.cols))

\* A column comes last.
AddColumn(t, c, flags) ==
    [t EXCEPT !.cols = Append(t.cols, NewCol(Len(t.cols) + 1, c, flags)),
              !.index = IF "index" \in flags THEN <<>> ELSE t.index,
              !.indexCol = IF "index" \in flags THEN Len(t.cols) + 1 ELSE t.indexCol]

\* A first column that is the key, or a plain one behind it, keeps a table consistent (mdbAddColumn).
LEMMA AddColumnKeeps ==
    ASSUME NEW t, TableInv(t), NEW c \in ColNames, NEW flags \in SUBSET Flags,
           lookupColumn(t, c) = 0, Len(t.cols) < MaxCols,
           IF t.cols = <<>> THEN {"auto", "key"} \subseteq flags ELSE flags = {} /\ t.rows = <<>>,
           NEW u, u = AddColumn(t, c, flags)
    PROVE  TableInv(u) /\ Reshapes(u, t)
<1> DEFINE n == Len(t.cols) + 1
           col == NewCol(n, c, flags)
           cols == Append(t.cols, col)
           index == IF "index" \in flags THEN <<>> ELSE t.index
           pos == IF "index" \in flags THEN n ELSE t.indexCol
<1>1. /\ t \in TableType /\ t.cols \in Seq(ColType) /\ t.rows = <<>>
      /\ n \in Nat \ {0} /\ DOMAIN t.cols = 1..(n - 1) /\ n <= MaxCols /\ (t.cols = <<>> <=> n = 1)
  <2>1. t \in TableType /\ t.cols \in Seq(ColType) /\ (t.rows # <<>> => t.cols # <<>>)
    BY DEF TableInv, TableType, Columns
  <2> QED
    BY <2>1, MdbAssumption
<1>2. col \in ColType /\ col.name = c /\ col.cid = n /\ col.flags = flags /\ col.last = 0
  BY <1>1 DEF NewCol, ColType
<1> HIDE DEF col, n
<1>3. /\ cols \in Seq(ColType) /\ Len(cols) = n /\ DOMAIN cols = 1..n
      /\ (\A d \in DOMAIN t.cols : cols[d] = t.cols[d]) /\ cols[n] = col
  <2>1. Len(t.cols) = n - 1 /\ Len(t.cols) + 1 = n
    BY <1>1 DEF n
  <2> QED
    BY <1>1, <1>2, <2>1, AppendProperties
<1>4. index \in Indexes /\ pos \in Nat
  <2>1. t.index \in Indexes /\ t.indexCol \in Nat
    BY <1>1 DEF TableType
  <2> QED
    BY <1>1, <2>1, EmptyIndex
<1>5. \A d \in DOMAIN t.cols : t.cols[d].name # c
  BY ColumnFound
<1>6. \A d \in 1..n : d \in DOMAIN t.cols \/ d = n
  BY <1>1
<1>7. Columns(t) /\ Schemed(t.cols)
  BY DEF TableInv, Columns
<1>8. "index" \in flags => n = 1
  BY <1>1
<1>9. t.index # None => n # 1 /\ t.indexCol = 1 /\ "index" \in t.cols[1].flags /\ t.index = <<>>
  BY <1>1, IndexOfNoRows DEF TableInv, Indexed
<1>10. u = [t EXCEPT !.cols = cols, !.index = index, !.indexCol = pos]
  BY DEF col, n, AddColumn
<1>11. pos \in {0, 1}
  BY <1>7, <1>8 DEF Columns
<1>12. index # None => pos = 1 /\ index = <<>> /\ "index" \in cols[1].flags
  <2>1. CASE "index" \in flags
    BY <1>2, <1>3, <1>8, <2>1
  <2>2. CASE "index" \notin flags
    <3>1. index # None => 1 \in DOMAIN t.cols
      BY <1>1, <1>9, <2>2
    <3> QED
      BY <1>3, <1>9, <2>2, <3>1
  <2> QED
    BY <2>1, <2>2
<1> HIDE DEF cols, index, pos
<1>13. /\ u \in TableType /\ u.name = t.name /\ u.cols = cols /\ u.index = index /\ u.indexCol = pos
       /\ u.keyCol = t.keyCol /\ u.rows = <<>>
  BY <1>1, <1>3, <1>4, <1>10 DEF TableType
<1>14. Schemed(cols)
  <2>1. ASSUME NEW d \in 1..n
        PROVE  IF d = 1 THEN {"auto", "key"} \subseteq cols[d].flags ELSE cols[d].flags = {}
    <3>1. CASE d \in DOMAIN t.cols
      BY <1>3, <1>7, <3>1 DEF Schemed
    <3>2. CASE d = n
      BY <1>1, <1>2, <1>3, <3>2
    <3> QED
      BY <1>6, <3>1, <3>2
  <2> QED
    BY <1>1, <1>3, <2>1 DEF Schemed
<1>15. Columns(u)
  <2>1. \A d \in 1..n : cols[d].cid = d
    BY <1>2, <1>3, <1>6, <1>7 DEF Columns
  <2>2. \A d, e \in 1..n : cols[d].name = cols[e].name => d = e
    BY <1>2, <1>3, <1>5, <1>6, <1>7 DEF Columns
  <2>3. cols[1].last \in 0..MaxId
    <3>1. CASE n = 1
      BY <1>2, <1>3, <3>1, MdbAssumption
    <3>2. CASE n # 1
      BY <1>1, <1>3, <1>7, <3>2 DEF Columns
    <3> QED
      BY <3>1, <3>2
  <2>4. t.keyCol \in {0, 1}
    BY <1>7 DEF Columns
  <2>5. DOMAIN u.cols = 1..n
    BY <1>3, <1>13
  <2>6. Schemed(u.cols) /\ u.cols[1].last \in 0..MaxId
    BY <1>13, <1>14, <2>3
  <2>7. /\ \A d \in DOMAIN u.cols : u.cols[d].cid = d
        /\ \A d, e \in DOMAIN u.cols : u.cols[d].name = u.cols[e].name => d = e
    <3>1. u.cols = cols /\ DOMAIN cols = 1..n
      BY <1>3, <1>13
    <3>2. ASSUME NEW d \in DOMAIN u.cols PROVE u.cols[d].cid = d
      BY <2>1, <3>1
    <3>3. ASSUME NEW d \in DOMAIN u.cols, NEW e \in DOMAIN u.cols, u.cols[d].name = u.cols[e].name
          PROVE  d = e
      <4>1. d \in 1..n /\ e \in 1..n /\ cols[d].name = cols[e].name
        BY <3>1, <3>3
      <4> QED
        BY <2>2, <4>1
    <3> QED
      BY <3>2, <3>3
  <2>8. u.keyCol \in {0, 1} /\ u.indexCol \in {0, 1} /\ u.rows = <<>>
    BY <1>11, <1>13, <2>4
  <2> QED
    BY <2>6, <2>7, <2>8 DEF Columns
<1>16. cols # <<>>
  BY <1>1, <1>3
<1> QED
  BY <1>1, <1>12, <1>13, <1>15, <1>16, EmptyTable DEF Reshapes

\* One column gets another name, other flags or a validation.
Recolumned(u, t, s, col) ==
    u.cols = [t.cols EXCEPT ![s] = col] /\ u.rows = t.rows /\ u.keyCol = t.keyCol /\ u.name = t.name

\* Column s alone differs.
OneColumn(u, t, s, col) ==
    /\ u.cols \in Seq(ColType) /\ Len(u.cols) = Len(t.cols) /\ DOMAIN u.cols = DOMAIN t.cols
    /\ \A d \in DOMAIN t.cols : u.cols[d] = IF d = s THEN col ELSE t.cols[d]

\* The columns stay as consistent as the one that changes.
LEMMA RecolumnKeeps ==
    ASSUME NEW t, TableInv(t), NEW s \in DOMAIN t.cols, NEW col \in ColType,
           col.cid = t.cols[s].cid, col.last = t.cols[s].last,
           IF s = 1 THEN {"auto", "key"} \subseteq col.flags ELSE col.flags = {},
           \A d \in DOMAIN t.cols \ {s} : t.cols[d].name # col.name,
           NEW u, Recolumned(u, t, s, col), u.indexCol \in {0, 1}
    PROVE  OneColumn(u, t, s, col) /\ Columns(u) /\ Keyed(u)
<1>1. t.cols \in Seq(ColType) /\ DOMAIN t.cols = 1..Len(t.cols) /\ Len(t.cols) \in Nat
  BY LengthsOfTables DEF TableInv, TableType
<1>2. /\ u.cols \in Seq(ColType) /\ Len(u.cols) = Len(t.cols) /\ DOMAIN u.cols = DOMAIN t.cols
      /\ \A d \in DOMAIN t.cols : u.cols[d] = IF d = s THEN col ELSE t.cols[d]
  BY <1>1, ExceptSeq DEF Recolumned
<1>3. Columns(t) /\ Schemed(t.cols)
  BY DEF TableInv, Columns
<1>4. Schemed(u.cols)
  BY <1>2, <1>3 DEF Schemed
<1>5. \A d \in DOMAIN u.cols : u.cols[d].cid = d
  BY <1>2, <1>3 DEF Columns
<1>6. ASSUME NEW d \in DOMAIN u.cols, NEW e \in DOMAIN u.cols, u.cols[d].name = u.cols[e].name
      PROVE  d = e
  BY <1>2, <1>3, <1>6 DEF Columns
<1>7. t.cols # <<>> /\ u.cols # <<>> /\ u.cols[1].last = t.cols[1].last
  <2>1. t.cols # <<>> /\ u.cols # <<>> /\ 1 \in DOMAIN t.cols
    BY <1>1, <1>2
  <2> QED
    BY <1>2, <2>1
<1>8. u.cols[1].last \in 0..MaxId /\ u.keyCol \in {0, 1}
  BY <1>3, <1>7 DEF Columns, Recolumned
<1>9. Columns(u)
  BY <1>4, <1>5, <1>6, <1>7, <1>8 DEF Columns
<1>10. Keyed(u)
  BY <1>7 DEF TableInv, Keyed, KeyOf, Recolumned
<1> QED
  BY <1>2, <1>9, <1>10 DEF OneColumn

\* A table with one other column.
Recolumn(t, s, col) == [t EXCEPT !.cols = [t.cols EXCEPT ![s] = col]]

\* A column that keeps its flags, and takes no other name that is taken, leaves the table consistent.
LEMMA SameFlagsKeep ==
    ASSUME NEW t, TableInv(t), NEW s \in DOMAIN t.cols, NEW col \in ColType,
           col.cid = t.cols[s].cid, col.last = t.cols[s].last, col.flags = t.cols[s].flags,
           \A d \in DOMAIN t.cols \ {s} : t.cols[d].name # col.name,
           NEW u, u = Recolumn(t, s, col)
    PROVE  TableInv(u) /\ Reshapes(u, t)
<1> DEFINE cols == [t.cols EXCEPT ![s] = col]
<1>1. t \in TableType
  BY DEF TableInv
<1>2. IF s = 1 THEN {"auto", "key"} \subseteq col.flags ELSE col.flags = {}
  BY DEF TableInv, Columns, Schemed
<1>3. u = [t EXCEPT !.cols = cols]
  BY DEF Recolumn
<1>4. /\ u.cols = cols /\ u.rows = t.rows /\ u.keyCol = t.keyCol /\ u.indexCol = t.indexCol
      /\ u.index = t.index /\ u.name = t.name
  BY <1>1, <1>3 DEF TableType
<1>5. Recolumned(u, t, s, col) /\ u.indexCol \in {0, 1}
  BY <1>4 DEF Recolumned, TableInv, Columns
<1>6. OneColumn(u, t, s, col) /\ Columns(u) /\ Keyed(u)
  BY <1>2, <1>5, RecolumnKeeps
<1> HIDE DEF cols
<1>7. u \in TableType
  BY <1>1, <1>3, <1>4, <1>6 DEF TableType, OneColumn
<1>8. \A d \in DOMAIN t.cols : u.cols[d].flags = t.cols[d].flags
  BY <1>6 DEF OneColumn
<1>9. Indexed(u)
  <2> SUFFICES ASSUME u.index # None PROVE Indexed(u)
    BY DEF Indexed
  <2>1. u.cols # <<>> /\ 1 \in DOMAIN t.cols
    BY <1>1, <1>6, LengthsOfTables DEF OneColumn
  <2> QED
    BY <1>4, <1>8, <2>1 DEF TableInv, Indexed, KeyOf
<1> QED
  BY <1>4, <1>6, <1>7, <1>9 DEF TableInv, Reshapes, OneColumn

\* A new name of a column is one of those changes (mdbRenameColumn).
LEMMA RenameColumnKeeps ==
    ASSUME NEW t, TableInv(t), NEW s \in DOMAIN t.cols, NEW c \in ColNames, lookupColumn(t, c) = 0,
           NEW u, u = Recolumn(t, s, [t.cols[s] EXCEPT !.name = c])
    PROVE  TableInv(u) /\ Reshapes(u, t)
<1> DEFINE col == [t.cols[s] EXCEPT !.name = c]
<1>1. t.cols[s] \in ColType
  BY LengthsOfTables DEF TableInv
<1>2. /\ col \in ColType /\ col.name = c /\ col.cid = t.cols[s].cid /\ col.last = t.cols[s].last
      /\ col.flags = t.cols[s].flags
  BY <1>1 DEF ColType
<1>3. \A d \in DOMAIN t.cols \ {s} : t.cols[d].name # col.name
  BY <1>2, ColumnFound
<1>4. u = Recolumn(t, s, col)
  OBVIOUS
<1> HIDE DEF col
<1> QED
  BY <1>2, <1>3, <1>4, SameFlagsKeep

\* A validation leaves what is read alone.
LEMMA ValidationKeeps ==
    ASSUME NEW t, TableInv(t), NEW s \in DOMAIN t.cols,
           NEW u, u = Recolumn(t, s, [t.cols[s] EXCEPT !.unique = TRUE])
    PROVE  TableInv(u) /\ Reshapes(u, t)
<1> DEFINE col == [t.cols[s] EXCEPT !.unique = TRUE]
<1>1. t.cols[s] \in ColType
  BY LengthsOfTables DEF TableInv
<1>2. /\ col \in ColType /\ col.name = t.cols[s].name /\ col.cid = t.cols[s].cid
      /\ col.last = t.cols[s].last /\ col.flags = t.cols[s].flags
  BY <1>1 DEF ColType
<1>3. \A d \in DOMAIN t.cols \ {s} : t.cols[d].name # col.name
  BY <1>2 DEF TableInv, Columns
<1>4. u = Recolumn(t, s, col)
  OBVIOUS
<1> HIDE DEF col
<1> QED
  BY <1>2, <1>3, <1>4, SameFlagsKeep

\* The index of the first column changes, and its flags.
Reindex(t, index, pos, flags) ==
    [t EXCEPT !.index = index, !.indexCol = pos,
              !.cols = [t.cols EXCEPT ![1] = [t.cols[1] EXCEPT !.flags = flags]]]

\* An index that starts empty is right for a table without rows (mdbAddIndex).
LEMMA AddIndexKeeps ==
    ASSUME NEW t, TableInv(t), 1 \in DOMAIN t.cols, t.rows = <<>>,
           NEW u, u = Reindex(t, <<>>, 1, t.cols[1].flags \cup {"index"})
    PROVE  TableInv(u) /\ Reshapes(u, t)
<1> DEFINE col == [t.cols[1] EXCEPT !.flags = t.cols[1].flags \cup {"index"}]
           cols == [t.cols EXCEPT ![1] = col]
           index == <<>>
           pos == 1
<1>1. t \in TableType /\ t.cols[1] \in ColType
  BY LengthsOfTables DEF TableInv
<1>2. /\ col \in ColType /\ col.name = t.cols[1].name /\ col.cid = t.cols[1].cid
      /\ col.last = t.cols[1].last /\ col.flags = t.cols[1].flags \cup {"index"}
  BY <1>1 DEF ColType, Flags
<1>3. \A d \in DOMAIN t.cols \ {1} : t.cols[d].name # col.name
  BY <1>2 DEF TableInv, Columns
<1>4. {"auto", "key"} \subseteq col.flags
  BY <1>2 DEF TableInv, Columns, Schemed
<1>5. /\ u = [t EXCEPT !.index = index, !.indexCol = pos, !.cols = cols]
      /\ index \in Indexes /\ pos \in Nat
  BY EmptyIndex DEF Reindex
<1> HIDE DEF col, index, pos
<1>6. /\ u.cols = cols /\ u.rows = t.rows /\ u.keyCol = t.keyCol /\ u.indexCol = pos
      /\ u.index = index /\ u.name = t.name
  BY <1>1, <1>5 DEF TableType
<1>7. Recolumned(u, t, 1, col) /\ u.indexCol \in {0, 1}
  BY <1>6 DEF Recolumned, pos
<1>8. OneColumn(u, t, 1, col) /\ Columns(u)
  BY <1>2, <1>3, <1>4, <1>7, RecolumnKeeps
<1> HIDE DEF cols
<1>9. u \in TableType
  <2>1. cols \in Seq(ColType)
    BY <1>6, <1>8 DEF OneColumn
  <2> QED
    BY <1>1, <1>5, <2>1 DEF TableType
<1>10. u.cols # <<>> /\ "index" \in u.cols[1].flags
  <2>1. 1 \in DOMAIN u.cols /\ u.cols[1] = col /\ u.cols \in Seq(ColType)
    BY <1>8 DEF OneColumn
  <2> QED
    BY <1>2, <2>1
<1> QED
  BY <1>6, <1>8, <1>9, <1>10, EmptyTable DEF index, pos, Reshapes

\* Without its index a table is still consistent.
LEMMA NoIndexKeeps ==
    ASSUME NEW t, TableInv(t), NEW u, u = [t EXCEPT !.index = None]
    PROVE  TableInv(u) /\ Reshapes(u, t)
<1>1. t \in TableType
  BY DEF TableInv
<1>2. /\ u.cols = t.cols /\ u.rows = t.rows /\ u.keyCol = t.keyCol /\ u.indexCol = t.indexCol
      /\ u.index = None /\ u.name = t.name /\ u \in TableType
  BY SMTT(40), <1>1, EmptyIndex DEF TableType
<1> QED
  BY <1>2 DEF TableInv, Columns, Keyed, Indexed, KeyOf, Reshapes

\* So it is when the flag of the column goes too (mdbRemoveIndex).
LEMMA RemoveIndexKeeps ==
    ASSUME NEW t, TableInv(t), t.indexCol \in DOMAIN t.cols,
           NEW u, u = Reindex(t, None, 0, t.cols[1].flags \ {"index"})
    PROVE  TableInv(u) /\ Reshapes(u, t)
<1> DEFINE col == [t.cols[1] EXCEPT !.flags = t.cols[1].flags \ {"index"}]
           cols == [t.cols EXCEPT ![1] = col]
           pos == 0
<1>0. t.indexCol = 1 /\ 1 \in DOMAIN t.cols
  <2>1. t.indexCol \in {0, 1} /\ t.indexCol # 0
    BY LengthsOfTables DEF TableInv, Columns
  <2> QED
    BY <2>1
<1>1. t \in TableType /\ t.cols[1] \in ColType
  BY <1>0, LengthsOfTables DEF TableInv
<1>2. /\ col \in ColType /\ col.name = t.cols[1].name /\ col.cid = t.cols[1].cid
      /\ col.last = t.cols[1].last /\ col.flags = t.cols[1].flags \ {"index"}
  BY <1>1 DEF ColType, Flags
<1>3. \A d \in DOMAIN t.cols \ {1} : t.cols[d].name # col.name
  BY <1>0, <1>2 DEF TableInv, Columns
<1>4. {"auto", "key"} \subseteq col.flags
  BY <1>0, <1>2 DEF TableInv, Columns, Schemed
<1>5. u = [t EXCEPT !.index = None, !.indexCol = pos, !.cols = cols] /\ pos \in Nat
  BY <1>0 DEF Reindex
<1> HIDE DEF col, pos
<1>6. /\ u.cols = cols /\ u.rows = t.rows /\ u.keyCol = t.keyCol /\ u.indexCol = pos
      /\ u.index = None /\ u.name = t.name
  BY <1>1, <1>5 DEF TableType
<1>7. Recolumned(u, t, 1, col) /\ u.indexCol \in {0, 1}
  BY <1>6 DEF Recolumned, pos
<1>8. OneColumn(u, t, 1, col) /\ Columns(u) /\ Keyed(u)
  BY <1>0, <1>2, <1>3, <1>4, <1>7, RecolumnKeeps
<1> HIDE DEF cols
<1>9. u \in TableType
  <2>1. None \in Indexes
    BY DEF Indexes
  <2>2. cols \in Seq(ColType)
    BY <1>6, <1>8 DEF OneColumn
  <2> QED
    BY <1>1, <1>5, <2>1, <2>2 DEF TableType
<1> QED
  BY <1>6, <1>8, <1>9 DEF TableInv, Indexed, Reshapes, OneColumn

\* RemoveAt closes a sequence up.
LEMMA RemoveAtPlaces ==
    ASSUME NEW S, NEW s \in Seq(S), NEW r \in 1..Len(s)
    PROVE  /\ RemoveAt(s, r) \in Seq(S) /\ Len(RemoveAt(s, r)) = Len(s) - 1
           /\ \A i \in 1..(Len(s) - 1) : RemoveAt(s, r)[i] = IF i < r THEN s[i] ELSE s[i + 1]
<1> DEFINE a == SubSeq(s, 1, r - 1)
           b == SubSeq(s, r + 1, Len(s))
<1>0. r \in Nat /\ Len(s) \in Nat /\ r <= Len(s) /\ 1 <= r
  OBVIOUS
<1>1. a \in Seq(S) /\ Len(a) = r - 1 /\ \A i \in 1..(r - 1) : a[i] = s[i]
  BY <1>0
<1>2. b \in Seq(S) /\ Len(b) = Len(s) - r /\ \A i \in 1..(Len(s) - r) : b[i] = s[r + i]
  BY <1>0
<1>3. RemoveAt(s, r) = a \o b
  BY DEF RemoveAt
<1> HIDE DEF a, b
<1>4. /\ a \o b \in Seq(S) /\ Len(a \o b) = Len(s) - 1
      /\ \A i \in 1..(Len(s) - 1) : (a \o b)[i] = IF i <= r - 1 THEN a[i] ELSE b[i - (r - 1)]
  <2>1. Len(a) + Len(b) = Len(s) - 1 /\ Len(a) = r - 1
    BY <1>0, <1>1, <1>2
  <2> DEFINE c == a \o b
  <2>2. /\ c \in Seq(S) /\ Len(c) = Len(a) + Len(b)
        /\ \A i \in 1..(Len(a) + Len(b)) : c[i] = IF i <= Len(a) THEN a[i] ELSE b[i - Len(a)]
    BY <1>1, <1>2, ConcatProperties
  <2> HIDE DEF c
  <2> QED
    BY <2>1, <2>2 DEF c
<1>5. ASSUME NEW i \in 1..(Len(s) - 1) PROVE (a \o b)[i] = IF i < r THEN s[i] ELSE s[i + 1]
  <2>1. CASE i < r
    BY <1>0, <1>1, <1>4, <2>1
  <2>2. CASE ~(i < r)
    <3>1. i - (r - 1) \in 1..(Len(s) - r) /\ r + (i - (r - 1)) = i + 1
      BY <1>0, <2>2
    <3>2. (a \o b)[i] = b[i - (r - 1)]
      BY <1>0, <1>4, <2>2
    <3>3. b[i - (r - 1)] = s[i + 1]
      BY <1>2, <3>1
    <3> QED
      BY <2>2, <3>2, <3>3
  <2> QED
    BY <2>1, <2>2
<1> QED
  BY <1>3, <1>4, <1>5

\* The last column goes.
RemoveColumn(t, s) ==
    [t EXCEPT !.cols = [j \in 1..(Len(t.cols) - 1) |-> IF j < t.cols[s].cid THEN t.cols[j] ELSE t.cols[j + 1]],
              !.index = IF t.indexCol = s THEN None ELSE t.index,
              !.indexCol = IF t.indexCol = s THEN 0 ELSE t.indexCol,
              !.keyCol = IF t.keyCol = s THEN 0 ELSE t.keyCol]

\* That keeps a table without rows consistent (mdbRemoveColumn).
LEMMA RemoveColumnKeeps ==
    ASSUME NEW t, TableInv(t), t.rows = <<>>, NEW s \in DOMAIN t.cols, s = Len(t.cols),
           NEW u, u = RemoveColumn(t, s)
    PROVE  TableInv(u) /\ Reshapes(u, t)
<1> DEFINE cols == [j \in 1..(Len(t.cols) - 1) |-> IF j < t.cols[s].cid THEN t.cols[j] ELSE t.cols[j + 1]]
           index == IF t.indexCol = s THEN None ELSE t.index
           pos == IF t.indexCol = s THEN 0 ELSE t.indexCol
           key == IF t.keyCol = s THEN 0 ELSE t.keyCol
<1>1. /\ t \in TableType /\ Columns(t) /\ Schemed(t.cols) /\ s \in Nat \ {0} /\ DOMAIN t.cols = 1..s
      /\ t.keyCol \in {0, 1} /\ t.indexCol \in {0, 1} /\ t.index \in Indexes /\ t.cols \in Seq(ColType)
      /\ \A c \in DOMAIN t.cols : t.cols[c].cid = c /\ t.cols[c] \in ColType
  BY LengthsOfTables DEF TableInv, Columns, TableType
<1>2. /\ cols \in Seq(ColType) /\ Len(cols) = s - 1 /\ DOMAIN cols = 1..(s - 1)
      /\ \A c \in 1..(s - 1) : cols[c] = t.cols[c] /\ c \in DOMAIN t.cols
  <2>1. cols = [j \in 1..(s - 1) |-> t.cols[j]]
    BY <1>1
  <2> HIDE DEF cols
  <2> QED
    BY <1>1, <2>1
<1>3. index \in Indexes /\ pos \in {0, 1} /\ key \in {0, 1} /\ pos \in Nat /\ key \in Nat
  BY <1>1 DEF Indexes
<1>4. index # None => s # 1 /\ pos = 1 /\ index = <<>> /\ "index" \in t.cols[1].flags
  <2> SUFFICES ASSUME index # None PROVE s # 1 /\ pos = 1 /\ index = <<>> /\ "index" \in t.cols[1].flags
    OBVIOUS
  <2>1. t.indexCol # s /\ index = t.index /\ pos = t.indexCol
    OBVIOUS
  <2>2. t.index # None /\ t.indexCol = 1 /\ "index" \in t.cols[1].flags
    BY <2>1 DEF TableInv, Indexed
  <2>3. t.index = <<>>
    BY <2>2, IndexOfNoRows
  <2> QED
    BY <2>1, <2>2, <2>3
<1>5. u = [t EXCEPT !.cols = cols, !.index = index, !.indexCol = pos, !.keyCol = key]
  BY DEF RemoveColumn
<1> HIDE DEF cols, index, pos, key
<1>6. /\ u \in TableType /\ u.name = t.name /\ u.cols = cols /\ u.index = index /\ u.indexCol = pos
      /\ u.keyCol = key /\ u.rows = <<>>
  BY ZenonT(40), <1>1, <1>2, <1>3, <1>5 DEF TableType
<1>7. Schemed(cols)
  <2>1. Len(cols) <= MaxCols
    BY <1>1, <1>2, MdbAssumption DEF Schemed
  <2>2. ASSUME NEW c \in DOMAIN cols
        PROVE  IF c = 1 THEN {"auto", "key"} \subseteq cols[c].flags ELSE cols[c].flags = {}
    <3>1. c \in DOMAIN t.cols /\ cols[c] = t.cols[c]
      BY <1>2
    <3> QED
      BY <1>1, <3>1 DEF Schemed
  <2> QED
    BY <2>1, <2>2 DEF Schemed
<1>8. \A c \in 1..(s - 1) : cols[c].cid = c
  BY <1>1, <1>2
<1>9. ASSUME NEW c \in 1..(s - 1), NEW d \in 1..(s - 1), cols[c].name = cols[d].name PROVE c = d
  <2>1. c \in DOMAIN t.cols /\ d \in DOMAIN t.cols /\ t.cols[c].name = t.cols[d].name
    BY <1>2, <1>9
  <2> QED
    BY <1>1, <2>1 DEF Columns
<1>10. s # 1 => 1 \in 1..(s - 1) /\ cols[1] = t.cols[1] /\ t.cols[1].last \in 0..MaxId
  <2> SUFFICES ASSUME s # 1 PROVE 1 \in 1..(s - 1) /\ cols[1] = t.cols[1] /\ t.cols[1].last \in 0..MaxId
    OBVIOUS
  <2>1. 1 \in 1..(s - 1)
    <3>1. s \in Nat \ {0}
      BY <1>1
    <3>2. \A n \in Nat \ {0} : n # 1 => 1 \in 1..(n - 1)
      OBVIOUS
    <3> QED
      BY <3>1, <3>2, Zenon
  <2>2. cols[1] = t.cols[1] /\ t.cols # <<>>
    BY <1>1, <1>2, <2>1
  <2> QED
    BY <1>1, <2>1, <2>2 DEF Columns
<1>11. cols # <<>> => s # 1
  BY <1>2
<1>12. Columns(u)
  BY ZenonT(60), <1>2, <1>3, <1>6, <1>7, <1>8, <1>9, <1>10, <1>11 DEF Columns
<1>13. index # None => cols # <<>> /\ "index" \in cols[1].flags
  <2> SUFFICES ASSUME index # None PROVE cols # <<>> /\ "index" \in cols[1].flags
    OBVIOUS
  <2>1. 1 \in DOMAIN cols /\ cols[1] = t.cols[1]
    BY <1>2, <1>4, <1>10
  <2> QED
    BY <1>2, <1>4, <2>1
<1> QED
  BY <1>4, <1>6, <1>12, <1>13, EmptyTable DEF Reshapes

\* Without an index a row in the middle goes, with one the last.
DeleteRow(t, r, k) ==
    [t EXCEPT !.rows = IF r \in DOMAIN t.rows THEN RemoveAt(t.rows, r) ELSE t.rows,
              !.index = IF t.index = None THEN t.index ELSE Unkey(t.index, k)]

\* Then the index still points to the rows that have the keys (mdbDeleteRow).
LEMMA DeleteRowKeeps ==
    ASSUME NEW t, TableInv(t), NEW k \in Ids, NEW r \in DOMAIN t.rows, KeyOf(t, r) = k,
           t.index = None \/ r = Len(t.rows),
           NEW u, u = DeleteRow(t, r, k)
    PROVE  TableInv(u) /\ u.name = t.name
<1> DEFINE rows == RemoveAt(t.rows, r)
           index == IF t.index = None THEN t.index ELSE Unkey(t.index, k)
           n == Len(t.rows) - 1
           from(i) == IF i < r THEN i ELSE i + 1
<1>1. /\ t \in TableType /\ t.rows \in Seq(RowType) /\ t.index \in Indexes
      /\ DOMAIN t.rows = 1..(n + 1) /\ n \in Nat /\ r \in 1..(n + 1) /\ Len(t.rows) = n + 1
  <2>1. t \in TableType /\ t.rows \in Seq(RowType) /\ t.index \in Indexes
    BY DEF TableInv, TableType
  <2> QED
    BY <2>1
<1>2. /\ rows \in Seq(RowType) /\ Len(rows) = n /\ DOMAIN rows = 1..n
      /\ \A i \in 1..n : rows[i] = t.rows[from(i)] /\ from(i) \in DOMAIN t.rows /\ from(i) # r
  <2>1. /\ RemoveAt(t.rows, r) \in Seq(RowType) /\ Len(RemoveAt(t.rows, r)) = Len(t.rows) - 1
        /\ \A i \in 1..(Len(t.rows) - 1) : RemoveAt(t.rows, r)[i] = IF i < r THEN t.rows[i] ELSE t.rows[i + 1]
    BY ZenonT(40), <1>1, RemoveAtPlaces
  <2> HIDE DEF rows
  <2>2. /\ rows \in Seq(RowType) /\ Len(rows) = n
        /\ \A i \in 1..n : rows[i] = IF i < r THEN t.rows[i] ELSE t.rows[i + 1]
    BY <2>1 DEF rows
  <2> HIDE DEF n
  <2> QED
    BY <1>1, <2>2
<1>3. index \in Indexes
  <2>1. CASE t.index = None
    BY <1>1, <2>1
  <2>2. CASE t.index # None
    <3>1. PICK D \in SUBSET Fields : t.index \in [D -> Nat]
      BY <1>1, <2>2 DEF Indexes
    <3>2. Unkey(t.index, k) \in [D \ {k} -> Nat] /\ D \ {k} \in SUBSET Fields
      BY <3>1 DEF Unkey
    <3> QED
      BY <2>2, <3>2 DEF Indexes
  <2> QED
    BY <2>1, <2>2
<1>4. u = [t EXCEPT !.rows = rows, !.index = index]
  BY DEF DeleteRow
<1>5. index # None => /\ t.index # None /\ DOMAIN index = DOMAIN t.index \ {k} /\ r = n + 1
                      /\ \A v \in DOMAIN index : index[v] = t.index[v]
  BY <1>1 DEF Unkey
<1> HIDE DEF rows, index, n
<1>6. /\ u \in TableType /\ u.name = t.name /\ u.cols = t.cols /\ u.index = index /\ u.rows = rows
      /\ u.keyCol = t.keyCol /\ u.indexCol = t.indexCol
  BY <1>1, <1>2, <1>3, <1>4 DEF TableType
<1>7. Columns(u)
  <2>1. t.cols # <<>>
    BY <1>1 DEF TableInv, Columns
  <2> QED
    BY <1>6, <2>1 DEF TableInv, Columns
<1>8. \A i \in 1..n : KeyOf(u, i) = KeyOf(t, from(i))
  BY <1>2, <1>6 DEF KeyOf
<1>9. \A i, j \in 1..n : from(i) = from(j) => i = j
  BY <1>1
<1>10. Keyed(u)
  <2>1. \A i \in DOMAIN u.rows : KeyOf(u, i) \in 1..u.cols[1].last
    BY <1>2, <1>6, <1>8 DEF TableInv, Keyed
  <2>2. ASSUME NEW i \in DOMAIN u.rows, NEW j \in DOMAIN u.rows, KeyOf(u, i) = KeyOf(u, j) PROVE i = j
    <3>1. i \in 1..n /\ j \in 1..n
      BY <1>2, <1>6
    <3>2. from(i) = from(j)
      BY <1>2, <1>8, <2>2, <3>1 DEF TableInv, Keyed
    <3> QED
      BY <1>9, <3>1, <3>2
  <2> QED
    BY <2>1, <2>2 DEF Keyed
<1>11. Indexed(u)
  <2> SUFFICES ASSUME index # None PROVE Indexed(u)
    BY <1>6 DEF Indexed
  <2>1. /\ t.cols # <<>> /\ t.indexCol = 1 /\ "index" \in t.cols[1].flags
        /\ \A q \in DOMAIN t.rows : t.rows[q].rid = q /\ KeyOf(t, q) \in DOMAIN t.index
        /\ \A v \in DOMAIN t.index : t.index[v] \in DOMAIN t.rows /\ KeyOf(t, t.index[v]) = v
    BY <1>5 DEF TableInv, Indexed
  <2>2. \A i \in 1..n : from(i) = i
    BY <1>1, <1>5
  <2>3. \A i \in 1..n : rows[i] = t.rows[i] /\ KeyOf(u, i) = KeyOf(t, i) /\ i \in DOMAIN t.rows /\ i # r
    BY <1>2, <1>8, <2>2
  <2>4. \A i \in 1..n : KeyOf(t, i) # k
    BY <2>3 DEF TableInv, Keyed
  <2>5. \A i \in 1..n : rows[i].rid = i /\ KeyOf(u, i) \in DOMAIN index
    BY <1>5, <2>1, <2>3, <2>4
  <2>6. ASSUME NEW v \in DOMAIN index PROVE index[v] \in 1..n /\ KeyOf(u, index[v]) = v
    <3>1. v \in DOMAIN t.index /\ v # k /\ index[v] = t.index[v]
      BY <1>5
    <3>2. t.index[v] \in DOMAIN t.rows /\ t.index[v] # r
      BY <2>1, <3>1
    <3>3. t.index[v] \in 1..n
      BY <1>1, <1>5, <3>2
    <3> QED
      BY <2>1, <2>3, <3>1, <3>3
  <2> QED
    BY <1>2, <1>6, <2>1, <2>5, <2>6 DEF Indexed
<1> QED
  BY <1>6, <1>7, <1>10, <1>11 DEF TableInv
-----------------------------------------------------------------------------
(* What calls do to the tables.                                              *)

\* One table may become another one that has its name.
LEMMA OneTableKeeps ==
    ASSUME NEW ts, TablesInv(ts), NEW i \in DOMAIN ts, NEW u, TableInv(u), u.name = ts[i].name,
           NEW vs, vs = [ts EXCEPT ![i] = u]
    PROVE  TablesInv(vs)
<1>1. ts \in Seq(TableType) /\ u \in TableType
  BY DEF TablesInv, TableInv
<1>2. /\ vs \in Seq(TableType) /\ Len(vs) = Len(ts) /\ DOMAIN vs = DOMAIN ts
      /\ \A j \in DOMAIN ts : vs[j] = IF j = i THEN u ELSE ts[j]
  BY <1>1, ExceptSeq
<1>3. \A j \in DOMAIN ts : TableInv(vs[j]) /\ vs[j].name = ts[j].name
  BY <1>2 DEF TablesInv
<1> QED
  BY <1>2, <1>3 DEF TablesInv

\* One table may take a name that no table has.
LEMMA NewNameKeeps ==
    ASSUME NEW ts, TablesInv(ts), NEW i \in DOMAIN ts, NEW n \in Names,
           \A j \in DOMAIN ts : ts[j].name # n,
           NEW vs, vs = [ts EXCEPT ![i] = [ts[i] EXCEPT !.name = n]]
    PROVE  TablesInv(vs)
<1> DEFINE t == ts[i]
           u == [t EXCEPT !.name = n]
<1>1. ts \in Seq(TableType) /\ TableInv(t) /\ t \in TableType
  BY DEF TablesInv, TableInv
<1> HIDE DEF t
<1>2. /\ u \in TableType /\ u.name = n /\ u.cols = t.cols /\ u.rows = t.rows /\ u.index = t.index
      /\ u.keyCol = t.keyCol /\ u.indexCol = t.indexCol
  BY <1>1 DEF TableType
<1>3. vs = [ts EXCEPT ![i] = u]
  BY DEF t
<1> HIDE DEF u
<1>4. TableInv(u)
  BY <1>1, <1>2 DEF TableInv, Columns, Keyed, Indexed, KeyOf
<1>5. /\ vs \in Seq(TableType) /\ Len(vs) = Len(ts) /\ DOMAIN vs = DOMAIN ts
      /\ \A j \in DOMAIN ts : vs[j] = IF j = i THEN u ELSE ts[j]
  BY <1>1, <1>2, <1>3, ExceptSeq
<1>6. \A j \in DOMAIN vs : TableInv(vs[j])
  BY <1>4, <1>5 DEF TablesInv
<1>7. \A j, k \in DOMAIN vs : vs[j].name = vs[k].name => j = k
  BY <1>2, <1>5 DEF TablesInv
<1> QED
  BY <1>5, <1>6, <1>7 DEF TablesInv

\* A table may be added under a name that no table has.
LEMMA NewTableKeeps ==
    ASSUME NEW ts, TablesInv(ts), NEW n \in Names, \A j \in DOMAIN ts : ts[j].name # n
    PROVE  TablesInv(Append(ts, NewTable(n)))
<1> DEFINE t == NewTable(n)
           vs == Append(ts, t)
<1>1. <<>> \in Seq(ColType) /\ <<>> \in Seq(RowType)
  OBVIOUS
<1>2. t \in TableType /\ t.name = n /\ t.cols = <<>> /\ t.rows = <<>> /\ t.index = None
      /\ t.keyCol = 0 /\ t.indexCol = 0
  BY <1>1, EmptyIndex DEF NewTable, TableType
<1> HIDE DEF t
<1>3. Columns(t)
  <2>1. Schemed(t.cols)
    BY <1>2, MdbAssumption DEF Schemed
  <2> QED
    BY <1>2, <2>1 DEF Columns
<1>4. TableInv(t)
  BY <1>2, <1>3, EmptyTable
<1>5. ts \in Seq(TableType)
  BY DEF TablesInv
<1>6. /\ vs \in Seq(TableType) /\ DOMAIN vs = DOMAIN ts \cup {Len(ts) + 1}
      /\ (\A j \in DOMAIN ts : vs[j] = ts[j]) /\ vs[Len(ts) + 1] = t
  BY <1>2, <1>5, AppendProperties
<1> HIDE DEF vs
<1>7. \A j \in DOMAIN vs : TableInv(vs[j])
  BY <1>4, <1>6 DEF TablesInv
<1>8. \A j, k \in DOMAIN vs : vs[j].name = vs[k].name => j = k
  BY <1>2, <1>6 DEF TablesInv
<1>9. TablesInv(vs)
  BY <1>6, <1>7, <1>8 DEF TablesInv
<1> QED
  BY <1>9 DEF vs, t

\* A table may go.
LEMMA RemoveTableKeeps ==
    ASSUME NEW ts, TablesInv(ts), NEW i \in DOMAIN ts
    PROVE  TablesInv(RemoveAt(ts, i))
<1> DEFINE vs == RemoveAt(ts, i)
           from(j) == IF j < i THEN j ELSE j + 1
<1>1. ts \in Seq(TableType) /\ i \in 1..Len(ts) /\ Len(ts) \in Nat /\ DOMAIN ts = 1..Len(ts)
  BY SMTT(40) DEF TablesInv
<1>2. /\ vs \in Seq(TableType) /\ Len(vs) = Len(ts) - 1
      /\ \A j \in 1..(Len(ts) - 1) : vs[j] = IF j < i THEN ts[j] ELSE ts[j + 1]
  BY <1>1, RemoveAtPlaces
<1> HIDE DEF vs
<1>3. DOMAIN vs = 1..(Len(ts) - 1)
  BY <1>1, <1>2
<1>4. \A j \in DOMAIN vs : vs[j] = ts[from(j)] /\ from(j) \in DOMAIN ts
  BY <1>1, <1>2, <1>3
<1>5. \A j, k \in DOMAIN vs : from(j) = from(k) => j = k
  BY <1>1, <1>3
<1> HIDE DEF from
<1>6. \A j \in DOMAIN vs : TableInv(vs[j])
  BY <1>4 DEF TablesInv
<1>7. \A j, k \in DOMAIN vs : vs[j].name = vs[k].name => j = k
  BY <1>4, <1>5 DEF TablesInv
<1>8. TablesInv(vs)
  BY <1>2, <1>6, <1>7 DEF TablesInv
<1> QED
  BY <1>8 DEF vs

\* What is loaded from an image that has no name twice.
LEMMA LoadKeeps ==
    ASSUME NEW image \in Seq(ImageType), \A i \in DOMAIN image : ImageInv(image[i]), Loadable(image)
    PROVE  TablesInv(Load(image))
<1> DEFINE ts == Load(image)
<1>1. Len(image) \in Nat /\ DOMAIN image = 1..Len(image)
  OBVIOUS
<1>2. ASSUME NEW i \in DOMAIN image
      PROVE  TableInv(LoadTable(image[i])) /\ LoadTable(image[i]).name = image[i].name
  <2> DEFINE im == image[i]
  <2>1. ImageInv(im)
    OBVIOUS
  <2>2. \A c, d \in DOMAIN im.cols : im.cols[c].name = im.cols[d].name => c = d
    BY DEF Loadable
  <2> HIDE DEF im
  <2>3. TableInv(LoadTable(im)) /\ LoadTable(im).name = im.name
    BY <2>1, <2>2, TableLoads DEF Loaded
  <2> QED
    BY <2>3 DEF im
<1>3. /\ DOMAIN ts = DOMAIN image
      /\ \A i \in DOMAIN image : TableInv(ts[i]) /\ ts[i].name = image[i].name
  BY <1>2 DEF Load
<1>4. ts = [i \in 1..Len(image) |-> ts[i]]
  BY DEF Load
<1> HIDE DEF ts
<1>5. ts \in Seq(TableType)
  BY <1>1, <1>3, <1>4 DEF TableInv
<1>6. \A i, j \in DOMAIN ts : ts[i].name = ts[j].name => i = j
  BY <1>3 DEF Loadable
<1>7. TablesInv(ts)
  BY <1>3, <1>5, <1>6 DEF TablesInv
<1> QED
  BY <1>7 DEF ts

\* The image of consistent tables is one that can be loaded.
LEMMA ImageKeeps ==
    ASSUME NEW ts, TablesInv(ts)
    PROVE  Image(ts) \in Seq(ImageType) /\ \A i \in DOMAIN Image(ts) : ImageInv(Image(ts)[i])
<1> DEFINE image == Image(ts)
<1>1. image = [i \in DOMAIN ts |-> TableImage(ts[i])]
  BY DEF Image, TableImage
<1>2. ts \in Seq(TableType) /\ Len(ts) \in Nat /\ DOMAIN ts = 1..Len(ts)
  BY DEF TablesInv
<1>3. \A i \in DOMAIN ts : ImageInv(TableImage(ts[i])) /\ TableImage(ts[i]) \in ImageType
  BY ImageOfTable DEF TablesInv, ImageInv
<1> HIDE DEF image
<1>4. image \in Seq(ImageType) /\ \A i \in DOMAIN image : ImageInv(image[i])
  BY <1>1, <1>2, <1>3
<1> QED
  BY <1>4 DEF image

\* lookupTable finds the table that has the name.
LEMMA TableFound ==
    ASSUME TablesInv(tables), NEW n
    PROVE  /\ lookupTable(n) = 0 => \A i \in DOMAIN tables : tables[i].name # n
           /\ lookupTable(n) # 0 => lookupTable(n) \in DOMAIN tables /\ tables[lookupTable(n)].name = n
           /\ \A i \in DOMAIN tables : Locked(n, i) => tables[i].name = n /\ TableInv(tables[i])
<1> DEFINE S == {i \in DOMAIN tables : tables[i].name = n}
<1>1. S \in SUBSET (Nat \ {0})
  <2>1. tables \in Seq(TableType)
    BY DEF TablesInv
  <2> QED
    BY <2>1
<1>2. (FirstIn(S) = 0 <=> S = {}) /\ (S # {} => FirstIn(S) \in S)
  BY <1>1, FirstInNats
<1>3. lookupTable(n) = FirstIn(S)
  BY DEF lookupTable
<1> QED
  BY <1>2, <1>3 DEF Locked, TablesInv
-----------------------------------------------------------------------------
(* The calls that change the schema.                                         *)

\* A call puts u in the place of a table, and keeps the name and the rest.
LEMMA SetOne ==
    ASSUME TablesInv(tables), NEW i \in DOMAIN tables, NEW u, TableInv(u), u.name = tables[i].name,
           tables' = [tables EXCEPT ![i] = u]
    PROVE  TablesInv(tables')
  BY OneTableKeeps

\* A call changes the tables and leaves records and files alone.
Kept == TablesInv(tables') /\ UNCHANGED <<held, file>>

\* A call changes one table, but not its rows.
Reshaped ==
    /\ UNCHANGED <<held, file>>
    /\ \E i \in DOMAIN tables : \E u :
          tables' = [tables EXCEPT ![i] = u] /\ TableInv(u) /\ Reshapes(u, tables[i])

\* Such a call keeps the tables consistent.
LEMMA ReshapedKeeps ==
    ASSUME TablesInv(tables), Reshaped
    PROVE  Kept
<1>1. PICK i \in DOMAIN tables : \E u :
        tables' = [tables EXCEPT ![i] = u] /\ TableInv(u) /\ Reshapes(u, tables[i])
  BY DEF Reshaped
<1>2. PICK u : tables' = [tables EXCEPT ![i] = u] /\ TableInv(u) /\ Reshapes(u, tables[i])
  BY <1>1
<1> QED
  BY <1>2, SetOne DEF Kept, Reshaped, Reshapes

\* mdbAddColumn changes one table, but not its rows.
LEMMA AddColumnStep ==
    ASSUME intact', TablesInv(tables), NEW n \in Names, NEW c \in ColNames,
           NEW flags \in SUBSET Flags, mdbAddColumn(n, c, flags)
    PROVE  Reshaped
<1>1. PICK i \in DOMAIN tables :
        /\ Locked(n, i) /\ lookupColumn(tables[i], c) = 0
        /\ Len(tables[i].cols) < MaxCols
        /\ Copes(IF tables[i].cols = <<>> THEN {"auto", "key"} \subseteq flags
                           ELSE flags = {} /\ tables[i].rows = <<>>)
        /\ SetTable(i, AddColumn(tables[i], c, flags))
        /\ UNCHANGED held
  BY DEF mdbAddColumn, AddColumn
<1> DEFINE t == tables[i]
           u == AddColumn(t, c, flags)
<1>2. tables' = [tables EXCEPT ![i] = u] /\ UNCHANGED <<held, file>>
  BY <1>1 DEF SetTable, Change, fileVars
<1>3. TableInv(t)
  BY <1>1, TableFound
<1>4. IF t.cols = <<>> THEN {"auto", "key"} \subseteq flags ELSE flags = {} /\ t.rows = <<>>
  BY <1>1 DEF Copes
<1>5. lookupColumn(t, c) = 0 /\ Len(t.cols) < MaxCols
  BY <1>1
<1>6. TableInv(u) /\ Reshapes(u, t)
  <2> HIDE DEF t
  <2> QED
    BY <1>3, <1>4, <1>5, AddColumnKeeps
<1> HIDE DEF u
<1> QED
  BY <1>2, <1>6 DEF Reshaped

\* mdbRemoveColumn does.
LEMMA RemoveColumnStep ==
    ASSUME intact', TablesInv(tables), NEW n \in Names, NEW c \in ColNames,
           mdbRemoveColumn(n, c)
    PROVE  Reshaped
<1>1. PICK i \in DOMAIN tables :
        LET t == tables[i]
            s == lookupColumn(t, c)
        IN  /\ Locked(n, i) /\ s # 0
            /\ Copes(s = Len(t.cols) /\ t.rows = <<>>)
            /\ SetTable(i, RemoveColumn(t, s))
            /\ UNCHANGED held
  BY DEF mdbRemoveColumn, RemoveColumn
<1> DEFINE t == tables[i]
           s == lookupColumn(t, c)
           u == RemoveColumn(t, s)
<1>2. tables' = [tables EXCEPT ![i] = u] /\ UNCHANGED <<held, file>>
  BY <1>1 DEF SetTable, Change, fileVars
<1>3. TableInv(t)
  BY <1>1, TableFound
<1>4. s \in DOMAIN t.cols
  BY <1>1, <1>3, ColumnFound
<1>5. s = Len(t.cols) /\ t.rows = <<>>
  BY <1>1 DEF Copes
<1>6. TableInv(u) /\ Reshapes(u, t)
  <2> HIDE DEF t, s
  <2> QED
    BY <1>3, <1>4, <1>5, RemoveColumnKeeps
<1> HIDE DEF u
<1> QED
  BY <1>2, <1>6 DEF Reshaped

\* mdbRenameTable does.
LEMMA RenameTableStep ==
    ASSUME intact', TablesInv(tables), NEW n \in Names, NEW m \in Names,
           mdbRenameTable(n, m)
    PROVE  Kept
<1>1. PICK i \in DOMAIN tables :
        /\ Locked(n, i)
        /\ Copes(lookupTable(m) = 0)
        /\ Change([tables EXCEPT ![i].name = m])
        /\ UNCHANGED held
  BY DEF mdbRenameTable
<1>2. tables' = [tables EXCEPT ![i] = [tables[i] EXCEPT !.name = m]] /\ UNCHANGED <<held, file>>
  BY <1>1 DEF Change, fileVars
<1>3. lookupTable(m) = 0
  BY <1>1 DEF Copes
<1>4. \A j \in DOMAIN tables : tables[j].name # m
  BY <1>3, TableFound
<1> QED
  BY <1>2, <1>4, NewNameKeeps DEF Kept

\* mdbRenameColumn does.
LEMMA RenameColumnStep ==
    ASSUME intact', TablesInv(tables), NEW n \in Names, NEW c \in ColNames,
           NEW d \in ColNames, mdbRenameColumn(n, c, d)
    PROVE  Reshaped
<1>1. PICK i \in DOMAIN tables :
        LET s == lookupColumn(tables[i], c)
        IN  /\ Locked(n, i) /\ s # 0
            /\ Copes(lookupColumn(tables[i], d) = 0)
            /\ Change([tables EXCEPT ![i].cols[s].name = d])
            /\ UNCHANGED held
  BY DEF mdbRenameColumn
<1> DEFINE t == tables[i]
           s == lookupColumn(t, c)
           u == Recolumn(t, s, [t.cols[s] EXCEPT !.name = d])
<1>2. tables' = [tables EXCEPT ![i] = u] /\ UNCHANGED <<held, file>>
  BY <1>1 DEF Change, fileVars, Recolumn
<1>3. TableInv(t)
  BY <1>1, TableFound
<1>4. s \in DOMAIN t.cols
  BY <1>1, <1>3, ColumnFound
<1>5. lookupColumn(t, d) = 0
  BY <1>1 DEF Copes
<1>6. TableInv(u) /\ Reshapes(u, t)
  <2> HIDE DEF t, s
  <2> QED
    BY <1>3, <1>4, <1>5, RenameColumnKeeps
<1> HIDE DEF u
<1> QED
  BY <1>2, <1>6 DEF Reshaped

\* mdbAddIndex does.
LEMMA AddIndexStep ==
    ASSUME intact', TablesInv(tables), NEW n \in Names, NEW c \in ColNames,
           mdbAddIndex(n, c)
    PROVE  Reshaped
<1>1. PICK i \in DOMAIN tables :
        LET s == lookupColumn(tables[i], c)
        IN  /\ Locked(n, i) /\ s # 0
            /\ Copes(s = 1 /\ tables[i].rows = <<>>)
            /\ SetTable(i, [tables[i] EXCEPT !.index = <<>>, !.indexCol = s,
                                             !.cols[s].flags = @ \cup {"index"}])
            /\ UNCHANGED held
  BY DEF mdbAddIndex
<1> DEFINE t == tables[i]
           s == lookupColumn(t, c)
           u == Reindex(t, <<>>, 1, t.cols[1].flags \cup {"index"})
<1>3. TableInv(t)
  BY <1>1, TableFound
<1>4. s \in DOMAIN t.cols
  BY <1>1, <1>3, ColumnFound
<1>5. s = 1 /\ t.rows = <<>>
  BY <1>1 DEF Copes
<1>2. tables' = [tables EXCEPT ![i] = u] /\ UNCHANGED <<held, file>>
  BY <1>1, <1>5 DEF SetTable, Change, fileVars, Reindex
<1>6. TableInv(u) /\ Reshapes(u, t)
  <2>1. 1 \in DOMAIN t.cols
    BY <1>4, <1>5
  <2> HIDE DEF t
  <2> QED
    BY <1>3, <1>5, <2>1, AddIndexKeeps
<1> HIDE DEF u
<1> QED
  BY <1>2, <1>6 DEF Reshaped

\* mdbRemoveIndex does, also when no column has the index.
LEMMA RemoveIndexStep ==
    ASSUME intact', TablesInv(tables), NEW n \in Names, mdbRemoveIndex(n)
    PROVE  Reshaped
<1>1. PICK i \in DOMAIN tables :
        LET t == tables[i]
        IN  /\ Locked(n, i)
            /\ IF t.indexCol \in DOMAIN t.cols
               THEN SetTable(i, [t EXCEPT !.index = None, !.indexCol = 0,
                                          !.cols[t.indexCol].flags = @ \ {"index"}])
               ELSE /\ tables' = [tables EXCEPT ![i].index = None]
                    /\ UNCHANGED <<phase, saving, fileVars>>
            /\ UNCHANGED held
  BY DEF mdbRemoveIndex
<1> DEFINE t == tables[i]
<1>2. TableInv(t)
  BY <1>1, TableFound
<1>3. CASE t.indexCol \in DOMAIN t.cols
  <2> DEFINE u == Reindex(t, None, 0, t.cols[1].flags \ {"index"})
  <2>1. t.indexCol = 1
    <3>1. t.indexCol \in {0, 1} /\ t.indexCol # 0
      BY <1>2, <1>3, LengthsOfTables DEF TableInv, Columns
    <3> QED
      BY <3>1
  <2>2. tables' = [tables EXCEPT ![i] = u] /\ UNCHANGED <<held, file>>
    BY <1>1, <1>3, <2>1 DEF SetTable, Change, fileVars, Reindex
  <2>3. TableInv(u) /\ Reshapes(u, t)
    <3> HIDE DEF t
    <3> QED
      BY <1>2, <1>3, RemoveIndexKeeps
  <2> HIDE DEF u
  <2> QED
    BY <2>2, <2>3 DEF Reshaped
<1>4. CASE t.indexCol \notin DOMAIN t.cols
  <2> DEFINE u == [t EXCEPT !.index = None]
  <2>1. tables' = [tables EXCEPT ![i] = u] /\ UNCHANGED <<held, file>>
    BY <1>1, <1>4 DEF fileVars
  <2>2. TableInv(u) /\ Reshapes(u, t)
    <3> HIDE DEF t
    <3> QED
      BY <1>2, NoIndexKeeps
  <2> HIDE DEF u
  <2> QED
    BY <2>1, <2>2 DEF Reshaped
<1> QED
  BY <1>3, <1>4

\* mdbAddValidation does.
LEMMA AddValidationStep ==
    ASSUME TablesInv(tables), NEW n \in Names, NEW c \in ColNames, mdbAddValidation(n, c)
    PROVE  Reshaped
<1>1. PICK i \in DOMAIN tables :
        LET s == lookupColumn(tables[i], c)
        IN  /\ Locked(n, i) /\ s \in UniqueCols
            /\ tables' = [tables EXCEPT ![i].cols[s].unique = TRUE]
            /\ UNCHANGED <<phase, held, saving, fileVars>>
  BY DEF mdbAddValidation
<1> DEFINE t == tables[i]
           s == lookupColumn(t, c)
           u == Recolumn(t, s, [t.cols[s] EXCEPT !.unique = TRUE])
<1>2. tables' = [tables EXCEPT ![i] = u] /\ UNCHANGED <<held, file>>
  BY <1>1 DEF fileVars, Recolumn
<1>3. TableInv(t)
  BY <1>1, TableFound
<1>4. s \in DOMAIN t.cols
  <2>1. s # 0
    BY <1>1, MdbAssumption
  <2> QED
    BY <1>3, <2>1, ColumnFound
<1>5. TableInv(u) /\ Reshapes(u, t)
  <2> HIDE DEF t, s
  <2> QED
    BY <1>3, <1>4, ValidationKeeps
<1> HIDE DEF u
<1> QED
  BY <1>2, <1>5 DEF Reshaped

\* Every operation on tables and columns keeps the tables consistent.
LEMMA SchemaKeeps ==
    ASSUME intact', TablesInv(tables), Schema
    PROVE  Kept
<1>1. ASSUME NEW n \in Names, mdbAddTable(n) PROVE Kept
  <2>1. \A j \in DOMAIN tables : tables[j].name # n
    BY <1>1, TableFound DEF mdbAddTable
  <2>2. tables' = Append(tables, NewTable(n)) /\ UNCHANGED <<held, file>>
    BY <1>1 DEF mdbAddTable, Change, fileVars
  <2> QED
    BY <2>1, <2>2, NewTableKeeps DEF Kept
<1>2. ASSUME NEW n \in Names, mdbRemoveTable(n) PROVE Kept
  <2>1. PICK i \in DOMAIN tables : tables' = RemoveAt(tables, i) /\ UNCHANGED <<held, file>>
    BY <1>2 DEF mdbRemoveTable, Change, fileVars
  <2> QED
    BY <2>1, RemoveTableKeeps DEF Kept
<1>3. ASSUME NEW n \in Names, NEW c \in ColNames, mdbChangeColumn(n, c) PROVE Kept
  BY <1>3 DEF mdbChangeColumn, Change, fileVars, Kept
<1>4. ASSUME NEW n \in Names, mdbRemoveIndex(n) PROVE Kept
  BY <1>4, RemoveIndexStep, ReshapedKeeps
<1>5. ASSUME NEW n \in Names, NEW m \in Names, mdbRenameTable(n, m) PROVE Kept
  BY <1>5, RenameTableStep
<1>6. ASSUME NEW n \in Names, NEW c \in ColNames, mdbRemoveColumn(n, c) PROVE Kept
  BY <1>6, RemoveColumnStep, ReshapedKeeps
<1>7. ASSUME NEW n \in Names, NEW c \in ColNames, mdbAddIndex(n, c) PROVE Kept
  BY <1>7, AddIndexStep, ReshapedKeeps
<1>8. ASSUME NEW n \in Names, NEW c \in ColNames, mdbAddValidation(n, c) PROVE Kept
  BY <1>8, AddValidationStep, ReshapedKeeps
<1>9. ASSUME NEW n \in Names, NEW c \in ColNames, NEW f \in SUBSET Flags, mdbAddColumn(n, c, f)
      PROVE  Kept
  BY <1>9, AddColumnStep, ReshapedKeeps
<1>10. ASSUME NEW n \in Names, NEW c \in ColNames, NEW d \in ColNames, mdbRenameColumn(n, c, d)
       PROVE  Kept
  BY <1>10, RenameColumnStep, ReshapedKeeps
<1> QED
  BY <1>1, <1>2, <1>3, <1>4, <1>5, <1>6, <1>7, <1>8, <1>9, <1>10 DEF Schema
-----------------------------------------------------------------------------
(* The calls on records and rows.                                            *)

\* The record of a row begins with its key (createRecFromRow).
LEMMA RecOfRow ==
    ASSUME NEW t, TableInv(t), NEW r \in DOMAIN t.rows, t.rows[r].nfields <= Len(t.cols)
    PROVE  RecInv(RecOf(t, r))
<1> DEFINE n == t.rows[r].nfields
           id == t.rows[r].fields[1]
           fields == [c \in 1..n |-> t.rows[r].fields[t.cols[c].cid]]
<1>1. /\ t \in TableType /\ t.name \in Names /\ t.rows[r] \in RowType
      /\ Len(t.cols) \in Nat /\ DOMAIN t.cols = 1..Len(t.cols)
  <2>1. t \in TableType /\ t.name \in Names
    BY DEF TableInv, TableType
  <2> QED
    BY <2>1, LengthsOfTables
<1>2. n \in Nat \ {0} /\ n <= Len(t.cols) /\ Len(t.cols) <= MaxCols /\ MaxCols \in Nat
  BY <1>1, MdbAssumption DEF RowType, TableInv, Columns, Schemed
<1>3. \A c \in 1..n : t.cols[c].cid = c /\ c \in 1..MaxCols
  BY <1>1, <1>2 DEF TableInv, Columns
<1>4. \A c \in 1..n : t.rows[r].fields[t.cols[c].cid] \in Fields
  BY <1>1, <1>3 DEF RowType
<1>5. id \in Ids
  <2>1. t.cols[1].last \in 0..MaxId
    BY <1>1, <1>2 DEF TableInv, Columns
  <2>2. id \in 1..t.cols[1].last
    BY DEF TableInv, Keyed, KeyOf
  <2> QED
    BY <2>1, <2>2, MdbAssumption DEF Ids
<1>6. RecOf(t, r) = [table |-> t.name, id |-> id, fields |-> fields]
  BY DEF RecOf
<1> HIDE DEF n
<1>7. fields \in Seq(Fields) /\ Len(fields) = n /\ fields[1] = id /\ fields # <<>>
  <2>1. fields \in Seq(Fields) /\ Len(fields) = n
    BY <1>2, <1>4
  <2>2. 1 \in 1..n
    BY <1>2
  <2>3. fields[1] = id
    BY <1>3, <2>2
  <2> HIDE DEF fields
  <2>4. fields # <<>>
    BY <1>2, <2>1
  <2> QED
    BY <2>1, <2>3, <2>4
<1> HIDE DEF fields, id
<1> DEFINE rec == RecOf(t, r)
<1>8. rec.table = t.name /\ rec.id = id /\ rec.fields = fields
  BY <1>6
<1>9. rec \in RecType
  BY <1>1, <1>5, <1>6, <1>7 DEF RecType
<1> HIDE DEF rec
<1>10. RecInv(rec)
  BY <1>7, <1>8, <1>9 DEF RecInv, RecType
<1> QED
  BY <1>10 DEF rec

\* A record that is read is such a record, or none.
LEMMA HoldKeeps ==
    ASSUME HeldInv, NEW t \in Requests, NEW tb, TableInv(tb), NEW r, Hold(t, tb, r)
    PROVE  HeldInv' /\ UNCHANGED <<tables, file>>
<1> DEFINE rec == IF r \in DOMAIN tb.rows THEN RecOf(tb, r) ELSE None
<1>1. held' = [held EXCEPT ![t] = rec] /\ UNCHANGED <<tables, file>>
  BY DEF Hold, fileVars
<1>2. rec = None \/ RecInv(rec)
  BY RecOfRow DEF Hold
<1> HIDE DEF rec
<1> QED
  BY <1>1, <1>2 DEF HeldInv

\* Row r of a table takes a record: its own, found by its key, or a new one.
Takes(u, t, r, rec) ==
    /\ u.name = t.name /\ Len(u.cols) = Len(t.cols)
    /\ r \in DOMAIN u.rows /\ DOMAIN t.rows \subseteq DOMAIN u.rows
    /\ \A q \in DOMAIN u.rows \ {r} : q \in DOMAIN t.rows /\ u.rows[q] = t.rows[q]
    /\ rec.id # Null => KeyOf(u, r) = rec.id
    /\ \A d \in 2..MaxCols :
          u.rows[r].fields[d] = IF d <= Len(rec.fields) THEN sclone(rec.fields[d])
                                ELSE IF r \in DOMAIN t.rows THEN t.rows[r].fields[d] ELSE Null
    /\ IF r \in DOMAIN t.rows THEN KeyOf(t, r) = rec.id
       ELSE \A q \in DOMAIN t.rows : KeyOf(t, q) # rec.id

\* The keys of rows are numbers within the bound, never null.
LEMMA KeysAreIds ==
    ASSUME NEW t, TableInv(t), NEW r \in DOMAIN t.rows
    PROVE  KeyOf(t, r) \in Ids /\ KeyOf(t, r) # Null /\ t.cols # <<>> /\ 1 \in DOMAIN t.cols
<1>1. t.cols # <<>> /\ 1 \in DOMAIN t.cols
  <2>1. t \in TableType /\ DOMAIN t.rows = 1..Len(t.rows)
    BY LengthsOfTables DEF TableInv
  <2>2. t.rows # <<>>
    BY <2>1
  <2>3. t.cols # <<>>
    BY <2>2 DEF TableInv, Columns
  <2> QED
    BY <2>1, <2>3 DEF TableType
<1>2. t.cols[1].last \in 0..MaxId
  BY <1>1 DEF TableInv, Columns
<1>3. KeyOf(t, r) \in Ids
  BY <1>2, MdbAssumption DEF TableInv, Keyed, Ids
<1> QED
  BY <1>1, <1>3, MdbAssumption

\* The row with the key of a record takes it.
LEMMA RowTakes ==
    ASSUME NEW t, TableInv(t), NEW rec, RecInv(rec), Len(rec.fields) <= Len(t.cols),
           NEW r \in DOMAIN t.rows, KeyOf(t, r) = rec.id,
           NEW u, u = UpdateFields(t, r, rec.fields)
    PROVE  TableInv(u) /\ Takes(u, t, r, rec)
<1> DEFINE fields == rec.fields
           n == Width(t, fields)
<1>1. fields \in Seq(Fields) /\ fields # <<>> /\ fields[1] = KeyOf(t, r)
  BY DEF RecInv, RecType
<1>2. t \in TableType /\ t.cols # <<>>
  BY KeysAreIds DEF TableInv
<1> HIDE DEF fields
<1>3. TableInv(u) /\ TailTaken(u, t, r, n, fields)
  <2>1. u = UpdateFields(t, r, fields)
    BY DEF fields
  <2> QED
    BY <1>1, <2>1, FieldsOfRow
<1>4. n \in Nat /\ \A d \in Nat : d <= n <=> d <= Len(fields) /\ d <= Len(t.cols)
  BY <1>1, <1>2, WidthIs
<1> HIDE DEF n
<1>5. Len(t.cols) \in Nat /\ Len(t.cols) <= MaxCols /\ MaxCols \in Nat
  BY <1>2, LengthsOfTables, MdbAssumption DEF TableInv, Columns, Schemed
<1>6. ASSUME NEW d \in 2..MaxCols
      PROVE  u.rows[r].fields[d] = IF d <= Len(fields) THEN sclone(fields[d]) ELSE t.rows[r].fields[d]
  <2>1. d \in 1..MaxCols /\ (d \in 2..n <=> d <= Len(fields))
    BY <1>1, <1>4, <1>5 DEF fields
  <2> QED
    BY <1>3, <2>1 DEF TailTaken
<1>7. DOMAIN u.rows = DOMAIN t.rows
  BY <1>2, <1>3, LengthsOfTables DEF TailTaken, TableInv
<1>8. KeyOf(u, r) = rec.id
  <2>1. 1 \in 1..MaxCols /\ ~(1 \in 2..n)
    BY MdbAssumption
  <2> QED
    BY <1>3, <2>1 DEF TailTaken, KeyOf
<1> QED
  BY <1>3, <1>6, <1>7, <1>8 DEF Takes, TailTaken, fields

\* A new row takes a record whose key no row has.
LEMMA NewRowTakes ==
    ASSUME NEW t, TableInv(t), NEW rec, RecInv(rec), Len(rec.fields) <= Len(t.cols),
           rec.id = Null => Room(t),
           rec.id # Null => \A q \in DOMAIN t.rows : KeyOf(t, q) # rec.id,
           NEW r, r = Len(t.rows) + 1,
           NEW u, u = UpdateFields(createRow(t), r, rec.fields)
    PROVE  TableInv(u) /\ Takes(u, t, r, rec)
<1> DEFINE fields == rec.fields
           n == Width(t, fields)
<1>1. fields \in Seq(Fields) /\ fields # <<>> /\ fields[1] = rec.id /\ rec.id \in Ids \cup {Null}
  BY DEF RecInv, RecType
<1> HIDE DEF fields
<1>2. t \in TableType /\ t.cols # <<>> /\ 1 \in DOMAIN t.cols
  <2>1. t \in TableType /\ Len(t.cols) \in Nat /\ DOMAIN t.cols = 1..Len(t.cols)
    BY LengthsOfTables DEF TableInv
  <2>2. Len(fields) \in Nat \ {0} /\ Len(fields) <= Len(t.cols)
    BY <1>1 DEF fields
  <2>3. 1 \in DOMAIN t.cols
    BY <2>1, <2>2
  <2> QED
    BY <2>1, <2>3
<1>3. Makes(t, fields)
  BY <1>1, <1>2 DEF Makes, Room
<1>4. /\ TableInv(u)
      /\ u.name = t.name /\ Len(u.cols) = Len(t.cols) /\ Len(u.rows) = r
      /\ \A q \in DOMAIN t.rows : u.rows[q] = t.rows[q]
      /\ fields[1] # Null => KeyOf(u, r) = fields[1]
      /\ \A d \in 2..MaxCols : u.rows[r].fields[d] = IF d <= n THEN sclone(fields[d]) ELSE Null
  <2>1. u = UpdateFields(createRow(t), r, fields)
    BY DEF fields
  <2> HIDE DEF n
  <2> QED
    BY <1>3, <2>1, FieldsOfNewRow DEF n
<1>5. n \in Nat /\ \A d \in Nat : d <= n <=> d <= Len(fields) /\ d <= Len(t.cols)
  BY <1>1, <1>2, WidthIs
<1> HIDE DEF n
<1>6. Len(t.cols) \in Nat /\ Len(t.cols) <= MaxCols /\ MaxCols \in Nat
  BY <1>2, LengthsOfTables, MdbAssumption DEF TableInv, Columns, Schemed
<1>7. ASSUME NEW d \in 2..MaxCols
      PROVE  u.rows[r].fields[d] = IF d <= Len(fields) THEN sclone(fields[d]) ELSE Null
  <2>1. d \in Nat /\ (d <= n <=> d <= Len(fields))
    BY <1>1, <1>5, <1>6 DEF fields
  <2> QED
    BY <1>4, <2>1
<1>8. DOMAIN t.rows = 1..(r - 1) /\ DOMAIN u.rows = 1..r /\ r \in Nat \ {0}
  BY <1>2, <1>4, LengthsOfTables DEF TableInv
<1>9. r \notin DOMAIN t.rows /\ r \in DOMAIN u.rows /\ \A q \in DOMAIN u.rows \ {r} : q \in DOMAIN t.rows
  BY <1>8
<1>10. \A q \in DOMAIN t.rows : KeyOf(t, q) # rec.id
  BY KeysAreIds
<1>11. rec.id # Null => KeyOf(u, r) = rec.id
  BY <1>1, <1>4
<1>12. DOMAIN t.rows \subseteq DOMAIN u.rows
  BY <1>8
<1> QED
  BY <1>4, <1>7, <1>9, <1>10, <1>11, <1>12 DEF Takes, fields

\* mdbUpdateRec gives a record to one row of one table.
LEMMA UpdateRecTakes ==
    ASSUME TablesInv(tables), HeldInv, NEW t \in Requests, mdbUpdateRec(t)
    PROVE  /\ UNCHANGED <<held, file>>
           /\ \E i \in DOMAIN tables : \E r \in Nat : \E u :
                 /\ phase = "up" /\ tables[i].name = held[t].table
                 /\ tables' = [tables EXCEPT ![i] = u] /\ TableInv(u)
                 /\ RecInv(held[t]) /\ Len(held[t].fields) <= Len(tables[i].cols)
                 /\ mdbValidateRec(tables[i], held[t])
                 /\ Takes(u, tables[i], r, held[t])
<1> DEFINE rec == held[t]
<1>1. RecInv(rec)
  BY DEF HeldInv, mdbUpdateRec
<1>2. PICK i \in DOMAIN tables :
        LET tb == tables[i]
            r  == IF rec.id = Null THEN 0 ELSE lookupRow(tb, rec.id)
        IN  /\ Locked(rec.table, i)
            /\ Len(rec.fields) <= Len(tb.cols)
            /\ mdbValidateRec(tb, rec)
            /\ rec.id = Null => Room(tb)
            /\ IF r = 0
               THEN Len(tb.rows) < MaxRows /\ SetTable(i, UpdateFields(createRow(tb), Len(tb.rows) + 1, rec.fields))
               ELSE r \in DOMAIN tb.rows /\ SetTable(i, UpdateFields(tb, r, rec.fields))
  BY DEF mdbUpdateRec
<1> DEFINE tb == tables[i]
           s == IF rec.id = Null THEN 0 ELSE lookupRow(tb, rec.id)
<1>3. TableInv(tb)
  BY DEF TablesInv
<1>4. UNCHANGED <<held, file>>
  BY <1>2 DEF mdbUpdateRec, SetTable, Change, fileVars
<1>5. rec.id # Null => \/ s = 0 /\ \A q \in DOMAIN tb.rows : KeyOf(tb, q) # rec.id
                       \/ s \in DOMAIN tb.rows /\ KeyOf(tb, s) = rec.id
  <2> SUFFICES ASSUME rec.id # Null
               PROVE  \/ s = 0 /\ \A q \in DOMAIN tb.rows : KeyOf(tb, q) # rec.id
                      \/ s \in DOMAIN tb.rows /\ KeyOf(tb, s) = rec.id
    OBVIOUS
  <2>1. rec.id \in Ids
    BY <1>1 DEF RecInv, RecType
  <2> HIDE DEF tb, rec
  <2> QED
    BY <1>3, <2>1, LookupFinds
<1>6. /\ Len(rec.fields) <= Len(tb.cols) /\ mdbValidateRec(tb, rec) /\ (rec.id = Null => Room(tb))
      /\ phase = "up" /\ tb.name = rec.table
  BY <1>2, TableFound DEF Locked
<1>7. tb \in TableType /\ DOMAIN tb.rows = 1..Len(tb.rows) /\ Len(tb.rows) \in Nat
  BY <1>3, LengthsOfTables DEF TableInv
<1>8. CASE s = 0
  <2> DEFINE r == Len(tb.rows) + 1
             u == UpdateFields(createRow(tb), r, rec.fields)
  <2>1. tables' = [tables EXCEPT ![i] = u]
    BY <1>2, <1>8 DEF SetTable, Change
  <2>2. rec.id # Null => \A q \in DOMAIN tb.rows : KeyOf(tb, q) # rec.id
    BY <1>5, <1>7, <1>8
  <2>3. r \in Nat
    BY <1>7
  <2> HIDE DEF tb, rec
  <2>4. TableInv(u) /\ Takes(u, tb, r, rec)
    BY <1>1, <1>3, <1>6, <2>2, NewRowTakes
  <2> HIDE DEF u, r
  <2> QED
    BY <1>1, <1>4, <1>6, <2>1, <2>3, <2>4 DEF tb, rec
<1>9. CASE s # 0
  <2> DEFINE u == UpdateFields(tb, s, rec.fields)
  <2>1. tables' = [tables EXCEPT ![i] = u]
    BY <1>2, <1>9 DEF SetTable, Change
  <2>2. s \in DOMAIN tb.rows /\ KeyOf(tb, s) = rec.id /\ s \in Nat
    BY <1>5, <1>7, <1>9
  <2> HIDE DEF tb, rec, s
  <2>3. TableInv(u) /\ Takes(u, tb, s, rec)
    BY <1>1, <1>3, <1>6, <2>2, RowTakes
  <2> HIDE DEF u
  <2> QED
    BY <1>1, <1>4, <1>6, <2>1, <2>2, <2>3 DEF tb, rec
<1> QED
  BY <1>8, <1>9

\* mdbUpdateField keeps the tables consistent.
LEMMA UpdateFieldStep ==
    ASSUME intact', TablesInv(tables), NEW n \in Names, NEW k \in Ids, NEW c \in ColNames,
           NEW v \in Values, mdbUpdateField(n, k, c, v)
    PROVE  Kept
<1>1. PICK i \in DOMAIN tables :
        LET tb == tables[i]
            s  == lookupColumn(tb, c)
            r  == lookupRow(tb, k)
        IN  /\ Locked(n, i) /\ s # 0
            /\ Copes(r # 0 /\ s # 1)
            /\ r = 0 => Len(tb.rows) < MaxRows
            /\ tables' = [tables EXCEPT ![i] = IF r = 0 THEN createRow(tb)
                                               ELSE IF r \in DOMAIN tb.rows THEN updateFieldValue(tb, r, s, v)
                                               ELSE tb]
            /\ UNCHANGED <<phase, held, saving, fileVars>>
  BY DEF mdbUpdateField
<1> DEFINE tb == tables[i]
           s == lookupColumn(tb, c)
           r == lookupRow(tb, k)
           u == updateFieldValue(tb, r, s, v)
<1>2. TableInv(tb)
  BY DEF TablesInv
<1>3. s \in DOMAIN tb.cols
  BY <1>1, <1>2, ColumnFound
<1>4. r # 0 /\ s # 1
  BY <1>1 DEF Copes
<1>5. r \in DOMAIN tb.rows
  <2> HIDE DEF tb
  <2> QED
    BY <1>2, <1>4, LookupFinds
<1>6. tables' = [tables EXCEPT ![i] = u] /\ UNCHANGED <<held, file>>
  BY <1>1, <1>4, <1>5 DEF fileVars
<1>7. TableInv(u) /\ u.name = tb.name
  <2>1. v \in Fields
    BY DEF Fields
  <2> HIDE DEF tb, r, s
  <2>2. TableInv(u) /\ OneField(u, tb, r, s, sclone(v))
    BY <1>2, <1>3, <1>4, <1>5, <2>1, PlainStep
  <2> QED
    BY <2>2 DEF OneField
<1> HIDE DEF u
<1> QED
  BY <1>6, <1>7, SetOne DEF Kept

\* mdbDeleteRow does.
LEMMA DeleteRowStep ==
    ASSUME intact', TablesInv(tables), NEW n \in Names, NEW k \in Ids, mdbDeleteRow(n, k)
    PROVE  Kept
<1>1. PICK i \in DOMAIN tables :
        LET tb == tables[i]
            r  == lookupRow(tb, k)
        IN  /\ Locked(n, i) /\ r # 0
            /\ Copes(tb.index = None \/ r = Len(tb.rows))
            /\ SetTable(i, DeleteRow(tb, r, k))
            /\ UNCHANGED held
  BY DEF mdbDeleteRow, DeleteRow
<1> DEFINE tb == tables[i]
           r == lookupRow(tb, k)
           u == DeleteRow(tb, r, k)
<1>2. TableInv(tb)
  BY DEF TablesInv
<1>3. tables' = [tables EXCEPT ![i] = u] /\ UNCHANGED <<held, file>>
  BY <1>1 DEF SetTable, Change, fileVars
<1>4. r # 0 /\ (tb.index = None \/ r = Len(tb.rows))
  BY <1>1 DEF Copes
<1>5. TableInv(u) /\ u.name = tb.name
  <2> HIDE DEF tb
  <2>1. r \in DOMAIN tb.rows /\ KeyOf(tb, r) = k
    BY <1>2, <1>4, LookupFinds
  <2> HIDE DEF r
  <2> QED
    BY <1>2, <1>4, <2>1, DeleteRowKeeps
<1> HIDE DEF u
<1> QED
  BY <1>3, <1>5, SetOne DEF Kept

\* mdbCreateRec makes a record without a key.
LEMMA CreateRecStep ==
    ASSUME TablesInv(tables), HeldInv, NEW t \in Requests, NEW n \in Names, mdbCreateRec(t, n)
    PROVE  HeldInv' /\ UNCHANGED <<tables, file>>
<1> DEFINE i == lookupTable(n)
           fields == [c \in DOMAIN tables[i].cols |-> Null]
           rec == [table |-> n, id |-> Null, fields |-> fields]
<1>1. i # 0 /\ tables[i].cols # <<>> /\ held' = [held EXCEPT ![t] = rec] /\ UNCHANGED <<tables, file>>
  BY DEF mdbCreateRec, fileVars
<1>2. i \in DOMAIN tables
  BY <1>1, TableFound
<1>3. tables[i].cols \in Seq(ColType)
  BY <1>2 DEF TablesInv, TableInv, TableType
<1>4. fields \in Seq(Fields) /\ fields # <<>> /\ fields[1] = Null
  <2> DEFINE m == Len(tables[i].cols)
  <2>1. m \in Nat \ {0} /\ DOMAIN tables[i].cols = 1..m
    BY <1>1, <1>3
  <2>2. Null \in Fields
    BY DEF Fields
  <2> HIDE DEF m
  <2>3. fields = [c \in 1..m |-> Null]
    BY <2>1
  <2>4. fields \in Seq(Fields) /\ Len(fields) = m /\ fields[1] = Null
    BY <2>1, <2>2, <2>3
  <2> HIDE DEF fields
  <2>5. fields # <<>>
    BY <2>1, <2>4
  <2> QED
    BY <2>4, <2>5
<1> HIDE DEF fields
<1>5. RecInv(rec)
  BY <1>4 DEF RecInv, RecType
<1> HIDE DEF rec
<1> QED
  BY <1>1, <1>5 DEF HeldInv

\* ediSetField leaves the key of a record.
LEMMA SetFieldStep ==
    ASSUME intact', HeldInv, NEW t \in Requests, NEW c \in 1..MaxCols, NEW v \in Values,
           ediSetField(t, c, v)
    PROVE  HeldInv' /\ UNCHANGED <<tables, file>>
<1> DEFINE rec == held[t]
           fields == [rec.fields EXCEPT ![c] = v]
           new == [rec EXCEPT !.fields = fields]
<1>1. RecInv(rec) /\ c \in DOMAIN rec.fields /\ UNCHANGED <<tables, file>>
  BY DEF ediSetField, HeldInv, fileVars
<1>2. c # 1
  BY DEF ediSetField, Copes
<1>3. held' = [held EXCEPT ![t] = new]
  BY DEF ediSetField
<1> HIDE DEF rec
<1>4. rec \in RecType /\ rec.fields # <<>> /\ rec.fields[1] = rec.id
  BY <1>1 DEF RecInv, RecType
<1>5. v \in Fields
  BY DEF Fields
<1>6. fields \in Seq(Fields) /\ Len(fields) = Len(rec.fields) /\ fields[1] = rec.fields[1]
  BY <1>1, <1>2, <1>4, <1>5, ExceptSeq DEF RecType
<1>7. fields # <<>>
  BY <1>4, <1>6
<1> HIDE DEF fields
<1>8. new.table = rec.table /\ new.id = rec.id /\ new.fields = fields
      /\ new \in RecType
  BY <1>4, <1>6 DEF RecType
<1> HIDE DEF new
<1>9. RecInv(new)
  BY <1>4, <1>6, <1>7, <1>8 DEF RecInv, RecType
<1> QED
  BY <1>1, <1>3, <1>9 DEF HeldInv

\* Every operation on records and rows keeps the tables and the records.
LEMMA RowsKeep ==
    ASSUME intact', TablesInv(tables), HeldInv, Rows
    PROVE  TablesInv(tables') /\ HeldInv' /\ UNCHANGED file
<1> DEFINE Goal == TablesInv(tables') /\ HeldInv' /\ UNCHANGED file
<1>1. ASSUME Kept PROVE Goal
  BY <1>1 DEF Kept, HeldInv
<1>2. ASSUME HeldInv', UNCHANGED <<tables, file>> PROVE Goal
  BY <1>2
<1> HIDE DEF Goal
<1>3. ASSUME NEW t \in Requests, NEW n \in Names, mdbCreateRec(t, n) PROVE Goal
  BY <1>2, <1>3, CreateRecStep
<1>4. ASSUME NEW t \in Requests, NEW n \in Names, NEW k \in Ids, mdbReadRec(t, n, k) PROVE Goal
  <2>1. PICK i \in DOMAIN tables : Hold(t, tables[i], lookupRow(tables[i], k))
    BY <1>4 DEF mdbReadRec
  <2>2. TableInv(tables[i])
    BY DEF TablesInv
  <2> QED
    BY <1>2, <2>1, <2>2, HoldKeeps
<1>5. ASSUME NEW t \in Requests, NEW n \in Names, NEW c \in ColNames, NEW v \in Values,
             ediReadOneWhere(t, n, c, v)
      PROVE  Goal
  <2>1. PICK i \in DOMAIN tables :
          Hold(t, tables[i], FirstIn(matchRow(tables[i], lookupColumn(tables[i], c), v)))
    BY <1>5 DEF ediReadOneWhere
  <2>2. TableInv(tables[i])
    BY DEF TablesInv
  <2> QED
    BY <1>2, <2>1, <2>2, HoldKeeps
<1>6. ASSUME NEW t \in Requests, NEW c \in 1..MaxCols, NEW v \in Values, ediSetField(t, c, v)
      PROVE  Goal
  BY <1>2, <1>6, SetFieldStep
<1>7. ASSUME NEW t \in Requests, mdbUpdateRec(t) PROVE Goal
  <2>1. UNCHANGED <<held, file>>
    BY <1>7, UpdateRecTakes
  <2>2. PICK i \in DOMAIN tables :
          \E u : tables' = [tables EXCEPT ![i] = u] /\ TableInv(u) /\ u.name = tables[i].name
    BY <1>7, UpdateRecTakes DEF Takes
  <2>3. PICK u : tables' = [tables EXCEPT ![i] = u] /\ TableInv(u) /\ u.name = tables[i].name
    BY <2>2
  <2>4. TablesInv(tables')
    BY <2>3, SetOne
  <2> QED
    BY <1>1, <2>1, <2>4 DEF Kept
<1>8. ASSUME NEW n \in Names, NEW k \in Ids, mdbDeleteRow(n, k) PROVE Goal
  BY <1>1, <1>8, DeleteRowStep
<1>9. ASSUME NEW n \in Names, NEW k \in Ids, NEW c \in ColNames, NEW v \in Values,
             mdbUpdateField(n, k, c, v)
      PROVE  Goal
  BY <1>1, <1>9, UpdateFieldStep
<1> QED
  BY <1>3, <1>4, <1>5, <1>6, <1>7, <1>8, <1>9 DEF Rows, Goal
-----------------------------------------------------------------------------
(* Saves, and the start and the end of the process.                          *)

\* A file is what is left of some consistent tables, or nothing.
ImageOrNone(x) ==
    \/ x \in {None, Torn}
    \/ x \in Seq(ImageType) /\ \A i \in DOMAIN x : ImageInv(x[i])

\* A file may become such a file.
LEMMA FilesKeep ==
    ASSUME ImagesInv, NEW f \in Files, NEW x, ImageOrNone(x), file' = [file EXCEPT ![f] = x]
    PROVE  ImagesInv'
  BY DEF ImagesInv, ImageOrNone

\* A file may be renamed to another one, and be gone.
LEMMA FilesSwap ==
    ASSUME ImagesInv, NEW f \in Files, NEW g \in Files, NEW h \in Files,
           file' = [file EXCEPT ![f] = file[h], ![g] = None]
    PROVE  ImagesInv'
  BY DEF ImagesInv

\* To write the tables changes none of them, as no key is null.
LEMMA WriteKeeps ==
    ASSUME TablesInv(tables), SaveWrite
    PROVE  tables' = tables
<1>1. tables' = [i \in DOMAIN tables |-> Renumber(tables[i])]
  BY DEF SaveWrite
<1>2. \A i \in DOMAIN tables : Renumber(tables[i]) = tables[i]
  BY RenumberKeeps DEF TablesInv
<1>3. tables' = [i \in DOMAIN tables |-> tables[i]]
  BY <1>1, <1>2
<1>4. tables \in Seq(TableType)
  BY DEF TablesInv
<1> QED
  BY <1>3, <1>4

\* A step of a save, or its failure, changes no table and leaves such files.
LEMMA SavesKeep ==
    ASSUME DbInv, Saving
    PROVE  DbInv'
<1> USE DEF Step, Works
<1>0. TablesInv(tables) /\ HeldInv /\ ImagesInv
  BY DEF DbInv
<1>1. ASSUME UNCHANGED <<tables, held>>, ImagesInv' PROVE DbInv'
  BY <1>0, <1>1 DEF DbInv, HeldInv
<1>2. CASE SaveOpen
  <2>1. file' = [file EXCEPT !["new"] = Torn] /\ UNCHANGED <<tables, held>>
    BY <1>2 DEF SaveOpen
  <2>3. ImageOrNone(Torn)
    BY DEF ImageOrNone
  <2>2. ImagesInv'
    BY <1>0, <2>1, <2>3, FilesKeep DEF Files
  <2> QED
    BY <1>1, <2>1, <2>2
<1>3. CASE SaveWrite
  <2>1. /\ file' = [file EXCEPT !["new"] = Image(tables)] /\ UNCHANGED held
        /\ tables' = [i \in DOMAIN tables |-> Renumber(tables[i])]
    BY <1>3 DEF SaveWrite
  <2>3. tables' = tables
    BY <1>0, <1>3, WriteKeeps
  <2>4. ImageOrNone(Image(tables))
    BY <1>0, ImageKeeps DEF ImageOrNone
  <2>5. ImagesInv'
    BY <1>0, <2>1, <2>4, FilesKeep DEF Files
  <2> QED
    BY <1>1, <2>1, <2>3, <2>5
<1>4. CASE SaveDrop
  <2>1. file' = [file EXCEPT !["bak"] = None] /\ UNCHANGED <<tables, held>>
    BY <1>4 DEF SaveDrop
  <2>3. ImageOrNone(None)
    BY DEF ImageOrNone
  <2>2. ImagesInv'
    BY <1>0, <2>1, <2>3, FilesKeep DEF Files
  <2> QED
    BY <1>1, <2>1, <2>2
<1>5. CASE SaveMove
  <2>1. UNCHANGED <<tables, held>>
    BY <1>5 DEF SaveMove
  <2>2. CASE file["path"] = None
    <3>1. file' = file
      BY <1>5, <2>2 DEF SaveMove
    <3>2. ImagesInv'
      BY <1>0, <3>1 DEF ImagesInv
    <3> QED
      BY <1>1, <2>1, <3>2
  <2>3. CASE file["path"] # None
    <3>1. file' = [file EXCEPT !["bak"] = file["path"], !["path"] = None]
      BY <1>5, <2>3 DEF SaveMove
    <3>2. ImagesInv'
      BY <1>0, <3>1, FilesSwap DEF Files
    <3> QED
      BY <1>1, <2>1, <3>2
  <2> QED
    BY <2>2, <2>3
<1>6. CASE SavePublish
  <2>1. file' = [file EXCEPT !["path"] = file["new"], !["new"] = None] /\ UNCHANGED <<tables, held>>
    BY <1>6 DEF SavePublish
  <2>2. ImagesInv'
    BY <1>0, <2>1, FilesSwap DEF Files
  <2> QED
    BY <1>1, <2>1, <2>2
<1>7. ASSUME NEW step \in {"open", "move", "publish"}, SaveFails(step) PROVE DbInv'
  <2>1. UNCHANGED <<tables, held>>
    BY <1>7 DEF SaveFails
  <2>2. \/ file' = [file EXCEPT !["path"] = file["bak"], !["bak"] = None]
        \/ file' = file
    BY <1>7 DEF SaveFails
  <2>3. ImagesInv'
    <3>1. CASE file' = file
      BY <1>0, <3>1 DEF ImagesInv
    <3>2. CASE file' = [file EXCEPT !["path"] = file["bak"], !["bak"] = None]
      BY <1>0, <3>2, FilesSwap DEF Files
    <3> QED
      BY <2>2, <3>1, <3>2
  <2> QED
    BY <1>1, <2>1, <2>3
<1> QED
  BY <1>2, <1>3, <1>4, <1>5, <1>6, <1>7 DEF Saving

\* A database without tables is consistent.
LEMMA NoTables == TablesInv(<<>>)
<1>1. <<>> \in Seq(TableType)
  OBVIOUS
<1> QED
  BY <1>1 DEF TablesInv

\* Every step keeps the invariant, if callers follow all rules.
LEMMA NextKeepsDb ==
    ASSUME intact', DbInv, [Next]_vars
    PROVE  DbInv'
<1>0. TablesInv(tables) /\ HeldInv /\ ImagesInv
  BY DEF DbInv
<1>1. ASSUME TablesInv(tables'), HeldInv', UNCHANGED file PROVE DbInv'
  BY <1>0, <1>1 DEF DbInv, ImagesInv
<1>2. CASE Schema
  <2>1. TablesInv(tables') /\ UNCHANGED <<held, file>>
    BY <1>0, <1>2, SchemaKeeps DEF Kept
  <2>2. HeldInv'
    BY <1>0, <2>1 DEF HeldInv
  <2> QED
    BY <1>1, <2>1, <2>2
<1>3. CASE Rows
  BY <1>0, <1>1, <1>3, RowsKeep
<1>4. CASE Saving
  BY <1>4, SavesKeep
<1>5. CASE mdbOpen
  <2>1. UNCHANGED <<tables, held, file>>
    BY <1>5 DEF mdbOpen, fileVars
  <2>2. TablesInv(tables') /\ HeldInv'
    BY <1>0, <2>1 DEF HeldInv
  <2> QED
    BY <1>1, <2>1, <2>2
<1>6. CASE mdbLoad
  <2>1. UNCHANGED <<held, file>>
    BY <1>6 DEF mdbLoad, fileVars
  <2>2. HeldInv'
    BY <1>0, <2>1 DEF HeldInv
  <2>3. CASE file["path"] \notin {None, Torn} /\ Loadable(file["path"])
    <3>1. tables' = Load(file["path"])
      BY <1>6, <2>3 DEF mdbLoad
    <3>2. file["path"] \in Seq(ImageType) /\ \A i \in DOMAIN file["path"] : ImageInv(file["path"][i])
      BY <1>0, <2>3 DEF ImagesInv, Files
    <3> DEFINE image == file["path"]
    <3> HIDE DEF image
    <3>3. TablesInv(Load(image))
      BY <2>3, <3>2, LoadKeeps DEF image
    <3> QED
      BY <1>1, <2>1, <2>2, <3>1, <3>3 DEF image
  <2>4. CASE ~(file["path"] \notin {None, Torn} /\ Loadable(file["path"]))
    <3>1. tables' = <<>>
      BY <1>6, <2>4 DEF mdbLoad
    <3> QED
      BY <1>1, <2>1, <2>2, <3>1, NoTables
  <2> QED
    BY <2>3, <2>4
<1>7. CASE Crash
  <2>1. tables' = <<>> /\ held' = [t \in Requests |-> None] /\ UNCHANGED file
    BY <1>7 DEF Crash, fileVars
  <2>2. HeldInv'
    BY <2>1 DEF HeldInv
  <2> QED
    BY <1>1, <2>1, <2>2, NoTables
<1>8. CASE UNCHANGED vars
  <2>1. UNCHANGED <<tables, held, file>>
    BY <1>8 DEF vars
  <2>2. TablesInv(tables') /\ HeldInv'
    BY <1>0, <2>1 DEF HeldInv
  <2> QED
    BY <1>1, <2>1, <2>2
<1> QED
  BY <1>2, <1>3, <1>4, <1>5, <1>6, <1>7, <1>8 DEF Next

\* The invariant holds when no process has run.
LEMMA InitDb == Init => DbInv
<1> SUFFICES ASSUME Init PROVE DbInv
  OBVIOUS
<1>1. TablesInv(tables)
  BY NoTables DEF Init
<1>2. HeldInv /\ ImagesInv
  BY DEF Init, HeldInv, ImagesInv, Files
<1> QED
  BY <1>1, <1>2 DEF DbInv

\* The tables are consistent until a call does what the code does not cope with.
LEMMA IntactDb == Spec => [](intact => DbInv)
<1>1. Init => (intact => DbInv)
  BY InitDb
<1>2. (intact => DbInv) /\ [Next]_vars => (intact => DbInv)'
  <2> SUFFICES ASSUME intact => DbInv, [Next]_vars, intact' PROVE DbInv'
    OBVIOUS
  <2>1. intact
    BY WasIntact
  <2> QED
    BY <2>1, NextKeepsDb
<1> QED
  BY <1>1, <1>2, PTL DEF Spec

\* The invariant is more than Consistent.
LEMMA DbInvConsistent ==
    ASSUME DbInv
    PROVE  Consistent
<1>1. ASSUME NEW i \in DOMAIN tables
      PROVE  LET t == tables[i]
             IN  /\ \A j \in DOMAIN tables : tables[j].name = t.name => j = i
                 /\ \A c, d \in DOMAIN t.cols : t.cols[c].name = t.cols[d].name => c = d
                 /\ \A r, q \in DOMAIN t.rows : t.rows[r].fields[1] = t.rows[q].fields[1] => r = q
                 /\ \A r \in DOMAIN t.rows : t.rows[r].fields[1] \in 1..t.cols[1].last
                 /\ t.index # None =>
                       /\ \A r \in DOMAIN t.rows : t.rows[r].fields[1] \in DOMAIN t.index
                       /\ \A k \in DOMAIN t.index : t.index[k] \in DOMAIN t.rows
                                                    /\ t.rows[t.index[k]].fields[1] = k
  <2> DEFINE t == tables[i]
  <2>1. TableInv(t) /\ \A j \in DOMAIN tables : tables[j].name = t.name => j = i
    BY DEF DbInv, TablesInv
  <2> HIDE DEF t
  <2>2. \A c, d \in DOMAIN t.cols : t.cols[c].name = t.cols[d].name => c = d
    BY <2>1 DEF TableInv, Columns
  <2>3. /\ \A r, q \in DOMAIN t.rows : t.rows[r].fields[1] = t.rows[q].fields[1] => r = q
        /\ \A r \in DOMAIN t.rows : t.rows[r].fields[1] \in 1..t.cols[1].last
    BY <2>1 DEF TableInv, Keyed, KeyOf
  <2>4. t.index # None =>
           /\ \A r \in DOMAIN t.rows : t.rows[r].fields[1] \in DOMAIN t.index
           /\ \A k \in DOMAIN t.index : t.index[k] \in DOMAIN t.rows
                                        /\ t.rows[t.index[k]].fields[1] = k
    BY <2>1 DEF TableInv, Indexed, KeyOf
  <2> QED
    BY <2>1, <2>2, <2>3, <2>4 DEF t
<1> QED
  BY <1>1 DEF Consistent

\* What the lookups of mdb.c rest on, whatever is saved, lost and loaded between
\* two calls, for every number of tables, columns and rows: names and keys are
\* distinct, the numbers of an automatic column are ahead of its keys (updateFieldValue),
\* and the index points to the rows that have the keys (mdbDeleteRow).
THEOREM TablesAreConsistent == Spec => []Consistent
<1>1. (intact => DbInv) => Consistent
  <2>1. CASE intact
    BY <2>1, DbInvConsistent
  <2> QED
    BY <2>1 DEF Consistent
<1> QED
  BY <1>1, IntactDb, PTL
-----------------------------------------------------------------------------
(* What a step does to unique columns, and what a record is read from.       *)

\* A finite set with at most one member.
LEMMA AtMostOne ==
    ASSUME NEW S, IsFiniteSet(S)
    PROVE  ~(Cardinality(S) > 1) <=> \A x, y \in S : x = y
<1>1. Cardinality(S) \in Nat
  BY FS_CardinalityType
<1>2. ASSUME NEW x \in S, NEW y \in S, x # y PROVE Cardinality(S) > 1
  <2>1. IsFiniteSet({x}) /\ Cardinality({x}) = 1
    BY FS_Singleton
  <2>2. Cardinality({x} \cup {y}) = 2
    BY <1>2, <2>1, FS_AddElement
  <2>3. {x} \cup {y} \in SUBSET S
    OBVIOUS
  <2>4. Cardinality({x} \cup {y}) <= Cardinality(S)
    BY <2>3, FS_Subset
  <2> QED
    BY <1>1, <2>2, <2>4
<1>3. ASSUME \A x, y \in S : x = y PROVE ~(Cardinality(S) > 1)
  <2>1. CASE S = {}
    BY <2>1, FS_EmptySet
  <2>2. CASE S # {}
    <3>1. PICK x \in S : S = {x}
      BY <1>3, <2>2
    <3>2. Cardinality(S) = 1
      BY <3>1, FS_Singleton
    <3> QED
      BY <3>2
  <2> QED
    BY <2>1, <2>2
<1> QED
  BY <1>2, <1>3

\* The rows with a value are some of the rows.
LEMMA RowsWithValue ==
    ASSUME NEW t, TableInv(t), NEW c \in DOMAIN t.cols, NEW v \in Values
    PROVE  /\ matchRow(t, c, v) = {r \in DOMAIN t.rows : t.rows[r].fields[c] = v}
           /\ matchRow(t, c, v) \in SUBSET Nat
           /\ Cardinality(matchRow(t, c, v)) > 1 <=> \E r, q \in matchRow(t, c, v) : r # q
<1>1. t \in TableType /\ Len(t.rows) \in Nat /\ DOMAIN t.rows = 1..Len(t.rows)
  BY LengthsOfTables DEF TableInv
<1>2. t.cols[c].cid = c
  BY DEF TableInv, Columns
<1>3. matchRow(t, c, v) = {r \in DOMAIN t.rows : t.rows[r].fields[c] = v}
  BY <1>2, MdbAssumption DEF matchRow
<1>4. IsFiniteSet(1..Len(t.rows)) /\ matchRow(t, c, v) \in SUBSET (1..Len(t.rows))
  BY <1>1, <1>3, FS_Interval
<1>5. IsFiniteSet(matchRow(t, c, v))
  BY <1>4, FS_Subset
<1> DEFINE S == matchRow(t, c, v)
<1>6. (Cardinality(S) > 1) <=> \E r, q \in S : r # q
  <2> HIDE DEF S
  <2>1. IsFiniteSet(S)
    BY <1>5 DEF S
  <2> QED
    BY <2>1, AtMostOne
<1> QED
  BY <1>3, <1>4, <1>6

\* A value that two rows have after a record was taken was had by two rows before.
LEMMA TakenIsUnique ==
    ASSUME NEW t, TableInv(t), NEW u, TableInv(u), NEW rec, RecInv(rec),
           Len(rec.fields) <= Len(t.cols), mdbValidateRec(t, rec),
           NEW r, Takes(u, t, r, rec),
           NEW c \in DOMAIN t.cols, t.cols[c].unique, NEW v \in Values,
           \A p, q \in matchRow(t, c, v) : p = q
    PROVE  \A p, q \in matchRow(u, c, v) : p = q
<1> DEFINE M == matchRow(t, c, v)
           N == matchRow(u, c, v)
<1>1. /\ t \in TableType /\ Len(t.cols) \in Nat /\ DOMAIN t.cols = 1..Len(t.cols)
      /\ u \in TableType /\ DOMAIN u.cols = 1..Len(u.cols) /\ Len(u.cols) = Len(t.cols)
  BY LengthsOfTables DEF TableInv, Takes
<1>2. c \in DOMAIN u.cols
  BY <1>1
<1>3. M = {q \in DOMAIN t.rows : t.rows[q].fields[c] = v} /\ M \in SUBSET Nat
  BY RowsWithValue
<1>4. N = {q \in DOMAIN u.rows : u.rows[q].fields[c] = v}
  BY <1>2, RowsWithValue
<1>5. \A p, q \in M : p = q
  OBVIOUS
<1>6. rec.fields \in Seq(Fields) /\ Len(rec.fields) \in Nat /\ DOMAIN rec.fields = 1..Len(rec.fields)
  BY DEF RecInv, RecType
<1>7. v # Null /\ \A x : sclone(x) = v => x = v
  BY MdbAssumption DEF sclone
<1>8. \A q \in N \ {r} : q \in M
  BY <1>3, <1>4 DEF Takes
<1>9. CASE c = 1
  BY <1>4, <1>9 DEF TableInv, Keyed, KeyOf
<1>10. CASE c # 1 /\ c <= Len(rec.fields) /\ rec.fields[c] = v
  <2>1. checkUnique(t, c, v, rec.id)
    BY <1>1, <1>6, <1>10 DEF mdbValidateRec
  <2>2. \A q \in M : q = Min(M) => KeyOf(t, q) = rec.id
    BY <1>7, <2>1 DEF checkUnique, KeyOf
  <2> HIDE DEF M
  <2>3. \A q \in M : q = Min(M)
    <3>1. ASSUME NEW q \in M PROVE q = Min(M)
      <4>1. Min(M) \in M
        BY <1>3, <3>1, MinOfNats
      <4> QED
        BY <1>5, <4>1
    <3> QED
      BY <3>1
  <2>4. \A q \in M : KeyOf(t, q) = rec.id
    BY <2>2, <2>3
  <2>5. ASSUME NEW q \in M PROVE q = r
    <3>1. q \in DOMAIN t.rows /\ KeyOf(t, q) = rec.id
      BY <1>3, <2>4
    <3>2. r \in DOMAIN t.rows /\ KeyOf(t, r) = rec.id
      BY <3>1 DEF Takes
    <3> QED
      BY <3>1, <3>2 DEF TableInv, Keyed
  <2> QED
    BY <1>8, <2>5
<1>11. CASE c # 1 /\ ~(c <= Len(rec.fields) /\ rec.fields[c] = v)
  <2>1. c \in 2..MaxCols
    BY <1>1, <1>11, MdbAssumption DEF TableInv, Columns, Schemed
  <2>2. u.rows[r].fields[c] = IF c <= Len(rec.fields) THEN sclone(rec.fields[c])
                              ELSE IF r \in DOMAIN t.rows THEN t.rows[r].fields[c] ELSE Null
    BY <2>1 DEF Takes
  <2>3. r \in N => r \in M
    BY <1>3, <1>4, <1>7, <1>11, <2>2
  <2>4. \A q \in N : q \in M
    BY <1>8, <2>3
  <2> QED
    BY <1>5, <2>4
<1> QED
  BY <1>9, <1>10, <1>11

\* mdbUpdateRec makes no second row with a value of a unique column.
LEMMA UpdateKeepsUnique ==
    ASSUME DbInv, NEW t \in Requests, mdbUpdateRec(t),
           NEW i \in DOMAIN tables, NEW c, NEW v \in Values,
           tables[i].cols[c].unique, ~Twice(i, c, v)
    PROVE  ~Twice(i, c, v)'
<1>1. TablesInv(tables) /\ HeldInv
  BY DEF DbInv
<1>2. PICK j \in DOMAIN tables : \E r \in Nat : \E u :
         /\ tables' = [tables EXCEPT ![j] = u] /\ TableInv(u)
         /\ RecInv(held[t]) /\ Len(held[t].fields) <= Len(tables[j].cols)
         /\ mdbValidateRec(tables[j], held[t])
         /\ Takes(u, tables[j], r, held[t])
  BY <1>1, UpdateRecTakes
<1>3. CASE j # i
  <2>1. tables'[i] = tables[i]
    BY <1>2, <1>3
  <2> QED
    BY <2>1 DEF Twice
<1>4. CASE j = i
  <2> DEFINE tb == tables[i]
             rec == held[t]
  <2>1. PICK r : \E u :
          /\ tables' = [tables EXCEPT ![i] = u] /\ TableInv(u)
          /\ RecInv(rec) /\ Len(rec.fields) <= Len(tb.cols)
          /\ mdbValidateRec(tb, rec) /\ Takes(u, tb, r, rec)
    BY <1>2, <1>4
  <2>2. PICK u :
          /\ tables' = [tables EXCEPT ![i] = u] /\ TableInv(u)
          /\ RecInv(rec) /\ Len(rec.fields) <= Len(tb.cols)
          /\ mdbValidateRec(tb, rec) /\ Takes(u, tb, r, rec)
    BY <2>1
  <2>3. TableInv(tb)
    BY <1>1 DEF TablesInv
  <2>4. tables'[i] = u
    BY <2>2
  <2>5. tb.cols[c].unique /\ ~(c \in DOMAIN tb.cols /\ Cardinality(matchRow(tb, c, v)) > 1)
    BY DEF Twice
  <2> HIDE DEF tb, rec
  <2>6. ASSUME c \in DOMAIN u.cols, Cardinality(matchRow(u, c, v)) > 1 PROVE FALSE
    <3>1. c \in DOMAIN tb.cols
      BY <2>2, <2>3, <2>6, LengthsOfTables DEF TableInv, Takes
    <3>2. \A p, q \in matchRow(tb, c, v) : p = q
      BY <2>3, <2>5, <3>1, RowsWithValue
    <3>3. \A p, q \in matchRow(u, c, v) : p = q
      BY <2>2, <2>3, <2>5, <3>1, <3>2, TakenIsUnique
    <3> QED
      BY <2>2, <2>6, <3>3, RowsWithValue
  <2> QED
    BY <2>4, <2>6 DEF Twice
<1> QED
  BY <1>3, <1>4

\* A record that a request holds never gives a value of a unique column to a second
\* row (checkUnique), however long ago it was read and whatever was deleted,
\* inserted, saved and loaded since.
THEOREM UpdatesKeepUnique == Spec => UniqueKept
<1> DEFINE Unique == intact => \A i \in DOMAIN tables, c \in 1..MaxCols, v \in Values :
                      i \in DOMAIN tables' /\ Twice(i, c, v)' /\ ~Twice(i, c, v) /\ tables[i].cols[c].unique
                          => \A t \in Requests : ~mdbUpdateRec(t)
<1>1. (intact => DbInv) => Unique
  BY UpdateKeepsUnique
<1>2. (intact => DbInv) /\ [Next]_vars => [Unique]_vars
  BY <1>1
<1> QED
  BY <1>2, IntactDb, PTL DEF Spec, UniqueKept

\* mdbReadRec holds the row with the key, or nothing when there is none.
LEMMA ReadFinds ==
    ASSUME DbInv, NEW t \in Requests, NEW i \in DOMAIN tables, NEW k \in Ids,
           mdbReadRec(t, tables[i].name, k)
    PROVE  LET rows == {r \in DOMAIN tables[i].rows : tables[i].rows[r].fields[1] = k}
           IN  IF rows = {} THEN held'[t] = None
               ELSE held'[t] \in {RecOf(tables[i], r) : r \in rows}
<1> DEFINE tb == tables[i]
           s == lookupRow(tb, k)
<1>1. TablesInv(tables) /\ HeldInv
  BY DEF DbInv
<1>2. PICK j \in DOMAIN tables : Locked(tb.name, j) /\ Hold(t, tables[j], lookupRow(tables[j], k))
  BY DEF mdbReadRec
<1>3. tables[j].name = tb.name
  BY <1>1, <1>2, TableFound
<1>4. j = i
  BY <1>1, <1>3 DEF TablesInv
<1>5. Hold(t, tb, s) /\ TableInv(tb)
  BY <1>1, <1>2, <1>4 DEF TablesInv
<1>6. held'[t] = IF s \in DOMAIN tb.rows THEN RecOf(tb, s) ELSE None
  BY <1>1, <1>5 DEF Hold, HeldInv
<1>7. \/ s = 0 /\ \A r \in DOMAIN tb.rows : KeyOf(tb, r) # k
      \/ s \in DOMAIN tb.rows /\ KeyOf(tb, s) = k
  <2> HIDE DEF tb
  <2> QED
    BY <1>5, LookupFinds
<1>8. 0 \notin DOMAIN tb.rows
  BY <1>5, LengthsOfTables DEF TableInv
<1> HIDE DEF s
<1>9. LET rows == {r \in DOMAIN tb.rows : tb.rows[r].fields[1] = k}
      IN  IF rows = {} THEN held'[t] = None ELSE held'[t] \in {RecOf(tb, r) : r \in rows}
  BY <1>6, <1>7, <1>8 DEF KeyOf
<1> QED
  BY <1>9

\* What edi.h says of ediReadRec, "as identified by the key value": through the index
\* or without it, a record that is read is a copy of the row that has the key.
THEOREM ReadsGiveTheRow == Spec => ReadByKey
<1> DEFINE Read == intact => \A t \in Requests, i \in DOMAIN tables, k \in Ids :
                     mdbReadRec(t, tables[i].name, k) =>
                        LET rows == {r \in DOMAIN tables[i].rows : tables[i].rows[r].fields[1] = k}
                        IN  IF rows = {} THEN held'[t] = None
                            ELSE held'[t] \in {RecOf(tables[i], r) : r \in rows}
<1>1. (intact => DbInv) => Read
  BY ReadFinds
<1>2. (intact => DbInv) /\ [Next]_vars => [Read]_vars
  BY <1>1
<1> QED
  BY <1>2, IntactDb, PTL DEF Spec, ReadByKey
-----------------------------------------------------------------------------
(* The store that the tables and the files stand for.                        *)

\* Functions are equal when they have the same domain and values.
LEMMA SameFunction ==
    ASSUME NEW D, NEW f, NEW g, f = [x \in D |-> f[x]], g = [x \in D |-> g[x]],
           \A x \in D : f[x] = g[x]
    PROVE  f = g
<1>1. [x \in D |-> f[x]] = [x \in D |-> g[x]]
  OBVIOUS
<1> QED
  BY <1>1

\* A row as the store has it, and the rows of a table.
RowStore(fields) == [c \in 1..MaxCols |-> Clean(fields[c])]
TableStore(t)    == RowsOf([r \in DOMAIN t.rows |-> t.rows[r].fields])

\* A store has the keys of the rows, and each row under its key.
HasRows(store, rows) ==
    /\ store = [k \in {rows[r][1] : r \in DOMAIN rows} |-> store[k]]
    /\ DOMAIN store = {rows[r][1] : r \in DOMAIN rows}
    /\ \A r \in DOMAIN rows : store[rows[r][1]] = RowStore(rows[r])

\* RowsOf finds the row of a key, if keys are distinct.
LEMMA RowsByKey ==
    ASSUME NEW rows, \A r, q \in DOMAIN rows : rows[r][1] = rows[q][1] => r = q
    PROVE  HasRows(RowsOf(rows), rows)
<1> DEFINE D == DOMAIN rows
           store == RowsOf(rows)
           K == {rows[r][1] : r \in D}
           Pick(k) == CHOOSE q \in D : rows[q][1] = k
<1>1. store = [k \in K |-> RowStore(rows[Pick(k)])]
  BY DEF RowsOf, RowStore
<1>2. ASSUME NEW r \in D PROVE Pick(rows[r][1]) = r
  <2>1. \E q \in D : rows[q][1] = rows[r][1]
    OBVIOUS
  <2>2. Pick(rows[r][1]) \in D /\ rows[Pick(rows[r][1])][1] = rows[r][1]
    BY <2>1
  <2> QED
    BY <2>2
<1> HIDE DEF Pick
<1> HIDE DEF store
<1>3. \A r \in D : rows[r][1] \in K /\ store[rows[r][1]] = RowStore(rows[r])
  BY <1>1, <1>2
<1>4. DOMAIN store = K /\ store = [k \in K |-> store[k]]
  BY <1>1
<1> QED
  BY <1>3, <1>4 DEF HasRows, store

\* The fields of the rows of a table.
TableRows(t) == [r \in DOMAIN t.rows |-> t.rows[r].fields]

\* The store of a table has its keys, and the row of each.
LEMMA StoreOfTable ==
    ASSUME NEW t, TableInv(t)
    PROVE  HasRows(TableStore(t), TableRows(t))
<1> DEFINE rows == TableRows(t)
<1>1. \A r, q \in DOMAIN rows : rows[r][1] = rows[q][1] => r = q
  BY DEF TableInv, Keyed, KeyOf, TableRows
<1> HIDE DEF rows
<1>2. HasRows(RowsOf(rows), rows)
  BY <1>1, RowsByKey
<1> QED
  BY <1>2 DEF TableStore, rows, TableRows

\* The same in terms of the table.
HasKeys(store, t) ==
    /\ \A k : k \in DOMAIN store <=> \E r \in DOMAIN t.rows : KeyOf(t, r) = k
    /\ \A r \in DOMAIN t.rows : store[KeyOf(t, r)] = RowStore(t.rows[r].fields)
    /\ store = [k \in DOMAIN store |-> store[k]]

\* It is so of the store of a table.
LEMMA KeysOfTable ==
    ASSUME NEW t, TableInv(t), NEW store, store = TableStore(t)
    PROVE  HasKeys(store, t)
<1> DEFINE rows == TableRows(t)
<1>1. HasRows(store, rows)
  BY StoreOfTable
<1>2. DOMAIN rows = DOMAIN t.rows /\ \A r \in DOMAIN t.rows : rows[r] = t.rows[r].fields
  BY DEF TableRows
<1> HIDE DEF rows
<1>3. \A k : k \in DOMAIN store <=> \E r \in DOMAIN t.rows : KeyOf(t, r) = k
  BY <1>1, <1>2 DEF HasRows, KeyOf
<1>4. \A r \in DOMAIN t.rows : store[KeyOf(t, r)] = RowStore(t.rows[r].fields)
  BY <1>1, <1>2 DEF HasRows, KeyOf
<1>5. store = [k \in DOMAIN store |-> store[k]]
  BY <1>1 DEF HasRows
<1> QED
  BY <1>3, <1>4, <1>5 DEF HasKeys

\* A store has the names of the tables, and the store of each.
HasTables(store, ts) ==
    /\ \A n : n \in DOMAIN store <=> \E i \in DOMAIN ts : ts[i].name = n
    /\ \A i \in DOMAIN ts : store[ts[i].name] = TableStore(ts[i])
    /\ store = [n \in DOMAIN store |-> store[n]]

\* InMemory finds the table of a name, as names are distinct.
LEMMA StoreOfTables ==
    ASSUME NEW ts, TablesInv(ts)
    PROVE  HasTables(InMemory(ts), ts)
<1> DEFINE store == InMemory(ts)
           D == {ts[i].name : i \in DOMAIN ts}
<1>1. store = [n \in D |-> TableStore(Named(ts, n))]
  BY DEF InMemory, TableStore
<1>2. ASSUME NEW i \in DOMAIN ts PROVE Named(ts, ts[i].name) = ts[i]
  <2> DEFINE j == CHOOSE j \in DOMAIN ts : ts[j].name = ts[i].name
  <2>1. j \in DOMAIN ts /\ ts[j].name = ts[i].name
    OBVIOUS
  <2> HIDE DEF j
  <2>2. j = i
    BY <2>1 DEF TablesInv
  <2> QED
    BY <2>2 DEF Named, j
<1> HIDE DEF store
<1>3. \A i \in DOMAIN ts : ts[i].name \in D /\ store[ts[i].name] = TableStore(ts[i])
  BY <1>1, <1>2
<1>4. DOMAIN store = D /\ store = [n \in D |-> store[n]]
  BY <1>1
<1> QED
  BY <1>3, <1>4 DEF HasTables, store

\* Tables that have the same names, and each the same store, are the same store.
LEMMA SameTables ==
    ASSUME NEW f, NEW g, NEW ts, NEW vs, HasTables(f, ts), HasTables(g, vs),
           DOMAIN vs = DOMAIN ts,
           \A i \in DOMAIN ts : vs[i].name = ts[i].name /\ TableStore(vs[i]) = TableStore(ts[i])
    PROVE  f = g
<1>1. \A n : n \in DOMAIN f <=> n \in DOMAIN g
  BY DEF HasTables
<1>2. DOMAIN f = DOMAIN g
  BY <1>1
<1>3. ASSUME NEW n \in DOMAIN f PROVE f[n] = g[n]
  BY <1>1 DEF HasTables
<1>4. f = [n \in DOMAIN f |-> f[n]] /\ g = [n \in DOMAIN f |-> g[n]]
  BY <1>2 DEF HasTables
<1> QED
  BY <1>3, <1>4, SameFunction

\* One table becomes another one that has its name, and one value another one.
OneTable(vs, ts, i, u) == vs = [ts EXCEPT ![i] = u] /\ u.name = ts[i].name
OneStore(f, g, n, x)   == f = [g EXCEPT ![n] = x]

\* Then one table of the store changes.
LEMMA OneTableStore ==
    ASSUME NEW ts, TablesInv(ts), NEW vs, TablesInv(vs), NEW i \in DOMAIN ts, NEW u,
           OneTable(vs, ts, i, u)
    PROVE  OneStore(InMemory(vs), InMemory(ts), ts[i].name, TableStore(u))
<1> DEFINE f == InMemory(vs)
           g == InMemory(ts)
           n == ts[i].name
           x == TableStore(u)
           h == [g EXCEPT ![n] = x]
<1>1. DOMAIN vs = DOMAIN ts /\ (\A j \in DOMAIN ts : vs[j] = IF j = i THEN u ELSE ts[j]) /\ u.name = ts[i].name
  BY DEF OneTable
<1>2. HasTables(f, vs) /\ HasTables(g, ts)
  BY StoreOfTables
<1>3. \A j \in DOMAIN ts : ts[j].name = n => j = i
  BY DEF TablesInv
<1> HIDE DEF f, g, x
<1>4. h = [m \in DOMAIN g |-> h[m]] /\ \A m \in DOMAIN g : h[m] = IF m = n THEN x ELSE g[m]
  BY <1>2 DEF HasTables
<1>5. \A m : m \in DOMAIN f <=> m \in DOMAIN g
  BY <1>1, <1>2 DEF HasTables
<1> HIDE DEF h
<1>6. ASSUME NEW m \in DOMAIN g PROVE f[m] = h[m]
  <2>1. PICK j \in DOMAIN ts : m = ts[j].name
    BY <1>2 DEF HasTables
  <2>2. f[m] = TableStore(vs[j])
    BY <1>1, <1>2, <2>1 DEF HasTables
  <2>3. CASE j = i
    BY <1>1, <1>4, <2>1, <2>2, <2>3 DEF x
  <2>4. CASE j # i
    <3>1. f[m] = g[m] /\ m # n
      BY <1>1, <1>2, <1>3, <2>1, <2>2, <2>4 DEF HasTables
    <3> QED
      BY <1>4, <3>1
  <2> QED
    BY <2>3, <2>4
<1>7. DOMAIN f = DOMAIN g
  BY <1>5
<1>8. f = [m \in DOMAIN g |-> f[m]]
  BY <1>2, <1>7 DEF HasTables
<1>9. f = h
  BY <1>4, <1>6, <1>8, SameFunction
<1> QED
  BY <1>9 DEF f, g, h, n, x, OneStore

\* The store depends on the names and the rows of the tables alone.
LEMMA SameStore ==
    ASSUME NEW ts, TablesInv(ts), NEW vs, TablesInv(vs), DOMAIN vs = DOMAIN ts,
           \A i \in DOMAIN ts : vs[i].name = ts[i].name /\ vs[i].rows = ts[i].rows
    PROVE  InMemory(vs) = InMemory(ts)
<1>1. HasTables(InMemory(vs), vs) /\ HasTables(InMemory(ts), ts)
  BY StoreOfTables
<1>2. \A j \in DOMAIN ts : TableStore(vs[j]) = TableStore(ts[j])
  BY DEF TableStore
<1> DEFINE f == InMemory(vs)
           g == InMemory(ts)
<1> HIDE DEF f, g
<1>3. f = g
  BY <1>1, <1>2, SameTables DEF f, g
<1> QED
  BY <1>3 DEF f, g

\* Rows that have the same keys and are the same in the store.
LEMMA SameRows ==
    ASSUME NEW f, NEW g, NEW a, NEW b, HasRows(f, a), HasRows(g, b), DOMAIN a = DOMAIN b,
           \A r \in DOMAIN a : a[r][1] = b[r][1] /\ RowStore(a[r]) = RowStore(b[r])
    PROVE  f = g
<1>1. \A k : k \in DOMAIN f <=> k \in DOMAIN g
  BY DEF HasRows
<1>2. DOMAIN f = DOMAIN g
  BY <1>1
<1>3. ASSUME NEW k \in DOMAIN f PROVE f[k] = g[k]
  <2>1. PICK r \in DOMAIN a : a[r][1] = k
    BY DEF HasRows
  <2>2. f[k] = RowStore(a[r])
    BY <2>1 DEF HasRows
  <2>3. g[k] = RowStore(b[r])
    BY <2>1 DEF HasRows
  <2> QED
    BY <2>2, <2>3
<1>4. f = [k \in DOMAIN f |-> f[k]] /\ g = [k \in DOMAIN f |-> g[k]]
  BY <1>2 DEF HasRows
<1> QED
  BY <1>3, <1>4, SameFunction

\* The rows of a table in a file.
FileRows(im) == [r \in DOMAIN im.rows |-> Padded(im.rows[r])]

\* The store that a file stands for is that of tables that have the same rows.
LEMMA StoreOfFile ==
    ASSUME NEW image, NEW ts, DOMAIN ts = DOMAIN image,
           \A i, j \in DOMAIN image : image[i].name = image[j].name => i = j,
           \A i \in DOMAIN image : ts[i].name = image[i].name /\ TableStore(ts[i]) = RowsOf(FileRows(image[i]))
    PROVE  HasTables(InFile(image), ts)
<1> DEFINE store == InFile(image)
           D == {image[i].name : i \in DOMAIN image}
<1>1. store = [n \in D |-> RowsOf(FileRows(Named(image, n)))]
  BY DEF InFile, FileRows
<1>2. ASSUME NEW i \in DOMAIN image PROVE Named(image, image[i].name) = image[i]
  <2> DEFINE j == CHOOSE j \in DOMAIN image : image[j].name = image[i].name
  <2>1. j \in DOMAIN image /\ image[j].name = image[i].name
    OBVIOUS
  <2> HIDE DEF j
  <2>2. j = i
    BY <2>1
  <2> QED
    BY <2>2 DEF Named, j
<1> HIDE DEF store
<1>3. \A i \in DOMAIN ts : ts[i].name \in D /\ store[ts[i].name] = TableStore(ts[i])
  BY <1>1, <1>2
<1>4. DOMAIN store = D /\ store = [n \in D |-> store[n]]
  BY <1>1
<1> QED
  BY <1>3, <1>4 DEF HasTables, store

\* What is loaded is the store that the file stands for.
LEMMA LoadedStore ==
    ASSUME NEW image \in Seq(ImageType), \A i \in DOMAIN image : ImageInv(image[i]), Loadable(image)
    PROVE  InMemory(Load(image)) = InFile(image)
<1> DEFINE ts == Load(image)
<1>1. TablesInv(ts)
  BY LoadKeeps
<1>2. DOMAIN ts = DOMAIN image /\ \A i \in DOMAIN image : ts[i] = LoadTable(image[i])
  BY DEF Load
<1> HIDE DEF ts
<1>3. ASSUME NEW i \in DOMAIN image
      PROVE  ts[i].name = image[i].name /\ TableStore(ts[i]) = RowsOf(FileRows(image[i]))
  <2> DEFINE im == image[i]
             t == ts[i]
  <2>1. ImageInv(im) /\ \A c, d \in DOMAIN im.cols : im.cols[c].name = im.cols[d].name => c = d
    BY DEF Loadable
  <2>2. t = LoadTable(im)
    BY <1>2
  <2> HIDE DEF im, t
  <2>3. Loaded(t, im, Len(im.rows))
    BY <2>1, <2>2, TableLoads
  <2>4. im.rows \in Seq(Seq(Fields)) /\ DOMAIN im.rows = 1..Len(im.rows)
    BY <2>1 DEF ImageInv, ImageType
  <2>5. DOMAIN t.rows = DOMAIN im.rows
    BY <2>3, <2>4, LengthsOfTables DEF Loaded, TableInv
  <2>6. TableRows(t) = FileRows(im)
    BY <2>3, <2>4, <2>5 DEF TableRows, FileRows, Loaded
  <2> QED
    BY <2>3, <2>6 DEF TableStore, TableRows, Loaded, t, im
<1>4. HasTables(InFile(image), ts)
  BY <1>2, <1>3, StoreOfFile DEF Loadable
<1>5. HasTables(InMemory(ts), ts)
  BY <1>1, StoreOfTables
<1> DEFINE f == InFile(image)
           g == InMemory(ts)
<1> HIDE DEF f, g
<1>6. f = g
  BY <1>4, <1>5, SameTables DEF f, g
<1> QED
  BY <1>6 DEF f, g, ts

\* No row has a field behind the last column.
Trim(t) == \A r \in DOMAIN t.rows : \A c \in 1..MaxCols : c > Len(t.cols) => t.rows[r].fields[c] = Null

\* The image of a table has the rows of the table, with the text of a null.
LEMMA ImageRows ==
    ASSUME NEW t, TableInv(t), Trim(t)
    PROVE  TableStore(t) = RowsOf(FileRows(TableImage(t)))
<1> DEFINE a == TableRows(t)
           im == TableImage(t)
           b == FileRows(im)
<1>1. /\ t \in TableType /\ Len(t.cols) \in Nat /\ DOMAIN t.cols = 1..Len(t.cols)
      /\ \A r \in DOMAIN t.rows : t.rows[r].fields \in [1..MaxCols -> Fields]
  BY LengthsOfTables DEF TableInv, RowType
<1>2. DOMAIN a = DOMAIN t.rows /\ \A r \in DOMAIN t.rows : a[r] = t.rows[r].fields
  BY DEF TableRows
<1>3. DOMAIN b = DOMAIN t.rows
  BY DEF FileRows, TableImage
<1>4. ASSUME NEW r \in DOMAIN t.rows, NEW c \in 1..MaxCols
      PROVE  b[r][c] = IF c \in DOMAIN t.cols THEN Written(t.rows[r].fields[c]) ELSE Null
  <2> DEFINE row == [d \in DOMAIN t.cols |-> Written(t.rows[r].fields[t.cols[d].cid])]
  <2>1. \A d \in DOMAIN t.cols : t.cols[d].cid = d
    BY DEF TableInv, Columns
  <2>2. DOMAIN im.rows = DOMAIN t.rows /\ im.rows[r] = row
    BY Zenon DEF TableImage
  <2>3. b[r] = Padded(row)
    <3> HIDE DEF im, row
    <3> QED
      BY <2>2, Zenon DEF FileRows
  <2>4. DOMAIN row = DOMAIN t.cols /\ \A d \in DOMAIN t.cols : row[d] = Written(t.rows[r].fields[d])
    BY <2>1
  <2> HIDE DEF row, b
  <2> QED
    BY <2>3, <2>4 DEF Padded
<1>5. ASSUME NEW r \in DOMAIN t.rows PROVE a[r][1] = b[r][1]
  <2>1. KeyOf(t, r) # Null /\ 1 \in DOMAIN t.cols /\ 1 \in 1..MaxCols
    BY KeysAreIds, MdbAssumption
  <2> HIDE DEF b
  <2> QED
    BY <1>2, <1>4, <2>1 DEF KeyOf, Written
<1>6. ASSUME NEW r \in DOMAIN t.rows PROVE RowStore(a[r]) = RowStore(b[r])
  <2> HIDE DEF a, b
  <2>1. ASSUME NEW c \in 1..MaxCols PROVE Clean(a[r][c]) = Clean(b[r][c])
    <3>1. CASE c \in DOMAIN t.cols
      BY <1>2, <1>4, <3>1, MdbAssumption DEF Clean, Written
    <3>2. CASE c \notin DOMAIN t.cols
      <4>1. a[r][c] = Null
        BY <1>1, <1>2, <3>2 DEF Trim
      <4> QED
        BY <1>4, <3>2, <4>1
    <3> QED
      BY <3>1, <3>2
  <2> QED
    BY <2>1 DEF RowStore
<1>7. HasRows(RowsOf(a), a)
  BY StoreOfTable DEF TableStore, TableRows
<1> HIDE DEF a, b, im
<1>8. \A r, q \in DOMAIN b : b[r][1] = b[q][1] => r = q
  BY <1>2, <1>3, <1>5 DEF TableInv, Keyed, KeyOf
<1>9. HasRows(RowsOf(b), b)
  BY <1>8, RowsByKey
<1> DEFINE f == RowsOf(a)
           g == RowsOf(b)
<1> HIDE DEF f, g
<1>10. f = g
  BY <1>2, <1>3, <1>5, <1>6, <1>7, <1>9, SameRows DEF f, g
<1> QED
  BY <1>10 DEF f, g, a, b, im, TableStore, TableRows

\* What is saved is the store of the tables.
LEMMA SavedStore ==
    ASSUME NEW ts, TablesInv(ts), \A i \in DOMAIN ts : Trim(ts[i])
    PROVE  InFile(Image(ts)) = InMemory(ts) /\ Copies(Image(ts)) = {InMemory(ts)}
<1> DEFINE image == Image(ts)
<1>1. image = [i \in DOMAIN ts |-> TableImage(ts[i])]
  BY DEF Image, TableImage
<1>2. image \in Seq(ImageType)
  BY SMTT(40), ImageKeeps
<1> HIDE DEF image
<1>3. \A i \in DOMAIN ts : image[i] = TableImage(ts[i]) /\ image[i].name = ts[i].name
  BY <1>1 DEF TableImage
<1>4. \A i \in DOMAIN ts : TableStore(ts[i]) = RowsOf(FileRows(image[i]))
  BY <1>3, ImageRows DEF TablesInv
<1>5. HasTables(InFile(image), ts)
  <2>1. DOMAIN ts = DOMAIN image
    BY <1>1
  <2>2. \A i, j \in DOMAIN image : image[i].name = image[j].name => i = j
    BY <1>3, <2>1 DEF TablesInv
  <2> QED
    BY <1>3, <1>4, <2>1, <2>2, StoreOfFile
<1>6. HasTables(InMemory(ts), ts)
  BY StoreOfTables
<1> DEFINE f == InFile(image)
           g == InMemory(ts)
<1> HIDE DEF f, g
<1>7. f = g
  BY <1>5, <1>6, SameTables DEF f, g
<1>8. image \notin {None, Torn}
  BY <1>2, NoneAssumption
<1> QED
  BY <1>7, <1>8 DEF f, g, image, Copies

\* No tables are the empty store, and no rows an empty table.
LEMMA EmptyStores ==
    /\ InMemory(<<>>) = <<>>
    /\ \A t : t.rows = <<>> => TableStore(t) = <<>>
<1>1. \A x, f : x = [k \in {} |-> f[k]] => x = <<>>
  OBVIOUS
<1>2. DOMAIN InMemory(<<>>) = {} /\ InMemory(<<>>) = [n \in DOMAIN InMemory(<<>>) |-> InMemory(<<>>)[n]]
  BY DEF InMemory
<1>3. ASSUME NEW t, t.rows = <<>> PROVE TableStore(t) = <<>>
  BY <1>3 DEF TableStore, RowsOf
<1> QED
  BY <1>1, <1>2, <1>3

\* A store that has the names and the rows of the tables is theirs.
LEMMA StoreIs ==
    ASSUME NEW ts, TablesInv(ts), NEW f, HasTables(f, ts)
    PROVE  InMemory(ts) = f
<1> DEFINE g == InMemory(ts)
<1>1. HasTables(g, ts)
  BY StoreOfTables
<1> HIDE DEF g
<1>2. g = f
  BY <1>1, SameTables
<1> QED
  BY <1>2 DEF g

\* A table that is added.
LEMMA AddedTable ==
    ASSUME NEW ts, TablesInv(ts), NEW n, NEW vs, TablesInv(vs), vs = Append(ts, NewTable(n))
    PROVE  InMemory(vs) = Store!Put(InMemory(ts), n, <<>>)
<1> DEFINE g == InMemory(ts)
           f == Store!Put(g, n, <<>>)
           m == Len(ts) + 1
<1>1. ts \in Seq(TableType) /\ DOMAIN ts = 1..(m - 1) /\ m \in Nat \ {0}
  BY DEF TablesInv
<1>2. DOMAIN vs = 1..m /\ vs[m] = NewTable(n) /\ \A i \in DOMAIN ts : vs[i] = ts[i]
  BY <1>1
<1>3. NewTable(n).name = n /\ TableStore(NewTable(n)) = <<>>
  BY EmptyStores DEF NewTable
<1>4. HasTables(g, ts)
  BY StoreOfTables
<1>5. \A i \in DOMAIN ts : ts[i].name # n
  <2> SUFFICES ASSUME NEW i \in DOMAIN ts, ts[i].name = n PROVE FALSE
    OBVIOUS
  <2>1. i \in DOMAIN vs /\ m \in DOMAIN vs /\ vs[i].name = vs[m].name /\ i # m
    BY <1>1, <1>2, <1>3
  <2> QED
    BY <2>1 DEF TablesInv
<1> HIDE DEF g
<1>6. /\ f = [x \in DOMAIN f |-> f[x]] /\ DOMAIN f = DOMAIN g \cup {n}
      /\ f[n] = <<>> /\ \A x \in DOMAIN g \ {n} : f[x] = g[x]
  BY DEF Store!Put
<1> HIDE DEF f
<1>7. \A x : x \in DOMAIN f <=> \E i \in DOMAIN vs : vs[i].name = x
  <2>1. ASSUME NEW x \in DOMAIN f PROVE \E i \in DOMAIN vs : vs[i].name = x
    BY <1>1, <1>2, <1>3, <1>4, <1>6 DEF HasTables
  <2>2. ASSUME NEW i \in DOMAIN vs PROVE vs[i].name \in DOMAIN f
    BY <1>1, <1>2, <1>3, <1>4, <1>6 DEF HasTables
  <2> QED
    BY <2>1, <2>2
<1>8. \A i \in DOMAIN vs : f[vs[i].name] = TableStore(vs[i])
  <2> SUFFICES ASSUME NEW i \in DOMAIN vs PROVE f[vs[i].name] = TableStore(vs[i])
    OBVIOUS
  <2>1. CASE i = m
    BY <1>2, <1>3, <1>6, <2>1
  <2>2. CASE i # m
    <3>1. i \in DOMAIN ts
      BY <1>1, <1>2, <2>2
    <3>2. vs[i] = ts[i] /\ ts[i].name \in DOMAIN g \ {n}
      BY <1>2, <1>4, <1>5, <3>1 DEF HasTables
    <3> QED
      BY <1>4, <1>6, <3>1, <3>2 DEF HasTables
  <2> QED
    BY <2>1, <2>2
<1>9. HasTables(f, vs)
  BY <1>6, <1>7, <1>8 DEF HasTables
<1>10. InMemory(vs) = f
  BY <1>9, StoreIs
<1> QED
  BY <1>10 DEF f, g

\* A table that is removed.
LEMMA RemovedTable ==
    ASSUME NEW ts, TablesInv(ts), NEW r \in DOMAIN ts, NEW vs, TablesInv(vs), vs = RemoveAt(ts, r)
    PROVE  InMemory(vs) = Store!Without(InMemory(ts), ts[r].name)
<1> DEFINE g == InMemory(ts)
           n == ts[r].name
           f == Store!Without(g, n)
           m == Len(ts)
           from(i) == IF i < r THEN i ELSE i + 1
           to(j) == IF j < r THEN j ELSE j - 1
<1>1. ts \in Seq(TableType) /\ DOMAIN ts = 1..m /\ m \in Nat /\ r \in 1..m
  BY DEF TablesInv
<1>2. DOMAIN vs = 1..(m - 1) /\ \A i \in 1..(m - 1) : vs[i] = ts[from(i)]
  <2>1. /\ vs \in Seq(TableType) /\ Len(vs) = m - 1
        /\ \A i \in 1..(m - 1) : vs[i] = IF i < r THEN ts[i] ELSE ts[i + 1]
    BY <1>1, RemoveAtPlaces
  <2> HIDE DEF m
  <2> QED
    BY SMTT(40), <2>1
<1>3. \A i \in DOMAIN vs : from(i) \in DOMAIN ts \ {r} /\ vs[i] = ts[from(i)]
  BY <1>1, <1>2
<1>4. \A j \in DOMAIN ts \ {r} : to(j) \in DOMAIN vs /\ vs[to(j)] = ts[j]
  BY <1>1, <1>2
<1>5. HasTables(g, ts)
  BY StoreOfTables
<1>6. \A j \in DOMAIN ts \ {r} : ts[j].name # n
  BY DEF TablesInv
<1> HIDE DEF g, from, to
<1>7. /\ f = [x \in DOMAIN f |-> f[x]] /\ DOMAIN f = DOMAIN g \ {n}
      /\ \A x \in DOMAIN g \ {n} : f[x] = g[x]
  BY DEF Store!Without
<1> HIDE DEF f
<1>8. \A x : x \in DOMAIN f <=> \E i \in DOMAIN vs : vs[i].name = x
  <2>1. ASSUME NEW x \in DOMAIN f PROVE \E i \in DOMAIN vs : vs[i].name = x
    <3>1. PICK j \in DOMAIN ts : ts[j].name = x
      BY <1>5, <1>7 DEF HasTables
    <3> QED
      BY <1>4, <1>7, <3>1
  <2>2. ASSUME NEW i \in DOMAIN vs PROVE vs[i].name \in DOMAIN f
    BY <1>3, <1>5, <1>6, <1>7 DEF HasTables
  <2> QED
    BY <2>1, <2>2
<1>9. \A i \in DOMAIN vs : f[vs[i].name] = TableStore(vs[i])
  BY <1>3, <1>5, <1>6, <1>7 DEF HasTables
<1>10. HasTables(f, vs)
  BY <1>7, <1>8, <1>9 DEF HasTables
<1>11. InMemory(vs) = f
  BY <1>10, StoreIs
<1> QED
  BY <1>11 DEF f, g

\* A table that takes another name.
LEMMA RenamedTable ==
    ASSUME NEW ts, TablesInv(ts), NEW i \in DOMAIN ts, NEW m, \A j \in DOMAIN ts : ts[j].name # m,
           NEW vs, TablesInv(vs), vs = [ts EXCEPT ![i] = [ts[i] EXCEPT !.name = m]]
    PROVE  LET store == InMemory(ts)
               n == ts[i].name
           IN  InMemory(vs) = Store!Without(Store!Put(store, m, store[n]), n)
<1> DEFINE g == InMemory(ts)
           n == ts[i].name
           h == Store!Put(g, m, g[n])
           f == Store!Without(h, n)
           u == [ts[i] EXCEPT !.name = m]
<1>1. ts[i] \in TableType
  BY DEF TablesInv, TableInv
<1>2. u.name = m /\ TableStore(u) = TableStore(ts[i])
  BY <1>1 DEF TableType, TableStore
<1> HIDE DEF u
<1>3. DOMAIN vs = DOMAIN ts /\ \A j \in DOMAIN ts : vs[j] = IF j = i THEN u ELSE ts[j]
  BY DEF u
<1>4. HasTables(g, ts)
  BY StoreOfTables
<1>5. \A j \in DOMAIN ts : ts[j].name = n => j = i
  BY DEF TablesInv
<1> HIDE DEF g
<1>6. /\ f = [x \in DOMAIN f |-> f[x]] /\ DOMAIN f = (DOMAIN g \cup {m}) \ {n}
      /\ m # n => f[m] = g[n]
      /\ \A x \in DOMAIN g \ {m, n} : f[x] = g[x]
  BY DEF Store!Without, Store!Put
<1> HIDE DEF f, h
<1>7. m # n
  OBVIOUS
<1>8. \A x : x \in DOMAIN f <=> \E j \in DOMAIN vs : vs[j].name = x
  <2>1. ASSUME NEW x \in DOMAIN f PROVE \E j \in DOMAIN vs : vs[j].name = x
    <3>1. CASE x = m
      BY <1>2, <1>3, <3>1
    <3>2. CASE x # m
      <4>1. PICK j \in DOMAIN ts : ts[j].name = x
        BY <1>4, <1>6, <3>2 DEF HasTables
      <4>2. j # i
        BY <1>6, <4>1
      <4> QED
        BY <1>3, <4>1, <4>2
    <3> QED
      BY <3>1, <3>2
  <2>2. ASSUME NEW j \in DOMAIN vs PROVE vs[j].name \in DOMAIN f
    <3>1. CASE j = i
      BY <1>2, <1>3, <1>6, <1>7, <3>1
    <3>2. CASE j # i
      <4>1. vs[j].name = ts[j].name /\ ts[j].name # n /\ ts[j].name \in DOMAIN g
        BY <1>3, <1>4, <1>5, <3>2 DEF HasTables
      <4> QED
        BY <1>6, <4>1
    <3> QED
      BY <3>1, <3>2
  <2> QED
    BY <2>1, <2>2
<1>9. \A j \in DOMAIN vs : f[vs[j].name] = TableStore(vs[j])
  <2> SUFFICES ASSUME NEW j \in DOMAIN vs PROVE f[vs[j].name] = TableStore(vs[j])
    OBVIOUS
  <2>1. CASE j = i
    <3>1. g[n] = TableStore(ts[i])
      BY <1>4 DEF HasTables
    <3> QED
      BY <1>2, <1>3, <1>6, <1>7, <2>1, <3>1
  <2>2. CASE j # i
    <3>1. vs[j] = ts[j] /\ ts[j].name \in DOMAIN g \ {m, n}
      BY <1>3, <1>4, <1>5, <2>2 DEF HasTables
    <3> QED
      BY <1>3, <1>4, <1>6, <3>1 DEF HasTables
  <2> QED
    BY <2>1, <2>2
<1>10. HasTables(f, vs)
  BY <1>6, <1>8, <1>9 DEF HasTables
<1>11. InMemory(vs) = f
  BY <1>10, StoreIs
<1> QED
  BY <1>11 DEF f, g, h

\* A store that has the keys of the rows is that of the table.
LEMMA TableStoreIs ==
    ASSUME NEW t, TableInv(t), NEW f, HasKeys(f, t)
    PROVE  TableStore(t) = f
<1> DEFINE g == TableStore(t)
<1>1. HasKeys(g, t)
  BY KeysOfTable
<1> HIDE DEF g
<1>2. DOMAIN g = DOMAIN f
  BY <1>1 DEF HasKeys
<1>3. \A k \in DOMAIN g : g[k] = f[k]
  BY <1>1 DEF HasKeys
<1>4. g = [k \in DOMAIN g |-> g[k]] /\ f = [k \in DOMAIN g |-> f[k]]
  BY <1>1, <1>2 DEF HasKeys
<1>5. g = f
  BY <1>3, <1>4, SameFunction
<1> QED
  BY <1>5 DEF g

\* Row r alone differs in u, or is new.
OneRow(u, t, r) ==
    /\ r \in DOMAIN u.rows /\ DOMAIN t.rows \subseteq DOMAIN u.rows
    /\ \A q \in DOMAIN u.rows \ {r} : q \in DOMAIN t.rows /\ u.rows[q] = t.rows[q]
    /\ r \in DOMAIN t.rows => KeyOf(u, r) = KeyOf(t, r)

\* A row that is written or made.
LEMMA PutRow ==
    ASSUME NEW t, TableInv(t), NEW u, TableInv(u), NEW r, OneRow(u, t, r)
    PROVE  /\ TableStore(u) = Store!Put(TableStore(t), KeyOf(u, r), RowStore(u.rows[r].fields))
           /\ r \notin DOMAIN t.rows => KeyOf(u, r) \notin DOMAIN TableStore(t)
<1> DEFINE g == TableStore(t)
           k == KeyOf(u, r)
           row == RowStore(u.rows[r].fields)
           f == Store!Put(g, k, row)
<1>1. HasKeys(g, t)
  BY KeysOfTable
<1>2. \A q \in DOMAIN u.rows \ {r} : q \in DOMAIN t.rows /\ KeyOf(t, q) = KeyOf(u, q)
  BY DEF OneRow, KeyOf
<1>3. \A q \in DOMAIN u.rows \ {r} : KeyOf(u, q) # k
  BY DEF OneRow, TableInv, Keyed
<1> HIDE DEF g
<1>4. r \notin DOMAIN t.rows => k \notin DOMAIN g
  BY <1>1, <1>2, <1>3 DEF HasKeys, OneRow
<1>5. /\ f = [x \in DOMAIN f |-> f[x]] /\ DOMAIN f = DOMAIN g \cup {k}
      /\ f[k] = row /\ \A x \in DOMAIN g \ {k} : f[x] = g[x]
  BY DEF Store!Put
<1> HIDE DEF f
<1>6. \A x : x \in DOMAIN f <=> \E q \in DOMAIN u.rows : KeyOf(u, q) = x
  <2>1. ASSUME NEW x \in DOMAIN f PROVE \E q \in DOMAIN u.rows : KeyOf(u, q) = x
    <3>1. CASE x = k
      BY <3>1 DEF OneRow
    <3>2. CASE x # k
      <4>1. PICK q \in DOMAIN t.rows : KeyOf(t, q) = x
        BY <1>1, <1>5, <3>2 DEF HasKeys
      <4>2. q # r
        BY <3>2, <4>1 DEF OneRow
      <4> QED
        BY <1>2, <4>1, <4>2 DEF OneRow
    <3> QED
      BY <3>1, <3>2
  <2>2. ASSUME NEW q \in DOMAIN u.rows PROVE KeyOf(u, q) \in DOMAIN f
    BY <1>1, <1>2, <1>5 DEF HasKeys
  <2> QED
    BY <2>1, <2>2
<1>7. ASSUME NEW q \in DOMAIN u.rows PROVE f[KeyOf(u, q)] = RowStore(u.rows[q].fields)
  <2>1. CASE q = r
    BY <1>5, <2>1
  <2>2. CASE q # r
    <3>1. KeyOf(u, q) = KeyOf(t, q) /\ q \in DOMAIN t.rows /\ KeyOf(u, q) # k /\ u.rows[q] = t.rows[q]
      BY <1>2, <1>3, <2>2 DEF OneRow
    <3>2. KeyOf(t, q) \in DOMAIN g /\ g[KeyOf(t, q)] = RowStore(t.rows[q].fields)
      BY <1>1, <3>1 DEF HasKeys
    <3> QED
      BY <1>5, <3>1, <3>2
  <2> QED
    BY <2>1, <2>2
<1>8. HasKeys(f, u)
  BY <1>5, <1>6, <1>7 DEF HasKeys
<1>9. TableStore(u) = f
  BY <1>8, TableStoreIs
<1> QED
  BY <1>4, <1>9 DEF f, g, k, row

\* A row that is deleted.
LEMMA DeletedRow ==
    ASSUME NEW t, TableInv(t), NEW r \in DOMAIN t.rows, NEW u, TableInv(u), u.rows = RemoveAt(t.rows, r)
    PROVE  TableStore(u) = Store!Without(TableStore(t), KeyOf(t, r))
<1> DEFINE g == TableStore(t)
           k == KeyOf(t, r)
           f == Store!Without(g, k)
           m == Len(t.rows)
           from(i) == IF i < r THEN i ELSE i + 1
           to(j) == IF j < r THEN j ELSE j - 1
<1>1. t.rows \in Seq(RowType) /\ DOMAIN t.rows = 1..m /\ m \in Nat /\ r \in 1..m
  <2>1. t.rows \in Seq(RowType)
    BY DEF TableInv, TableType
  <2> QED
    BY <2>1
<1>2. DOMAIN u.rows = 1..(m - 1) /\ \A i \in 1..(m - 1) : u.rows[i] = t.rows[from(i)]
  <2>1. /\ u.rows \in Seq(RowType) /\ Len(u.rows) = m - 1
        /\ \A i \in 1..(m - 1) : u.rows[i] = IF i < r THEN t.rows[i] ELSE t.rows[i + 1]
    BY <1>1, RemoveAtPlaces
  <2> HIDE DEF m
  <2> QED
    BY <2>1
<1>3. \A i \in DOMAIN u.rows : /\ from(i) \in DOMAIN t.rows \ {r} /\ u.rows[i] = t.rows[from(i)]
                               /\ KeyOf(u, i) = KeyOf(t, from(i))
  BY <1>1, <1>2 DEF KeyOf
<1>4. \A j \in DOMAIN t.rows \ {r} : to(j) \in DOMAIN u.rows /\ u.rows[to(j)] = t.rows[j]
                                     /\ KeyOf(u, to(j)) = KeyOf(t, j)
  BY SMTT(40), <1>1, <1>2 DEF KeyOf
<1>5. HasKeys(g, t)
  BY KeysOfTable
<1>6. \A j \in DOMAIN t.rows \ {r} : KeyOf(t, j) # k
  BY DEF TableInv, Keyed
<1> HIDE DEF g, from, to
<1>7. /\ f = [x \in DOMAIN f |-> f[x]] /\ DOMAIN f = DOMAIN g \ {k}
      /\ \A x \in DOMAIN g \ {k} : f[x] = g[x]
  BY DEF Store!Without
<1> HIDE DEF f
<1>8. \A x : x \in DOMAIN f <=> \E i \in DOMAIN u.rows : KeyOf(u, i) = x
  <2>1. ASSUME NEW x \in DOMAIN f PROVE \E i \in DOMAIN u.rows : KeyOf(u, i) = x
    <3>1. PICK j \in DOMAIN t.rows : KeyOf(t, j) = x
      BY <1>5, <1>7 DEF HasKeys
    <3> QED
      BY <1>4, <1>7, <3>1
  <2>2. ASSUME NEW i \in DOMAIN u.rows PROVE KeyOf(u, i) \in DOMAIN f
    BY <1>3, <1>5, <1>6, <1>7 DEF HasKeys
  <2> QED
    BY <2>1, <2>2
<1>9. \A i \in DOMAIN u.rows : f[KeyOf(u, i)] = RowStore(u.rows[i].fields)
  BY <1>3, <1>5, <1>6, <1>7 DEF HasKeys
<1>10. HasKeys(f, u)
  BY <1>7, <1>8, <1>9 DEF HasKeys
<1>11. TableStore(u) = f
  BY <1>10, TableStoreIs
<1> QED
  BY <1>11 DEF f, g, k
-----------------------------------------------------------------------------
(* What each step does to the store.                                         *)

\* No table has fields behind its last column.
TrimInv == \A i \in DOMAIN tables : Trim(tables[i])

\* A call that leaves the process, the files and the records alone.
Alone == UNCHANGED <<phase, file, held>>

\* The store sees no step, or one on its tables.
TablesMap == (UNCHANGED Store!vars \/ Store!StoreStep) /\ TrimInv'

\* What the store sees of such a call is what it does to the tables.
LEMMA AloneMaps ==
    ASSUME Alone
    PROVE  /\ UNCHANGED <<(phase = "up"), Copies(file["path"]), Copies(file["bak"]), Records(held)>>
           /\ InMemory(tables') = InMemory(tables) => UNCHANGED Store!vars
  BY DEF Alone, Store!vars

\* A table whose rows stay is the same table of the store.
LEMMA ReshapedMaps ==
    ASSUME TablesInv(tables), TrimInv, Alone, Reshaped
    PROVE  TablesMap
<1>1. PICK i \in DOMAIN tables : \E u :
        tables' = [tables EXCEPT ![i] = u] /\ TableInv(u) /\ Reshapes(u, tables[i])
  BY DEF Reshaped
<1>2. PICK u : tables' = [tables EXCEPT ![i] = u] /\ TableInv(u) /\ Reshapes(u, tables[i])
  BY <1>1
<1>3. TablesInv(tables')
  BY ReshapedKeeps DEF Kept
<1>4. DOMAIN tables' = DOMAIN tables /\ \A j \in DOMAIN tables : tables'[j] = IF j = i THEN u ELSE tables[j]
  BY <1>2
<1>5. \A j \in DOMAIN tables : tables'[j].name = tables[j].name /\ tables'[j].rows = tables[j].rows
  BY <1>2, <1>4 DEF Reshapes
<1>6. InMemory(tables') = InMemory(tables)
  BY <1>3, <1>4, <1>5, SameStore
<1>7. Trim(u)
  <2>1. u.rows = <<>> => DOMAIN u.rows = {}
    OBVIOUS
  <2> QED
    BY <1>2, <2>1 DEF TrimInv, Trim, Reshapes
<1>8. TrimInv'
  BY <1>4, <1>7 DEF TrimInv
<1> QED
  BY <1>6, <1>8, AloneMaps DEF TablesMap

\* mdbAddTable is the operation of the store.
LEMMA AddTableMaps ==
    ASSUME TablesInv(tables), TrimInv, Alone, NEW n \in Names, mdbAddTable(n)
    PROVE  TablesMap
<1>1. phase = "up" /\ tables' = Append(tables, NewTable(n)) /\ lookupTable(n) = 0
  BY DEF mdbAddTable, Change
<1>2. \A j \in DOMAIN tables : tables[j].name # n
  BY <1>1, TableFound
<1>3. TablesInv(tables')
  BY <1>1, <1>2, NewTableKeeps
<1>4. InMemory(tables') = Store!Put(InMemory(tables), n, <<>>)
  BY <1>1, <1>3, AddedTable
<1>5. n \notin DOMAIN InMemory(tables)
  BY <1>2, StoreOfTables DEF HasTables
<1>6. Store!AddTable(n)
  BY <1>1, <1>4, <1>5 DEF Store!AddTable, Store!Empty
<1>7. TrimInv'
  <2>1. tables \in Seq(TableType)
    BY DEF TablesInv
  <2>2. \A j \in DOMAIN tables' : IF j \in DOMAIN tables THEN tables'[j] = tables[j] ELSE tables'[j] = NewTable(n)
    BY <1>1, <2>1
  <2>3. Trim(NewTable(n))
    BY DEF Trim, NewTable
  <2> QED
    BY <2>2, <2>3 DEF TrimInv
<1> QED
  BY <1>6, <1>7, AloneMaps DEF TablesMap, Store!StoreStep

\* So is mdbRemoveTable.
LEMMA RemoveTableMaps ==
    ASSUME TablesInv(tables), TrimInv, Alone, NEW n \in Names, mdbRemoveTable(n)
    PROVE  TablesMap
<1>1. PICK i \in DOMAIN tables : Locked(n, i) /\ tables' = RemoveAt(tables, i)
  BY DEF mdbRemoveTable, Change
<1>2. phase = "up" /\ tables[i].name = n
  BY <1>1, TableFound DEF Locked
<1>3. TablesInv(tables')
  BY <1>1, RemoveTableKeeps
<1>4. InMemory(tables') = Store!Without(InMemory(tables), n)
  BY <1>1, <1>2, <1>3, RemovedTable
<1>5. n \in DOMAIN InMemory(tables)
  BY <1>2, StoreOfTables DEF HasTables
<1>6. Store!RemoveTable(n)
  BY <1>2, <1>4, <1>5 DEF Store!RemoveTable
<1>7. TrimInv'
  <2>1. tables \in Seq(TableType) /\ i \in 1..Len(tables) /\ DOMAIN tables = 1..Len(tables) /\ Len(tables) \in Nat
    BY SMTT(40) DEF TablesInv
  <2>2. /\ tables' \in Seq(TableType) /\ Len(tables') = Len(tables) - 1
        /\ \A j \in 1..(Len(tables) - 1) : tables'[j] = IF j < i THEN tables[j] ELSE tables[j + 1]
    BY <1>1, <2>1, RemoveAtPlaces
  <2>3. \A j \in DOMAIN tables' : \E k \in DOMAIN tables : tables'[j] = tables[k]
    BY <2>1, <2>2
  <2> QED
    BY <2>3 DEF TrimInv
<1> QED
  BY <1>6, <1>7, AloneMaps DEF TablesMap, Store!StoreStep

\* And mdbRenameTable.
LEMMA RenameTableMaps ==
    ASSUME intact', TablesInv(tables), TrimInv, Alone, NEW n \in Names, NEW m \in Names,
           mdbRenameTable(n, m)
    PROVE  TablesMap
<1>1. PICK i \in DOMAIN tables :
        /\ Locked(n, i)
        /\ Copes(lookupTable(m) = 0)
        /\ tables' = [tables EXCEPT ![i] = [tables[i] EXCEPT !.name = m]]
  BY DEF mdbRenameTable, Change
<1>2. phase = "up" /\ tables[i].name = n /\ TableInv(tables[i])
  BY <1>1, TableFound DEF Locked
<1>3. \A j \in DOMAIN tables : tables[j].name # m
  BY <1>1, TableFound DEF Copes
<1>4. TablesInv(tables')
  BY <1>1, <1>3, NewNameKeeps
<1>5. InMemory(tables') = Store!Without(Store!Put(InMemory(tables), m, InMemory(tables)[n]), n)
  BY <1>1, <1>2, <1>3, <1>4, RenamedTable
<1>6. n \in DOMAIN InMemory(tables) /\ m \notin DOMAIN InMemory(tables)
  BY <1>2, <1>3, StoreOfTables DEF HasTables
<1>7. Store!RenameTable(n, m)
  BY <1>2, <1>5, <1>6 DEF Store!RenameTable
<1>8. TrimInv'
  <2> DEFINE u == [tables[i] EXCEPT !.name = m]
  <2>1. u.rows = tables[i].rows /\ u.cols = tables[i].cols
    BY <1>2 DEF TableInv, TableType
  <2>2. Trim(u)
    BY <2>1 DEF TrimInv, Trim
  <2>3. tables' = [tables EXCEPT ![i] = u]
    BY <1>1
  <2> HIDE DEF u
  <2>4. DOMAIN tables' = DOMAIN tables /\ \A j \in DOMAIN tables : tables'[j] = IF j = i THEN u ELSE tables[j]
    BY <2>3
  <2> QED
    BY <2>2, <2>4 DEF TrimInv
<1> QED
  BY <1>7, <1>8, AloneMaps DEF TablesMap, Store!StoreStep

\* The operations on tables are those of the store, which does not see columns.
LEMMA SchemaMaps ==
    ASSUME intact', TablesInv(tables), TrimInv, Schema
    PROVE  TablesMap
<1>0. Alone
  <2>1. UNCHANGED <<phase, file>>
    BY SchemaCalls DEF Calls, fileVars
  <2>2. UNCHANGED held
    BY SchemaKeeps DEF Kept
  <2> QED
    BY <2>1, <2>2 DEF Alone
<1>1. ASSUME NEW n \in Names, mdbAddTable(n) PROVE TablesMap
  BY <1>0, <1>1, AddTableMaps
<1>2. ASSUME NEW n \in Names, mdbRemoveTable(n) PROVE TablesMap
  BY <1>0, <1>2, RemoveTableMaps
<1>3. ASSUME NEW n \in Names, NEW c \in ColNames, mdbChangeColumn(n, c) PROVE TablesMap
  <2>1. tables' = tables
    BY <1>3 DEF mdbChangeColumn, Change
  <2>2. TrimInv'
    BY <2>1 DEF TrimInv
  <2> QED
    BY <1>0, <2>1, <2>2, AloneMaps DEF TablesMap
<1>4. ASSUME NEW n \in Names, mdbRemoveIndex(n) PROVE TablesMap
  BY <1>0, <1>4, RemoveIndexStep, ReshapedMaps
<1>5. ASSUME NEW n \in Names, NEW m \in Names, mdbRenameTable(n, m) PROVE TablesMap
  BY <1>0, <1>5, RenameTableMaps
<1>6. ASSUME NEW n \in Names, NEW c \in ColNames, mdbRemoveColumn(n, c) PROVE TablesMap
  BY <1>0, <1>6, RemoveColumnStep, ReshapedMaps
<1>7. ASSUME NEW n \in Names, NEW c \in ColNames, mdbAddIndex(n, c) PROVE TablesMap
  BY <1>0, <1>7, AddIndexStep, ReshapedMaps
<1>8. ASSUME NEW n \in Names, NEW c \in ColNames, mdbAddValidation(n, c) PROVE TablesMap
  BY <1>0, <1>8, AddValidationStep, ReshapedMaps
<1>9. ASSUME NEW n \in Names, NEW c \in ColNames, NEW f \in SUBSET Flags, mdbAddColumn(n, c, f)
      PROVE  TablesMap
  BY <1>0, <1>9, AddColumnStep, ReshapedMaps
<1>10. ASSUME NEW n \in Names, NEW c \in ColNames, NEW d \in ColNames, mdbRenameColumn(n, c, d)
       PROVE  TablesMap
  BY <1>0, <1>10, RenameColumnStep, ReshapedMaps
<1> QED
  BY <1>1, <1>2, <1>3, <1>4, <1>5, <1>6, <1>7, <1>8, <1>9, <1>10 DEF Schema

\* A request takes a record.
LEMMA RecordTaken ==
    ASSUME HeldInv, NEW t \in Requests, NEW rec, rec # None, held' = [held EXCEPT ![t] = rec]
    PROVE  Records(held') = Store!Put(Records(held), t, RecordOf(rec))
<1> DEFINE g == Records(held)
           f == Store!Put(g, t, RecordOf(rec))
           h == Records(held')
<1>1. \A q \in Requests : held'[q] = IF q = t THEN rec ELSE held[q]
  BY DEF HeldInv
<1>2. /\ DOMAIN g = {q \in Requests : held[q] # None}
      /\ \A q \in DOMAIN g : g[q] = RecordOf(held[q])
  BY DEF Records
<1>3. /\ h = [q \in DOMAIN h |-> h[q]] /\ DOMAIN h = {q \in Requests : held'[q] # None}
      /\ \A q \in DOMAIN h : h[q] = RecordOf(held'[q])
  BY DEF Records
<1> HIDE DEF g, h
<1>4. /\ f = [q \in DOMAIN f |-> f[q]] /\ DOMAIN f = DOMAIN g \cup {t}
      /\ f[t] = RecordOf(rec) /\ \A q \in DOMAIN g \ {t} : f[q] = g[q]
  BY DEF Store!Put
<1> HIDE DEF f
<1>5. DOMAIN h = DOMAIN f
  BY <1>1, <1>2, <1>3, <1>4
<1>6. \A q \in DOMAIN f : h[q] = f[q]
  BY <1>1, <1>2, <1>3, <1>4, <1>5
<1>7. h = [q \in DOMAIN f |-> h[q]]
  BY <1>3, <1>5
<1>8. h = f
  BY <1>4, <1>6, <1>7, SameFunction
<1> QED
  BY <1>8 DEF f, g, h

\* A request has no record, or loses the one it had.
LEMMA RecordLost ==
    ASSUME HeldInv, NEW t \in Requests, held' = [held EXCEPT ![t] = None]
    PROVE  Records(held') = Store!Without(Records(held), t)
<1> DEFINE g == Records(held)
           f == Store!Without(g, t)
           h == Records(held')
<1>1. \A q \in Requests : held'[q] = IF q = t THEN None ELSE held[q]
  BY DEF HeldInv
<1>2. /\ DOMAIN g = {q \in Requests : held[q] # None}
      /\ \A q \in DOMAIN g : g[q] = RecordOf(held[q])
  BY DEF Records
<1>3. /\ h = [q \in DOMAIN h |-> h[q]] /\ DOMAIN h = {q \in Requests : held'[q] # None}
      /\ \A q \in DOMAIN h : h[q] = RecordOf(held'[q])
  BY DEF Records
<1> HIDE DEF g, h
<1>4. /\ f = [q \in DOMAIN f |-> f[q]] /\ DOMAIN f = DOMAIN g \ {t}
      /\ \A q \in DOMAIN g \ {t} : f[q] = g[q]
  BY DEF Store!Without
<1> HIDE DEF f
<1>5. DOMAIN h = DOMAIN f
  BY <1>1, <1>2, <1>3, <1>4
<1>6. \A q \in DOMAIN f : h[q] = f[q]
  BY <1>1, <1>2, <1>3, <1>4, <1>5
<1>7. h = [q \in DOMAIN f |-> h[q]]
  BY <1>3, <1>5
<1>8. h = f
  BY <1>4, <1>6, <1>7, SameFunction
<1> QED
  BY <1>8 DEF f, g, h

\* A record is not the absence of one (createRecFromRow allocates it).
LEMMA RecIsSome == \A rec : RecInv(rec) => rec # None
  BY NoneAssumption DEF RecInv

\* The row of the store that a row of a table is found as.
LEMMA RowFound ==
    ASSUME TablesInv(tables), NEW i \in DOMAIN tables
    PROVE  /\ tables[i].name \in DOMAIN InMemory(tables)
           /\ HasKeys(InMemory(tables)[tables[i].name], tables[i])
<1>1. HasTables(InMemory(tables), tables)
  BY StoreOfTables
<1>2. TableInv(tables[i])
  BY DEF TablesInv
<1> DEFINE f == InMemory(tables)[tables[i].name]
           t == tables[i]
<1>3. f = TableStore(t)
  BY <1>1 DEF HasTables
<1> HIDE DEF f, t
<1>4. HasKeys(f, t)
  BY <1>2, <1>3, KeysOfTable DEF t
<1> QED
  BY <1>1, <1>4 DEF HasTables, f, t

\* A record that is read is a copy of its row (createRecFromRow).
LEMMA HoldMaps ==
    ASSUME TablesInv(tables), HeldInv, NEW t \in Requests, NEW i \in DOMAIN tables, NEW r,
           Hold(t, tables[i], r)
    PROVE  IF r \in DOMAIN tables[i].rows
           THEN Store!Hold(t, tables[i].name, KeyOf(tables[i], r))
           ELSE Store!Drop(t)
<1> DEFINE tb == tables[i]
<1>1. TableInv(tb)
  BY DEF TablesInv
<1>2. CASE r \notin DOMAIN tb.rows
  <2>1. held' = [held EXCEPT ![t] = None]
    BY <1>2 DEF Hold
  <2>2. Records(held') = Store!Without(Records(held), t)
    BY <2>1, RecordLost
  <2> QED
    BY <1>2, <2>2 DEF Store!Drop
<1>3. CASE r \in DOMAIN tb.rows
  <2> DEFINE rec == RecOf(tb, r)
             n == tb.name
             k == KeyOf(tb, r)
             w == tb.rows[r].nfields
             row == [c \in 1..w |-> InMemory(tables)[n][k][c]]
  <2>1. held' = [held EXCEPT ![t] = rec] /\ w <= Len(tb.cols)
    BY <1>3 DEF Hold
  <2>2. RecInv(rec)
    BY <1>1, <1>3, <2>1, RecOfRow
  <2>3. InMemory(tables)[n][k] = RowStore(tb.rows[r].fields)
    BY <1>3, RowFound DEF HasKeys
  <2>4. /\ w \in 1..MaxCols /\ MaxCols \in Nat /\ Len(tb.cols) \in Nat /\ DOMAIN tb.cols = 1..Len(tb.cols)
        /\ \A c \in DOMAIN tb.cols : tb.cols[c].cid = c
    <3>1. tb \in TableType /\ tb.rows[r] \in RowType
      BY <1>1, <1>3, LengthsOfTables DEF TableInv
    <3>2. Len(tb.cols) \in Nat /\ Len(tb.cols) <= MaxCols /\ MaxCols \in Nat
      BY <1>1, <3>1, LengthsOfTables, MdbAssumption DEF TableInv, Columns, Schemed
    <3>3. w \in Nat \ {0}
      BY <3>1 DEF RowType
    <3> QED
      BY <1>1, <2>1, <3>1, <3>2, <3>3, LengthsOfTables DEF TableInv, Columns
  <2>5. /\ rec.table = n /\ rec.id = k
        /\ rec.fields = [c \in 1..w |-> tb.rows[r].fields[tb.cols[c].cid]]
    BY SMTT(40) DEF RecOf, KeyOf
  <2> HIDE DEF tb, rec, n, k, w
  <2>6. \A c \in 1..w : c \in 1..MaxCols /\ rec.fields[c] = tb.rows[r].fields[c]
    BY <2>1, <2>4, <2>5 DEF w
  <2>7. \A c \in 1..w : Clean(rec.fields[c]) = InMemory(tables)[n][k][c]
    BY <2>3, <2>6 DEF RowStore
  <2>8. DOMAIN rec.fields = 1..w
    BY SMTT(40), <2>5
  <2>9. RecordOf(rec) = [table |-> n, key |-> k, row |-> row]
    BY <2>5, <2>7, <2>8 DEF RecordOf
  <2>10. Records(held') = Store!Put(Records(held), t, RecordOf(rec))
    BY <2>1, <2>2, RecIsSome, RecordTaken
  <2>11. Store!Hold(t, n, k)
    BY <2>4, <2>9, <2>10 DEF Store!Hold
  <2> QED
    BY <1>3, <2>11 DEF tb, n, k
<1> QED
  BY <1>2, <1>3

\* A call that changes records alone is a step on the records of the store.
LEMMA HeldMaps ==
    ASSUME UNCHANGED <<phase, file, tables>>
    PROVE  UNCHANGED <<(phase = "up"), Copies(file["path"]), Copies(file["bak"]), InMemory(tables)>>
  OBVIOUS

\* mdbCreateRec makes a record of as many fields as there are columns.
LEMMA CreateRecMaps ==
    ASSUME TablesInv(tables), HeldInv, NEW t \in Requests, NEW n \in Names, mdbCreateRec(t, n)
    PROVE  Store!CreateRec(t, n)
<1> DEFINE i == lookupTable(n)
           w == Len(tables[i].cols)
           fields == [c \in DOMAIN tables[i].cols |-> Null]
           rec == [table |-> n, id |-> Null, fields |-> fields]
<1>1. phase = "up" /\ i # 0 /\ tables[i].cols # <<>> /\ held' = [held EXCEPT ![t] = rec]
  BY DEF mdbCreateRec
<1>2. i \in DOMAIN tables /\ tables[i].name = n
  BY <1>1, TableFound
<1>3. w \in 1..MaxCols /\ DOMAIN tables[i].cols = 1..w
  <2>1. /\ tables[i].cols \in Seq(ColType) /\ Len(tables[i].cols) <= MaxCols
    BY <1>2 DEF TablesInv, TableInv, TableType, Columns, Schemed
  <2>2. w \in Nat \ {0}
    BY <1>1, <2>1
  <2> QED
    BY <2>1, <2>2, MdbAssumption
<1>4. RecordOf(rec) = [table |-> n, key |-> Null, row |-> [c \in 1..w |-> Null]]
  <2>1. rec.table = n /\ rec.id = Null /\ rec.fields = fields
    OBVIOUS
  <2>2. fields = [c \in 1..w |-> Null]
    BY <1>3
  <2> HIDE DEF fields, rec, w
  <2> QED
    BY <2>1, <2>2 DEF RecordOf, Clean
<1>5. rec # None
  <2>1. Null \in Fields /\ fields \in Seq(Fields)
    BY <1>3 DEF Fields
  <2> HIDE DEF fields
  <2>2. rec \in RecType
    BY <2>1 DEF RecType
  <2> QED
    BY <2>2, NoneAssumption
<1> HIDE DEF rec
<1>6. Records(held') = Store!Put(Records(held), t, RecordOf(rec))
  BY <1>1, <1>5, RecordTaken
<1>7. n \in DOMAIN InMemory(tables)
  BY <1>2, RowFound
<1> QED
  BY <1>1, <1>3, <1>4, <1>6, <1>7 DEF Store!CreateRec

\* mdbReadRec finds the row of the key, through the index or not.
LEMMA ReadRecMaps ==
    ASSUME TablesInv(tables), HeldInv, NEW t \in Requests, NEW n \in Names, NEW k \in Ids,
           mdbReadRec(t, n, k)
    PROVE  Store!ReadRec(t, n, k)
<1>1. PICK i \in DOMAIN tables : Locked(n, i) /\ Hold(t, tables[i], lookupRow(tables[i], k))
  BY DEF mdbReadRec
<1> DEFINE tb == tables[i]
           r == lookupRow(tb, k)
<1>2. phase = "up" /\ tb.name = n /\ TableInv(tb)
  BY <1>1, TableFound DEF Locked
<1>3. n \in DOMAIN InMemory(tables) /\ HasKeys(InMemory(tables)[n], tb)
  BY <1>2, RowFound
<1>4. IF r \in DOMAIN tb.rows THEN Store!Hold(t, n, KeyOf(tb, r)) ELSE Store!Drop(t)
  BY <1>1, <1>2, HoldMaps
<1>5. \/ r = 0 /\ \A q \in DOMAIN tb.rows : KeyOf(tb, q) # k
      \/ r \in DOMAIN tb.rows /\ KeyOf(tb, r) = k
  <2> HIDE DEF tb
  <2> QED
    BY <1>2, LookupFinds
<1>6. 0 \notin DOMAIN tb.rows
  BY <1>2, LengthsOfTables DEF TableInv
<1> HIDE DEF tb, r
<1>7. k \in DOMAIN InMemory(tables)[n] <=> r \in DOMAIN tb.rows
  BY <1>3, <1>5, <1>6 DEF HasKeys
<1>8. IF k \in DOMAIN InMemory(tables)[n] THEN Store!Hold(t, n, k) ELSE Store!Drop(t)
  BY <1>4, <1>5, <1>6, <1>7
<1> QED
  BY <1>2, <1>3, <1>8 DEF Store!ReadRec

\* ediReadOneWhere finds a row with the value, if there is one.
LEMMA ReadOneWhereMaps ==
    ASSUME TablesInv(tables), HeldInv, NEW t \in Requests, NEW n \in Names, NEW c \in ColNames,
           NEW v \in Values, ediReadOneWhere(t, n, c, v)
    PROVE  \E s \in 1..MaxCols : Store!ReadOneWhere(t, n, s, v)
<1>1. PICK i \in DOMAIN tables :
        LET s == lookupColumn(tables[i], c)
        IN  Locked(n, i) /\ s # 0 /\ Hold(t, tables[i], FirstIn(matchRow(tables[i], s, v)))
  BY DEF ediReadOneWhere
<1> DEFINE tb == tables[i]
           s == lookupColumn(tb, c)
           r == FirstIn(matchRow(tb, s, v))
           store == InMemory(tables)[n]
           found == {k \in DOMAIN store : store[k][s] = v}
<1>2. phase = "up" /\ tb.name = n /\ TableInv(tb)
  BY <1>1, TableFound DEF Locked
<1>3. n \in DOMAIN InMemory(tables) /\ HasKeys(store, tb)
  BY <1>2, RowFound
<1>4. IF r \in DOMAIN tb.rows THEN Store!Hold(t, n, KeyOf(tb, r)) ELSE Store!Drop(t)
  BY <1>1, <1>2, HoldMaps
<1>5. s \in 1..MaxCols /\ tb.cols[s].cid = s
  <2>1. s \in DOMAIN tb.cols
    BY <1>1, <1>2, ColumnFound
  <2>2. DOMAIN tb.cols = 1..Len(tb.cols) /\ Len(tb.cols) \in Nat /\ Len(tb.cols) <= MaxCols /\ MaxCols \in Nat
    BY <1>2, LengthsOfTables, MdbAssumption DEF TableInv, Columns, Schemed
  <2> HIDE DEF s, tb
  <2> QED
    BY <1>2, <2>1, <2>2 DEF TableInv, Columns
<1>6. v # Null /\ \A x : Clean(x) = v <=> x = v
  BY MdbAssumption DEF Clean
<1>7. DOMAIN tb.rows \in SUBSET (Nat \ {0})
  BY <1>2, LengthsOfTables DEF TableInv
<1> HIDE DEF tb, s
<1>8. matchRow(tb, s, v) = {q \in DOMAIN tb.rows : tb.rows[q].fields[s] = v}
  BY <1>5, MdbAssumption DEF matchRow
<1>9. /\ FirstIn(matchRow(tb, s, v)) = 0 <=> matchRow(tb, s, v) = {}
      /\ matchRow(tb, s, v) # {} => FirstIn(matchRow(tb, s, v)) \in matchRow(tb, s, v)
  <2>1. matchRow(tb, s, v) \in SUBSET (Nat \ {0})
    BY <1>7, <1>8
  <2> QED
    BY <2>1, FirstInNats
<1> HIDE DEF store
<1>10. ASSUME NEW q \in DOMAIN tb.rows
       PROVE  KeyOf(tb, q) \in DOMAIN store /\ (store[KeyOf(tb, q)][s] = v <=> q \in matchRow(tb, s, v))
  <2>1. KeyOf(tb, q) \in DOMAIN store /\ store[KeyOf(tb, q)] = RowStore(tb.rows[q].fields)
    BY <1>3 DEF HasKeys
  <2>2. store[KeyOf(tb, q)][s] = Clean(tb.rows[q].fields[s])
    BY <1>5, <2>1 DEF RowStore
  <2> QED
    BY <1>6, <1>8, <2>1, <2>2
<1>11. IF found = {} THEN Store!Drop(t) ELSE \E k \in found : Store!Hold(t, n, k)
  <2>1. CASE matchRow(tb, s, v) = {}
    <3>1. found = {}
      BY <1>3, <1>10, <2>1 DEF HasKeys
    <3>2. r \notin DOMAIN tb.rows
      BY <1>7, <1>9, <2>1
    <3> QED
      BY <1>4, <3>1, <3>2
  <2>2. CASE matchRow(tb, s, v) # {}
    <3>1. r \in DOMAIN tb.rows /\ r \in matchRow(tb, s, v)
      BY <1>8, <1>9, <2>2
    <3>2. KeyOf(tb, r) \in found
      BY <1>10, <3>1
    <3> QED
      BY <1>4, <3>1, <3>2
  <2> QED
    BY <2>1, <2>2
<1>12. Store!ReadOneWhere(t, n, s, v)
  BY <1>2, <1>3, <1>11 DEF Store!ReadOneWhere, store
<1> QED
  BY <1>5, <1>12

\* ediSetField writes a field of a record, but not its key.
LEMMA SetFieldMaps ==
    ASSUME intact', HeldInv, NEW t \in Requests, NEW c \in 1..MaxCols, NEW v \in Values,
           ediSetField(t, c, v)
    PROVE  c \in 2..MaxCols /\ Store!SetField(t, c, v)
<1> DEFINE rec == held[t]
           fields == [rec.fields EXCEPT ![c] = v]
           new == [rec EXCEPT !.fields = fields]
           old == RecordOf(rec)
<1>1. rec # None /\ c \in DOMAIN rec.fields /\ RecInv(rec)
  BY DEF ediSetField, HeldInv
<1>2. c # 1 /\ c \in 2..MaxCols
  <2>1. c # 1
    BY DEF ediSetField, Copes
  <2> QED
    BY <2>1, MdbAssumption
<1>3. held' = [held EXCEPT ![t] = new]
  BY DEF ediSetField
<1>4. new # None
  <2>1. rec \in RecType /\ v \in Fields
    BY <1>1 DEF RecInv, Fields
  <2>2. fields \in Seq(Fields)
    BY <1>1, <2>1, ExceptSeq DEF RecType
  <2> HIDE DEF rec, fields
  <2>3. new \in RecType
    BY <2>1, <2>2 DEF RecType
  <2> QED
    BY <2>3, NoneAssumption
<1> HIDE DEF rec
<1>5. /\ new.table = rec.table /\ new.id = rec.id /\ new.fields = fields
  BY <1>1 DEF RecInv, RecType
<1>6. fields = [d \in DOMAIN rec.fields |-> IF d = c THEN v ELSE rec.fields[d]]
  OBVIOUS
<1> HIDE DEF new, fields
<1>7. Clean(v) = v
  BY MdbAssumption DEF Clean
<1>8. /\ old.row = [d \in DOMAIN rec.fields |-> Clean(rec.fields[d])]
      /\ old = [table |-> rec.table, key |-> rec.id, row |-> old.row]
  BY DEF RecordOf
<1>9. RecordOf(new) = [old EXCEPT !.row = [old.row EXCEPT ![c] = v]]
  <2>1. DOMAIN fields = DOMAIN rec.fields /\ \A d \in DOMAIN rec.fields : Clean(fields[d]) = IF d = c THEN v ELSE Clean(rec.fields[d])
    BY <1>6, <1>7
  <2>2. [d \in DOMAIN fields |-> Clean(fields[d])] = [old.row EXCEPT ![c] = v]
    <3> HIDE DEF old
    <3> QED
      BY <1>8, <2>1
  <2>3. RecordOf(new) = [table |-> rec.table, key |-> rec.id, row |-> [old.row EXCEPT ![c] = v]]
    <3> HIDE DEF old
    <3> QED
      BY <1>5, <2>2 DEF RecordOf
  <2> HIDE DEF old
  <2> QED
    BY <1>8, <2>3
<1>10. Records(held') = Store!Put(Records(held), t, RecordOf(new))
  BY <1>3, <1>4, RecordTaken
<1>11. t \in DOMAIN Records(held) /\ Records(held)[t] = old
  BY <1>1 DEF Records, rec
<1>12. c \in DOMAIN old.row
  BY <1>1, <1>8
<1>13. Records(held') = [Records(held) EXCEPT ![t].row[c] = v]
  <2> DEFINE g == Records(held)
  <2>1. g = [q \in DOMAIN g |-> g[q]]
    BY DEF Records
  <2> HIDE DEF g, old
  <2>2. Store!Put(g, t, RecordOf(new)) = [g EXCEPT ![t] = RecordOf(new)]
    BY <1>11, <2>1 DEF Store!Put, g
  <2> QED
    BY <1>9, <1>10, <1>11, <2>2 DEF g
<1> QED
  BY <1>2, <1>11, <1>12, <1>13 DEF Store!SetField

\* One table changes, and with it one table of the store.
LEMMA OneTableMaps ==
    ASSUME TablesInv(tables), TrimInv, NEW i \in DOMAIN tables, NEW u, TableInv(u), Trim(u),
           OneTable(tables', tables, i, u)
    PROVE  /\ TrimInv'
           /\ OneStore(InMemory(tables'), InMemory(tables), tables[i].name, TableStore(u))
           /\ tables[i].name \in DOMAIN InMemory(tables)
           /\ InMemory(tables)[tables[i].name] = TableStore(tables[i])
<1>1. tables' = [tables EXCEPT ![i] = u] /\ u.name = tables[i].name
  BY DEF OneTable
<1>2. TablesInv(tables')
  BY <1>1, SetOne
<1>3. OneStore(InMemory(tables'), InMemory(tables), tables[i].name, TableStore(u))
  BY <1>2, OneTableStore
<1>4. DOMAIN tables' = DOMAIN tables /\ \A j \in DOMAIN tables : tables'[j] = IF j = i THEN u ELSE tables[j]
  BY <1>1
<1>5. TrimInv'
  BY <1>4 DEF TrimInv
<1>6. HasTables(InMemory(tables), tables)
  BY StoreOfTables
<1> QED
  BY <1>3, <1>5, <1>6 DEF HasTables

\* A record that a row takes is merged with it.
LEMMA TakesMerges ==
    ASSUME NEW t, TableInv(t), Trim(t), NEW rec, RecInv(rec), Len(rec.fields) <= Len(t.cols),
           NEW u, TableInv(u), NEW r, Takes(u, t, r, rec)
    PROVE  LET k == KeyOf(u, r)
               store == TableStore(t)
               row == RecordOf(rec).row
               old == IF k \in DOMAIN store THEN store[k] ELSE Store!Blank
               new == IF rec.id = Null THEN [row EXCEPT ![1] = k] ELSE row
           IN  /\ TableStore(u) = Store!Put(store, k, Store!Merge(old, new))
               /\ rec.id = Null => k \in Ids \ DOMAIN store
               /\ rec.id # Null => k = rec.id
               /\ Trim(u)
<1> DEFINE k == KeyOf(u, r)
           store == TableStore(t)
           row == RecordOf(rec).row
           old == IF k \in DOMAIN store THEN store[k] ELSE Store!Blank
           new == IF rec.id = Null THEN [row EXCEPT ![1] = k] ELSE row
<1>1. /\ rec.fields \in Seq(Fields) /\ rec.fields # <<>> /\ rec.fields[1] = rec.id
      /\ DOMAIN rec.fields = 1..Len(rec.fields) /\ Len(rec.fields) \in Nat \ {0}
  <2>1. rec.fields \in Seq(Fields) /\ rec.fields # <<>> /\ rec.fields[1] = rec.id
    BY DEF RecInv, RecType
  <2> QED
    BY <2>1
<1>2. MaxCols \in Nat /\ 2 <= MaxCols /\ Len(rec.fields) <= MaxCols /\ Len(t.cols) \in Nat /\ Len(t.cols) <= MaxCols
  <2>1. t \in TableType /\ Len(t.cols) <= MaxCols
    BY DEF TableInv, Columns, Schemed
  <2> QED
    BY <1>1, <2>1, LengthsOfTables, MdbAssumption
<1>3. k \in Ids /\ k # Null
  BY KeysAreIds DEF Takes
<1>4. r \in DOMAIN t.rows => KeyOf(t, r) = rec.id /\ rec.id # Null
  BY KeysAreIds DEF Takes
<1>5. rec.id # Null => k = rec.id
  BY DEF Takes
<1>6. OneRow(u, t, r)
  BY <1>4, <1>5 DEF OneRow, Takes
<1>7. /\ TableStore(u) = Store!Put(store, k, RowStore(u.rows[r].fields))
      /\ r \notin DOMAIN t.rows => k \notin DOMAIN store
  BY <1>6, PutRow
<1>8. r \in DOMAIN t.rows => k \in DOMAIN store /\ store[k] = RowStore(t.rows[r].fields)
  BY <1>4, <1>5, KeysOfTable DEF HasKeys
<1>9. ASSUME NEW d \in 2..MaxCols
      PROVE  u.rows[r].fields[d] = IF d <= Len(rec.fields) THEN sclone(rec.fields[d])
                                   ELSE IF r \in DOMAIN t.rows THEN t.rows[r].fields[d] ELSE Null
  BY DEF Takes
<1>10. Trim(u)
  <2> SUFFICES ASSUME NEW q \in DOMAIN u.rows, NEW d \in 1..MaxCols, d > Len(u.cols) PROVE u.rows[q].fields[d] = Null
    BY DEF Trim
  <2>1. Len(u.cols) = Len(t.cols)
    BY DEF Takes
  <2>2. CASE q = r
    <3>1. d \in 2..MaxCols /\ ~(d <= Len(rec.fields)) /\ d \in 1..MaxCols /\ d > Len(t.cols)
      BY <1>1, <1>2, <2>1
    <3>2. r \in DOMAIN t.rows => t.rows[r].fields[d] = Null
      BY <3>1 DEF Trim
    <3> QED
      BY <1>9, <2>2, <3>1, <3>2
  <2>3. CASE q # r
    BY <2>1, <2>3 DEF Takes, Trim
  <2> QED
    BY <2>2, <2>3
<1>11. /\ DOMAIN new = DOMAIN rec.fields /\ new[1] = k
       /\ \A d \in DOMAIN rec.fields \ {1} : new[d] = Clean(rec.fields[d])
  <2>1. row = [d \in DOMAIN rec.fields |-> Clean(rec.fields[d])]
    BY DEF RecordOf
  <2>2. 1 \in DOMAIN rec.fields
    BY <1>1
  <2> HIDE DEF row
  <2>3. rec.id # Null => row[1] = k
    <3>1. k # NullText /\ k # EmptyText
      BY <1>3, MdbAssumption
    <3> QED
      BY <1>1, <1>5, <2>1, <2>2, <3>1 DEF Clean
  <2> QED
    BY <2>1, <2>2, <2>3
<1>12. ASSUME NEW d \in 1..MaxCols
       PROVE  old[d] = IF r \in DOMAIN t.rows THEN Clean(t.rows[r].fields[d]) ELSE Null
  <2> HIDE DEF store, k
  <2>1. CASE r \in DOMAIN t.rows
    BY <1>8, <2>1 DEF RowStore
  <2>2. CASE r \notin DOMAIN t.rows
    BY <1>7, <2>2 DEF Store!Blank
  <2> QED
    BY <2>1, <2>2
<1>13. RowStore(u.rows[r].fields) = Store!Merge(old, new)
  <2> HIDE DEF old, new, store
  <2>1. ASSUME NEW d \in 1..MaxCols
        PROVE  Clean(u.rows[r].fields[d]) = IF d \in DOMAIN new THEN new[d] ELSE old[d]
    <3>1. CASE d = 1
      <4>1. 1 \in DOMAIN new /\ new[1] = k
        BY <1>1, <1>11
      <4>2. u.rows[r].fields[1] = k /\ Clean(k) = k
        BY <1>3, MdbAssumption DEF KeyOf, Clean
      <4> HIDE DEF k
      <4> QED
        BY <3>1, <4>1, <4>2
    <3>2. CASE d # 1
      <4>1. d \in 2..MaxCols
        BY <1>2, <3>2
      <4>2. d \in DOMAIN new <=> d <= Len(rec.fields)
        BY <1>1, <1>11
      <4>3. d \in DOMAIN new => new[d] = Clean(rec.fields[d])
        BY <1>11, <3>2
      <4>4. Clean(Null) = Null /\ \A x : Clean(sclone(x)) = Clean(x)
        BY DEF Clean, sclone
      <4> QED
        BY <1>9, <1>12, <4>1, <4>2, <4>3, <4>4
    <3> QED
      BY <3>1, <3>2
  <2> QED
    BY <2>1 DEF RowStore, Store!Merge
<1>14. rec.id = Null => k \notin DOMAIN store
  BY <1>4, <1>7
<1> HIDE DEF k, store, old, new
<1> QED
  BY <1>3, <1>5, <1>7, <1>10, <1>13, <1>14 DEF k, store, old, new, row

\* mdbUpdateRec makes a row, with the next key, or merges the record with its row.
LEMMA UpdateRecMaps ==
    ASSUME TablesInv(tables), TrimInv, HeldInv, NEW t \in Requests, mdbUpdateRec(t)
    PROVE  Store!UpdateRec(t) /\ TrimInv'
<1> DEFINE rec == held[t]
<1>1. PICK i \in DOMAIN tables : \E r \in Nat : \E u :
        /\ phase = "up" /\ tables[i].name = rec.table
        /\ tables' = [tables EXCEPT ![i] = u] /\ TableInv(u)
        /\ RecInv(rec) /\ Len(rec.fields) <= Len(tables[i].cols)
        /\ Takes(u, tables[i], r, rec)
  BY UpdateRecTakes
<1>0. PICK r \in Nat : \E u :
        /\ phase = "up" /\ tables[i].name = rec.table
        /\ tables' = [tables EXCEPT ![i] = u] /\ TableInv(u)
        /\ RecInv(rec) /\ Len(rec.fields) <= Len(tables[i].cols)
        /\ Takes(u, tables[i], r, rec)
  BY <1>1
<1>2. PICK u :
        /\ phase = "up" /\ tables[i].name = rec.table
        /\ tables' = [tables EXCEPT ![i] = u] /\ TableInv(u)
        /\ RecInv(rec) /\ Len(rec.fields) <= Len(tables[i].cols)
        /\ Takes(u, tables[i], r, rec)
  BY <1>0
<1> DEFINE tb == tables[i]
           n == rec.table
           k == KeyOf(u, r)
           store == TableStore(tb)
           row == RecordOf(rec).row
           old == IF k \in DOMAIN store THEN store[k] ELSE Store!Blank
           new == IF rec.id = Null THEN [row EXCEPT ![1] = k] ELSE row
<1>3. TableInv(tb) /\ Trim(tb)
  BY DEF TablesInv, TrimInv
<1>4. /\ TableStore(u) = Store!Put(store, k, Store!Merge(old, new))
      /\ rec.id = Null => k \in Ids \ DOMAIN store
      /\ rec.id # Null => k = rec.id
      /\ Trim(u)
  <2> HIDE DEF tb, rec
  <2> QED
    BY <1>2, <1>3, TakesMerges DEF tb, rec
<1>5. u.name = tb.name
  BY <1>2 DEF Takes
<1>6. /\ TrimInv'
      /\ InMemory(tables') = [InMemory(tables) EXCEPT ![n] = TableStore(u)]
      /\ n \in DOMAIN InMemory(tables) /\ InMemory(tables)[n] = store
  <2>1. OneTable(tables', tables, i, u) /\ TableInv(u) /\ Trim(u)
    BY <1>2, <1>4, <1>5 DEF OneTable
  <2> HIDE DEF k, new, old
  <2> QED
    BY ZenonT(40), <1>2, <2>1, OneTableMaps DEF OneStore
<1>7. t \in DOMAIN Records(held) /\ Records(held)[t] = RecordOf(rec)
  BY DEF Records, mdbUpdateRec
<1>8. RecordOf(rec).table = n /\ RecordOf(rec).key = rec.id
  BY DEF RecordOf
<1> DEFINE g == InMemory(tables)
<1> HIDE DEF rec, tb, k, store, row, n, g
<1>9. CASE rec.id = Null
  <2>1. old = Store!Blank /\ new = [row EXCEPT ![1] = k]
    BY <1>4, <1>9
  <2>2. InMemory(tables') = [g EXCEPT ![n] = Store!Put(g[n], k, Store!Merge(Store!Blank, [row EXCEPT ![1] = k]))]
    BY <1>4, <1>6, <2>1 DEF g
  <2>3. k \in Ids \ DOMAIN g[n]
    BY <1>4, <1>6, <1>9 DEF g
  <2> QED
    BY <1>2, <1>6, <1>7, <1>8, <1>9, <2>2, <2>3 DEF Store!UpdateRec, g, row
<1>10. CASE rec.id # Null
  <2>1. new = row /\ k = rec.id
    BY <1>4, <1>10
  <2>2. InMemory(tables') =
          [g EXCEPT ![n] = Store!Put(g[n], rec.id, Store!Merge(IF rec.id \in DOMAIN g[n] THEN g[n][rec.id] ELSE Store!Blank, row))]
    BY <1>4, <1>6, <2>1 DEF g
  <2> QED
    BY <1>2, <1>6, <1>7, <1>8, <1>10, <2>2 DEF Store!UpdateRec, g, row
<1> QED
  BY <1>9, <1>10

\* mdbUpdateField writes a field of a row that exists.
LEMMA UpdateFieldMaps ==
    ASSUME intact', TablesInv(tables), TrimInv, NEW n \in Names, NEW k \in Ids, NEW c \in ColNames,
           NEW v \in Values, mdbUpdateField(n, k, c, v)
    PROVE  (\E s \in 2..MaxCols : Store!UpdateField(n, k, s, v)) /\ TrimInv'
<1>1. PICK i \in DOMAIN tables :
        LET tb == tables[i]
            s  == lookupColumn(tb, c)
            r  == lookupRow(tb, k)
        IN  /\ Locked(n, i) /\ s # 0
            /\ Copes(r # 0 /\ s # 1)
            /\ tables' = [tables EXCEPT ![i] = IF r = 0 THEN createRow(tb)
                                               ELSE IF r \in DOMAIN tb.rows THEN updateFieldValue(tb, r, s, v)
                                               ELSE tb]
  BY DEF mdbUpdateField
<1> DEFINE tb == tables[i]
           s == lookupColumn(tb, c)
           r == lookupRow(tb, k)
           u == updateFieldValue(tb, r, s, v)
           store == TableStore(tb)
           row == tb.rows[r].fields
<1>2. phase = "up" /\ tb.name = n /\ TableInv(tb) /\ Trim(tb)
  BY <1>1, TableFound DEF Locked, TrimInv
<1>3. s \in DOMAIN tb.cols
  BY <1>1, <1>2, ColumnFound
<1>4. r # 0 /\ s # 1
  BY <1>1 DEF Copes
<1>5. r \in DOMAIN tb.rows /\ KeyOf(tb, r) = k
  <2> HIDE DEF tb
  <2> QED
    BY <1>2, <1>4, LookupFinds
<1>6. tables' = [tables EXCEPT ![i] = u]
  BY <1>1, <1>4, <1>5
<1>7. TableInv(u) /\ OneField(u, tb, r, s, v)
  <2>1. v \in Fields /\ sclone(v) = v
    BY MdbAssumption DEF Fields, sclone
  <2> HIDE DEF tb, r, s
  <2> QED
    BY <1>2, <1>3, <1>4, <1>5, <2>1, PlainStep
<1>8. /\ s \in 2..MaxCols /\ s <= Len(tb.cols) /\ DOMAIN tb.rows = 1..Len(tb.rows)
      /\ row \in [1..MaxCols -> Fields]
  <2>1. /\ DOMAIN tb.cols = 1..Len(tb.cols) /\ Len(tb.cols) \in Nat /\ Len(tb.cols) <= MaxCols /\ MaxCols \in Nat
        /\ DOMAIN tb.rows = 1..Len(tb.rows) /\ tb.rows[r] \in RowType
    BY <1>2, <1>5, LengthsOfTables, MdbAssumption DEF TableInv, Columns, Schemed
  <2> HIDE DEF s, r, tb
  <2> QED
    BY <1>3, <1>4, <2>1 DEF RowType
<1> HIDE DEF u, s, r, tb
<1>9. /\ DOMAIN u.rows = DOMAIN tb.rows /\ u.name = tb.name /\ u.cols = tb.cols
      /\ \A q \in DOMAIN tb.rows \ {r} : u.rows[q] = tb.rows[q]
      /\ u.rows[r].fields = [row EXCEPT ![s] = v]
  <2>1. DOMAIN u.rows = DOMAIN tb.rows
    <3>1. DOMAIN u.rows = 1..Len(u.rows)
      BY <1>7, LengthsOfTables DEF TableInv
    <3> QED
      BY <1>7, <1>8, <3>1 DEF OneField
  <2>2. u.rows[r] = [tb.rows[r] EXCEPT !.fields = [row EXCEPT ![s] = v]]
    BY <1>5, <1>7 DEF OneField
  <2>3. tb.rows[r] \in RowType
    BY <1>2, <1>5, LengthsOfTables DEF TableInv
  <2>4. u.rows[r].fields = [row EXCEPT ![s] = v]
    <3> HIDE DEF row
    <3> QED
      BY <2>2, <2>3 DEF RowType
  <2> QED
    BY <1>7, <2>1, <2>4 DEF OneField
<1> HIDE DEF row
<1>10. OneRow(u, tb, r) /\ KeyOf(u, r) = k
  <2>1. KeyOf(u, r) = KeyOf(tb, r)
    BY <1>8, <1>9 DEF KeyOf, row
  <2> QED
    BY <1>5, <1>9, <2>1 DEF OneRow
<1>11. Trim(u)
  <2> SUFFICES ASSUME NEW q \in DOMAIN u.rows, NEW d \in 1..MaxCols, d > Len(u.cols) PROVE u.rows[q].fields[d] = Null
    BY DEF Trim
  <2>1. CASE q = r
    <3>1. d # s
      BY <1>8, <1>9
    <3>2. row[d] = Null
      BY <1>2, <1>5, <1>9 DEF Trim, row
    <3> QED
      BY <1>8, <1>9, <2>1, <3>1, <3>2
  <2>2. CASE q # r
    BY <1>2, <1>9, <2>2 DEF Trim
  <2> QED
    BY <2>1, <2>2
<1>12. TableStore(u) = Store!Put(store, k, RowStore(u.rows[r].fields))
  BY <1>2, <1>7, <1>10, PutRow
<1>13. /\ store = [x \in DOMAIN store |-> store[x]] /\ k \in DOMAIN store /\ store[k] = RowStore(row)
  BY <1>2, <1>5, KeysOfTable DEF HasKeys, row
<1>14. RowStore(u.rows[r].fields) = [RowStore(row) EXCEPT ![s] = v]
  <2>1. Clean(v) = v
    BY MdbAssumption DEF Clean
  <2>2. \A d \in 1..MaxCols : [row EXCEPT ![s] = v][d] = IF d = s THEN v ELSE row[d]
    BY <1>8
  <2>3. \A d \in 1..MaxCols : Clean(u.rows[r].fields[d]) = IF d = s THEN v ELSE Clean(row[d])
    BY <1>9, <2>1, <2>2
  <2> QED
    BY <2>3 DEF RowStore
<1> HIDE DEF store
<1>15. TableStore(u) = [store EXCEPT ![k] = [store[k] EXCEPT ![s] = v]]
  <2> DEFINE x == [store[k] EXCEPT ![s] = v]
  <2>1. TableStore(u) = Store!Put(store, k, x)
    BY <1>12, <1>13, <1>14
  <2> HIDE DEF x
  <2> QED
    BY <1>13, <2>1 DEF Store!Put, x
<1>16. /\ TrimInv'
       /\ InMemory(tables') = [InMemory(tables) EXCEPT ![n] = TableStore(u)]
       /\ n \in DOMAIN InMemory(tables) /\ InMemory(tables)[n] = store
  <2>1. OneTable(tables', tables, i, u)
    BY <1>6, <1>9 DEF OneTable, tb
  <2> QED
    BY <1>2, <1>7, <1>11, <2>1, OneTableMaps DEF OneStore, tb, store
<1>17. InMemory(tables') = [InMemory(tables) EXCEPT ![n][k][s] = v]
  BY <1>15, <1>16
<1>18. Store!UpdateField(n, k, s, v)
  BY <1>2, <1>13, <1>16, <1>17 DEF Store!UpdateField
<1> QED
  BY <1>8, <1>16, <1>18

\* mdbDeleteRow removes the row of the key.
LEMMA DeleteRowMaps ==
    ASSUME intact', TablesInv(tables), TrimInv, NEW n \in Names, NEW k \in Ids, mdbDeleteRow(n, k)
    PROVE  Store!DeleteRow(n, k) /\ TrimInv'
<1>1. PICK i \in DOMAIN tables :
        LET tb == tables[i]
            r  == lookupRow(tb, k)
        IN  /\ Locked(n, i) /\ r # 0
            /\ Copes(tb.index = None \/ r = Len(tb.rows))
            /\ tables' = [tables EXCEPT ![i] = DeleteRow(tb, r, k)]
  BY DEF mdbDeleteRow, DeleteRow, SetTable, Change
<1> DEFINE tb == tables[i]
           r == lookupRow(tb, k)
           u == DeleteRow(tb, r, k)
           store == TableStore(tb)
<1>2. phase = "up" /\ tb.name = n /\ TableInv(tb) /\ Trim(tb)
  BY <1>1, TableFound DEF Locked, TrimInv
<1>3. r # 0 /\ (tb.index = None \/ r = Len(tb.rows)) /\ tables' = [tables EXCEPT ![i] = u]
  BY <1>1 DEF Copes
<1>4. r \in DOMAIN tb.rows /\ KeyOf(tb, r) = k
  <2> HIDE DEF tb
  <2> QED
    BY <1>2, <1>3, LookupFinds
<1>5. TableInv(u) /\ u.name = tb.name
  <2> HIDE DEF tb, r
  <2> QED
    BY <1>2, <1>3, <1>4, DeleteRowKeeps
<1>6. u.rows = RemoveAt(tb.rows, r) /\ u.cols = tb.cols
  <2>1. tb \in TableType
    BY <1>2 DEF TableInv
  <2> HIDE DEF tb, r
  <2> QED
    BY <1>4, <2>1 DEF DeleteRow, TableType
<1>7. Trim(u)
  <2>1. tb.rows \in Seq(RowType) /\ r \in 1..Len(tb.rows) /\ DOMAIN tb.rows = 1..Len(tb.rows) /\ Len(tb.rows) \in Nat
    BY <1>2, <1>4 DEF TableInv, TableType
  <2> HIDE DEF tb, r, u
  <2>2. /\ u.rows \in Seq(RowType) /\ Len(u.rows) = Len(tb.rows) - 1
        /\ \A j \in 1..(Len(tb.rows) - 1) : u.rows[j] = IF j < r THEN tb.rows[j] ELSE tb.rows[j + 1]
    BY ZenonT(40), <1>6, <2>1, RemoveAtPlaces
  <2>3. ASSUME NEW j \in DOMAIN u.rows PROVE \E q \in DOMAIN tb.rows : u.rows[j] = tb.rows[q]
    <3>1. j \in 1..(Len(tb.rows) - 1)
      BY <2>1, <2>2
    <3>2. j \in DOMAIN tb.rows /\ j + 1 \in DOMAIN tb.rows
      BY <2>1, <3>1
    <3> QED
      BY <2>2, <3>1, <3>2
  <2> QED
    BY <1>2, <1>6, <2>3 DEF Trim
<1> HIDE DEF u, r
<1>8. TableStore(u) = Store!Without(store, k)
  BY <1>2, <1>4, <1>5, <1>6, DeletedRow
<1>9. k \in DOMAIN store
  BY <1>2, <1>4, KeysOfTable DEF HasKeys
<1>10. /\ TrimInv'
       /\ InMemory(tables') = [InMemory(tables) EXCEPT ![n] = TableStore(u)]
       /\ n \in DOMAIN InMemory(tables) /\ InMemory(tables)[n] = store
  <2>1. OneTable(tables', tables, i, u)
    BY <1>3, <1>5 DEF OneTable
  <2> QED
    BY <1>2, <1>5, <1>7, <2>1, OneTableMaps DEF OneStore
<1> HIDE DEF store
<1>11. Store!DeleteRow(n, k)
  BY <1>2, <1>8, <1>9, <1>10 DEF Store!DeleteRow
<1> QED
  BY <1>10, <1>11

\* Every operation on records and rows is one of the store.
LEMMA RowsMap ==
    ASSUME intact', TablesInv(tables), TrimInv, HeldInv, Rows
    PROVE  (Store!StoreStep \/ Store!HeldStep) /\ TrimInv'
<1> DEFINE Goal == (Store!StoreStep \/ Store!HeldStep) /\ TrimInv'
<1>0. UNCHANGED <<phase, file>>
  BY RowCalls DEF Calls, fileVars
<1>1. ASSUME UNCHANGED tables, Store!HeldStep PROVE Goal
  BY <1>1 DEF TrimInv
<1>2. ASSUME NEW t \in Requests, NEW n \in Names, mdbCreateRec(t, n) PROVE Goal
  <2>1. UNCHANGED tables
    BY <1>2 DEF mdbCreateRec
  <2>2. Store!HeldStep
    BY <1>0, <1>2, <2>1, CreateRecMaps, HeldMaps DEF Store!HeldStep
  <2> QED
    BY <1>1, <2>1, <2>2
<1>3. ASSUME NEW t \in Requests, NEW n \in Names, NEW k \in Ids, mdbReadRec(t, n, k) PROVE Goal
  <2>1. UNCHANGED tables
    BY <1>3 DEF mdbReadRec, Hold
  <2>2. Store!HeldStep
    BY <1>0, <1>3, <2>1, ReadRecMaps, HeldMaps DEF Store!HeldStep
  <2> QED
    BY <1>1, <2>1, <2>2
<1>4. ASSUME NEW t \in Requests, NEW n \in Names, NEW c \in ColNames, NEW v \in Values,
             ediReadOneWhere(t, n, c, v)
      PROVE  Goal
  <2>1. UNCHANGED tables
    BY <1>4 DEF ediReadOneWhere, Hold
  <2>2. PICK s \in 1..MaxCols : Store!ReadOneWhere(t, n, s, v)
    BY <1>4, ReadOneWhereMaps
  <2>3. Store!HeldStep
    BY <1>0, <2>1, <2>2, HeldMaps DEF Store!HeldStep
  <2> QED
    BY <1>1, <2>1, <2>3
<1>5. ASSUME NEW t \in Requests, NEW c \in 1..MaxCols, NEW v \in Values, ediSetField(t, c, v) PROVE Goal
  <2>1. UNCHANGED tables
    BY <1>5 DEF ediSetField
  <2>2. Store!HeldStep
    BY <1>0, <1>5, <2>1, SetFieldMaps, HeldMaps DEF Store!HeldStep
  <2> QED
    BY <1>1, <2>1, <2>2
<1>6. ASSUME NEW t \in Requests, mdbUpdateRec(t) PROVE Goal
  <2>1. Alone
    BY <1>0, <1>6 DEF Alone, mdbUpdateRec
  <2>2. Store!UpdateRec(t) /\ TrimInv'
    BY <1>6, UpdateRecMaps
  <2> QED
    BY <2>1, <2>2, AloneMaps DEF Store!StoreStep
<1>7. ASSUME NEW n \in Names, NEW k \in Ids, mdbDeleteRow(n, k) PROVE Goal
  <2>1. Alone
    BY <1>0, <1>7 DEF Alone, mdbDeleteRow
  <2>2. Store!DeleteRow(n, k) /\ TrimInv'
    BY <1>7, DeleteRowMaps
  <2> QED
    BY <2>1, <2>2, AloneMaps DEF Store!StoreStep
<1>8. ASSUME NEW n \in Names, NEW k \in Ids, NEW c \in ColNames, NEW v \in Values,
             mdbUpdateField(n, k, c, v)
      PROVE  Goal
  <2>1. Alone
    BY <1>0, <1>8 DEF Alone, mdbUpdateField
  <2>2. TrimInv' /\ \E s \in 2..MaxCols : Store!UpdateField(n, k, s, v)
    BY <1>8, UpdateFieldMaps
  <2>3. Store!StoreStep
    BY <2>1, <2>2, AloneMaps DEF Store!StoreStep
  <2> QED
    BY <2>2, <2>3
<1> QED
  BY <1>2, <1>3, <1>4, <1>5, <1>6, <1>7, <1>8 DEF Rows

\* A table that is loaded has no fields behind its last column.
LEMMA LoadedTrim ==
    ASSUME NEW im, ImageInv(im), NEW t, Loaded(t, im, Len(im.rows))
    PROVE  Trim(t)
<1>1. im.rows \in Seq(Seq(Fields)) /\ DOMAIN im.rows = 1..Len(im.rows)
  BY DEF ImageInv, ImageType
<1>2. DOMAIN t.rows = DOMAIN im.rows
  BY <1>1, LengthsOfTables DEF Loaded, TableInv
<1>3. Len(t.cols) = Len(im.cols)
  BY DEF Loaded
<1> SUFFICES ASSUME NEW r \in DOMAIN t.rows, NEW c \in 1..MaxCols, c > Len(t.cols) PROVE t.rows[r].fields[c] = Null
  BY DEF Trim
<1>4. t.rows[r].fields = Padded(im.rows[r])
  BY <1>1, <1>2 DEF Loaded
<1>5. c \notin DOMAIN im.rows[r]
  BY <1>1, <1>2, <1>3 DEF ImageInv
<1> QED
  BY <1>4, <1>5 DEF Padded
-----------------------------------------------------------------------------
(* The steps of a save, and the start and the end of the process.            *)

\* There are tables only while the database is open; after the write the new file
\* is their image; the path is given up before it is published.
SaveInv ==
    /\ saving \in SaveSteps
    /\ phase # "up" => tables = <<>>
    /\ phase = "down" => saving = "no"
    /\ saving = "publish" => file["path"] = None
    /\ saving \in {"drop", "move", "publish"} => file["new"] = Image(tables)

\* The invariant under which each step is one of the store.
RefInv == DbInv /\ TrimInv /\ SaveInv

\* Calls keep SaveInv: they change tables only while no save is under way.
LEMMA CallsKeepSave ==
    ASSUME SaveInv, Calls
    PROVE  SaveInv'
  BY DEF SaveInv, Calls, fileVars, SaveSteps

\* The steps of a save are those of the store, whose copy is the image.
LEMMA SavesMap ==
    ASSUME RefInv, Saving
    PROVE  (UNCHANGED Store!vars \/ Store!FileStep) /\ SaveInv' /\ TrimInv'
<1> DEFINE Goal == (UNCHANGED Store!vars \/ Store!FileStep) /\ SaveInv' /\ TrimInv'
<1>0. DbInv /\ TrimInv /\ SaveInv /\ TablesInv(tables) /\ DOMAIN file = Files
  BY DEF RefInv, DbInv, ImagesInv
<1>1. UNCHANGED <<phase, held>>
  BY DEF Saving, SaveOpen, SaveWrite, SaveDrop, SaveMove, SavePublish, SaveFails, Works, Step
<1>2. tables' = tables
  BY <1>0, WriteKeeps DEF Saving, SaveOpen, SaveDrop, SaveMove, SavePublish, SaveFails
<1>3. TrimInv'
  BY <1>0, <1>2 DEF TrimInv
<1>4. ASSUME SaveInv', Store!DropBackup \/ Store!MoveAway \/ Store!PutBack \/ Store!Publish PROVE Goal
  BY <1>1, <1>2, <1>3, <1>4 DEF Store!FileStep
<1>5. ASSUME SaveInv', file'["path"] = file["path"], file'["bak"] = file["bak"] PROVE Goal
  BY <1>1, <1>2, <1>3, <1>5 DEF Store!vars
<1> SUFFICES Goal
  OBVIOUS
<1> HIDE DEF Goal
<1>6. Copies(None) = {}
  BY DEF Copies
<1> USE DEF Works, Step, Files, SaveSteps
<1>7. CASE SaveOpen
  <2>1. SaveInv' /\ file'["path"] = file["path"] /\ file'["bak"] = file["bak"]
    BY <1>0, <1>2, <1>7 DEF SaveInv, SaveOpen
  <2> QED
    BY <1>5, <2>1
<1>8. CASE SaveWrite
  <2>1. SaveInv' /\ file'["path"] = file["path"] /\ file'["bak"] = file["bak"]
    BY <1>0, <1>2, <1>8 DEF SaveInv, SaveWrite
  <2> QED
    BY <1>5, <2>1
<1>9. CASE SaveDrop
  <2>1. SaveInv' /\ file'["path"] = file["path"] /\ file'["bak"] = None
    BY <1>0, <1>2, <1>9 DEF SaveInv, SaveDrop
  <2>2. Store!DropBackup
    BY <1>6, <2>1 DEF Store!DropBackup
  <2> QED
    BY <1>4, <2>1, <2>2
<1>10. CASE SaveMove
  <2>1. CASE file["path"] = None
    <3>1. SaveInv' /\ file' = file
      BY <1>0, <1>2, <1>10, <2>1 DEF SaveInv, SaveMove
    <3> QED
      BY <1>5, <3>1
  <2>2. CASE file["path"] # None
    <3>1. SaveInv' /\ file'["path"] = None /\ file'["bak"] = file["path"]
      BY <1>0, <1>2, <1>10, <2>2 DEF SaveInv, SaveMove
    <3>2. Store!MoveAway
      BY <1>6, <3>1 DEF Store!MoveAway
    <3> QED
      BY <1>4, <3>1, <3>2
  <2> QED
    BY <2>1, <2>2
<1>11. CASE SavePublish
  <2>1. SaveInv' /\ file'["path"] = Image(tables) /\ file'["bak"] = file["bak"]
    BY <1>0, <1>2, <1>11 DEF SaveInv, SavePublish
  <2>2. Copies(Image(tables)) = {InMemory(tables)}
    BY <1>0, SavedStore DEF TrimInv
  <2>3. Store!Publish
    BY <2>1, <2>2 DEF Store!Publish
  <2> QED
    BY <1>4, <2>1, <2>3
<1>12. ASSUME NEW step \in {"open", "move", "publish"}, SaveFails(step) PROVE Goal
  <2>1. SaveInv'
    BY <1>0, <1>2, <1>12 DEF SaveInv, SaveFails
  <2>2. CASE step = "publish" /\ file["bak"] # None
    <3>1. file["path"] = None /\ file'["path"] = file["bak"] /\ file'["bak"] = None
      BY <1>0, <1>12, <2>2 DEF SaveInv, SaveFails
    <3>2. Store!PutBack
      BY <1>6, <3>1 DEF Store!PutBack
    <3> QED
      BY <1>4, <2>1, <3>2
  <2>3. CASE ~(step = "publish" /\ file["bak"] # None)
    <3>1. file' = file
      BY <1>12, <2>3 DEF SaveFails
    <3> QED
      BY <1>5, <2>1, <3>1
  <2> QED
    BY <2>2, <2>3
<1> QED
  BY <1>7, <1>8, <1>9, <1>10, <1>11, <1>12 DEF Saving

\* The records of requests that hold none.
LEMMA NoRecords == Records([t \in Requests |-> None]) = <<>>
<1> DEFINE none == [t \in Requests |-> None]
           f == Records(none)
<1>1. \A x, g : x = [k \in {} |-> g[k]] => x = <<>>
  OBVIOUS
<1>2. DOMAIN f = {} /\ f = [t \in DOMAIN f |-> f[t]]
  BY DEF Records
<1> HIDE DEF f
<1>3. f = <<>>
  BY <1>1, <1>2
<1> QED
  BY <1>3 DEF f, none

\* mdbLoad reads the store that the path has, or the process has no database.
LEMMA LoadMaps ==
    ASSUME RefInv, mdbLoad
    PROVE  (UNCHANGED Store!vars \/ Store!Open) /\ SaveInv' /\ TrimInv'
<1> DEFINE image == file["path"]
<1>0. /\ SaveInv /\ ImagesInv /\ phase \in {"down", "create"} /\ phase # "up" /\ saving = "no"
      /\ UNCHANGED <<held, saving, file>>
  BY DEF RefInv, DbInv, SaveInv, mdbLoad, fileVars
<1>1. CASE image \notin {None, Torn} /\ Loadable(image)
  <2>1. phase' = "up" /\ tables' = Load(image)
    BY <1>1 DEF mdbLoad
  <2>2. image \in Seq(ImageType) /\ \A i \in DOMAIN image : ImageInv(image[i])
    BY <1>0, <1>1 DEF ImagesInv, Files
  <2>3. Copies(image) = {InFile(image)}
    BY <1>1 DEF Copies
  <2> HIDE DEF image
  <2>4. InMemory(Load(image)) = InFile(image)
    BY <1>1, <2>2, LoadedStore
  <2>5. Store!Open
    BY <1>0, <2>1, <2>3, <2>4 DEF Store!Open, image
  <2>6. TrimInv'
    <3>1. TablesInv(Load(image)) /\ DOMAIN Load(image) = DOMAIN image
      BY <1>1, <2>2, LoadKeeps DEF Load
    <3>2. ASSUME NEW i \in DOMAIN image PROVE Trim(Load(image)[i])
      <4> DEFINE im == image[i]
                 t == LoadTable(im)
      <4>1. Load(image)[i] = t
        BY DEF Load
      <4>2. ImageInv(im) /\ \A c, d \in DOMAIN im.cols : im.cols[c].name = im.cols[d].name => c = d
        BY <1>1, <2>2 DEF Loadable
      <4> HIDE DEF im
      <4>3. Loaded(t, im, Len(im.rows))
        BY <4>2, TableLoads
      <4> HIDE DEF t
      <4>4. Trim(t)
        BY <4>2, <4>3, LoadedTrim
      <4> QED
        BY <4>1, <4>4
    <3> QED
      BY <2>1, <3>1, <3>2 DEF TrimInv
  <2>7. SaveInv'
    BY <1>0, <2>1 DEF SaveInv
  <2> QED
    BY <2>5, <2>6, <2>7
<1>2. CASE ~(image \notin {None, Torn} /\ Loadable(image))
  <2>1. phase' = "down" /\ tables' = <<>> /\ tables = <<>>
    BY <1>0, <1>2 DEF mdbLoad, SaveInv
  <2>2. UNCHANGED Store!vars
    BY <1>0, <2>1 DEF Store!vars
  <2>3. SaveInv' /\ TrimInv'
    BY <1>0, <2>1 DEF SaveInv, TrimInv
  <2> QED
    BY <2>2, <2>3
<1> QED
  BY <1>1, <1>2

\* Each step keeps the invariant, and is a step of the store or none.
LEMMA NextMaps ==
    ASSUME intact', RefInv, [Next]_vars
    PROVE  RefInv' /\ [Store!Next]_(Store!vars)
<1>0. DbInv /\ TrimInv /\ SaveInv /\ TablesInv(tables) /\ HeldInv
  BY DEF RefInv, DbInv
<1>1. DbInv'
  BY <1>0, NextKeepsDb
<1>2. ASSUME TrimInv', SaveInv', Store!Next \/ UNCHANGED Store!vars PROVE RefInv' /\ [Store!Next]_(Store!vars)
  BY <1>1, <1>2 DEF RefInv
<1>3. CASE Schema
  <2>1. SaveInv'
    BY <1>0, <1>3, SchemaCalls, CallsKeepSave
  <2>2. TrimInv' /\ (UNCHANGED Store!vars \/ Store!StoreStep)
    BY <1>0, <1>3, SchemaMaps DEF TablesMap
  <2> QED
    BY <1>2, <2>1, <2>2 DEF Store!Next
<1>4. CASE Rows
  <2>1. SaveInv'
    BY <1>0, <1>4, RowCalls, CallsKeepSave
  <2>2. TrimInv' /\ (Store!StoreStep \/ Store!HeldStep)
    BY <1>0, <1>4, RowsMap
  <2> QED
    BY <1>2, <2>1, <2>2 DEF Store!Next
<1>5. CASE Saving
  <2>1. (UNCHANGED Store!vars \/ Store!FileStep) /\ SaveInv' /\ TrimInv'
    BY <1>5, SavesMap
  <2> QED
    BY <1>2, <2>1 DEF Store!Next
<1>6. CASE mdbOpen
  <2>1. UNCHANGED <<tables, held, file>> /\ phase = "down" /\ phase' = "create" /\ saving' = "open"
    BY <1>6 DEF mdbOpen, fileVars
  <2>2. SaveInv' /\ TrimInv'
    BY <1>0, <2>1 DEF SaveInv, TrimInv, SaveSteps
  <2>3. UNCHANGED Store!vars
    BY <2>1 DEF Store!vars
  <2> QED
    BY <1>2, <2>2, <2>3
<1>7. CASE mdbLoad
  <2>1. (UNCHANGED Store!vars \/ Store!Open) /\ SaveInv' /\ TrimInv'
    BY <1>7, LoadMaps
  <2> QED
    BY <1>2, <2>1 DEF Store!Next
<1>8. CASE Crash
  <2>1. phase' = "down" /\ saving' = "no" /\ tables' = <<>> /\ held' = [t \in Requests |-> None] /\ UNCHANGED file
    BY <1>8 DEF Crash, fileVars
  <2>2. SaveInv' /\ TrimInv'
    BY <2>1 DEF SaveInv, TrimInv, SaveSteps
  <2>3. Store!Crash
    BY <2>1, NoRecords, EmptyStores DEF Store!Crash, Store!Empty
  <2> QED
    BY <1>2, <2>2, <2>3 DEF Store!Next
<1>9. CASE UNCHANGED vars
  <2>1. UNCHANGED <<phase, tables, held, saving, file>>
    BY <1>9 DEF vars
  <2>2. SaveInv' /\ TrimInv'
    BY <1>0, <2>1 DEF SaveInv, TrimInv
  <2>3. UNCHANGED Store!vars
    BY <2>1 DEF Store!vars
  <2> QED
    BY <1>2, <2>2, <2>3
<1> QED
  BY <1>3, <1>4, <1>5, <1>6, <1>7, <1>8, <1>9 DEF Next

\* A database that has not been opened is an empty store.
LEMMA InitMaps == Init => RefInv /\ Store!Init
<1> SUFFICES ASSUME Init PROVE RefInv /\ Store!Init
  OBVIOUS
<1>1. DbInv
  BY InitDb
<1>2. TrimInv /\ SaveInv
  BY DEF Init, TrimInv, SaveInv, SaveSteps
<1>3. Store!Init
  BY NoRecords, EmptyStores DEF Init, Store!Init, Store!Empty, Copies
<1> QED
  BY <1>1, <1>2, <1>3 DEF RefInv

\* For every number of tables, columns, rows and requests, the database is the store
\* that edi.h describes until a call does what the code does not cope with: each call
\* is one operation of it, found by key although mdb.c finds rows by position, each
\* step of a save is a step of its copies, and a restart begins with the copy that
\* was published.
THEOREM DatabaseIsTheStore == Spec => ImplementsStore
<1>1. Init => (intact => RefInv) /\ Store!Init
  BY InitMaps
<1>2. (intact => RefInv) /\ [Next]_vars => (intact => RefInv)' /\ [~intact' \/ Store!Next]_(Store!vars)
  <2> SUFFICES ASSUME intact => RefInv, [Next]_vars, intact' PROVE RefInv' /\ [Store!Next]_(Store!vars)
    OBVIOUS
  <2>1. intact
    BY WasIntact
  <2> QED
    BY <2>1, NextMaps
<1> QED
  BY <1>1, <1>2, PTL DEF Spec, ImplementsStore
=============================================================================
