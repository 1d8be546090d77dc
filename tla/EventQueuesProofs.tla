-------------------------- MODULE EventQueuesProofs --------------------------
(* The event queues and the sleeps of EventService, for every number of      *)
(* dispatchers, events, workers and waiting threads: queues are sorted and   *)
(* first come, first served; pendingCount covers the pending queue; the      *)
(* service thread loses no wakeup; a thread that waits in the condition of   *)
(* its dispatcher loses no signal while it is the only one there; and all of *)
(* it together implements SerialExecutor.                                    *)
EXTENDS EventServiceProofs, SequenceTheorems

-----------------------------------------------------------------------------
(* Insert and Drop on sorted queues.                                         *)

Before(q, f, e) == \E i, j \in DOMAIN q : i < j /\ q[i] = f /\ q[j] = e

Sorted(q, df) == \A i, j \in DOMAIN q : i < j => q[i] # q[j] /\ df[q[i]] <= df[q[j]]

\* Where each element of a queue is after an insertion.
LEMMA InsertAtPlaces ==
    ASSUME NEW q \in Seq(Events), NEW e \in Events, NEW k \in 0..Len(q)
    PROVE  /\ InsertAt(q, k + 1, e) \in Seq(Events)
           /\ Len(InsertAt(q, k + 1, e)) = Len(q) + 1
           /\ \A i \in 1..(Len(q) + 1) :
                 InsertAt(q, k + 1, e)[i] = IF i <= k THEN q[i] ELSE IF i = k + 1 THEN e ELSE q[i - 1]
<1> DEFINE a == SubSeq(q, 1, (k + 1) - 1)
           b == SubSeq(q, k + 1, Len(q))
           c == a \o <<e>>
           r == c \o b
<1>6. InsertAt(q, k + 1, e) = r
  BY DEF InsertAt
<1> HIDE DEF r, c
<1>0. k \in Nat /\ Len(q) \in Nat /\ k <= Len(q) /\ (k + 1) - 1 = k
  OBVIOUS
<1>1. a \in Seq(Events) /\ Len(a) = k /\ \A i \in 1..k : a[i] = q[i]
  BY <1>0
<1>2. b \in Seq(Events) /\ Len(b) = Len(q) - k /\ \A i \in 1..(Len(q) - k) : b[i] = q[k + i]
  BY <1>0
<1> HIDE DEF a, b
<1>3. /\ a \o <<e>> \in Seq(Events) /\ Len(a \o <<e>>) = k + 1
      /\ \A i \in 1..(k + 1) : (a \o <<e>>)[i] = IF i <= k THEN a[i] ELSE e
  BY <1>0, <1>1
<1>4. c \in Seq(Events) /\ Len(c) = k + 1 /\ \A i \in 1..(k + 1) : c[i] = IF i <= k THEN a[i] ELSE e
  BY <1>3 DEF c
<1>5. /\ c \o b \in Seq(Events) /\ Len(c \o b) = Len(q) + 1
      /\ \A i \in 1..(Len(q) + 1) : (c \o b)[i] = IF i <= k + 1 THEN c[i] ELSE b[i - (k + 1)]
  BY <1>0, <1>2, <1>4
<1>7. ASSUME NEW i \in 1..(Len(q) + 1)
      PROVE  (c \o b)[i] = IF i <= k THEN q[i] ELSE IF i = k + 1 THEN e ELSE q[i - 1]
  <2>1. CASE i <= k + 1
    BY <1>0, <1>1, <1>4, <1>5, <1>7, <2>1
  <2>2. CASE ~(i <= k + 1)
    <3>1. i - (k + 1) \in 1..(Len(q) - k) /\ k + (i - (k + 1)) = i - 1
      BY <1>0, <1>7, <2>2
    <3>2. (c \o b)[i] = b[i - (k + 1)]
      BY <1>5, <1>7, <2>2
    <3>3. b[i - (k + 1)] = q[i - 1]
      BY <1>2, <3>1
    <3> QED
      BY <1>0, <1>7, <2>2, <3>2, <3>3
  <2> QED
    BY <2>1, <2>2
<1>8. /\ r \in Seq(Events) /\ Len(r) = Len(q) + 1
      /\ \A i \in 1..(Len(q) + 1) : r[i] = IF i <= k THEN q[i] ELSE IF i = k + 1 THEN e ELSE q[i - 1]
  BY <1>5, <1>7, Zenon DEF r
<1> QED
  BY <1>6, <1>8, Zenon

\* The place of an insertion in a sorted queue is behind just the events that
\* are not due later.
LEMMA PlaceIsBehind ==
    ASSUME NEW q \in Seq(Events), NEW e \in Events, NEW df \in [Events -> Nat], Sorted(q, df),
           NEW i \in DOMAIN q
    PROVE  df[q[i]] <= df[e] <=> i <= Cardinality({j \in DOMAIN q : df[q[j]] <= df[e]})
<1> DEFINE S == {j \in DOMAIN q : df[q[j]] <= df[e]}
<1>1. Len(q) \in Nat /\ DOMAIN q = 1..Len(q)
  OBVIOUS
<1>2. \A m \in Nat : IsFiniteSet(1..m) /\ Cardinality(1..m) = m
  <2> TAKE m \in Nat
  <2>1. IsFiniteSet(1..m) /\ Cardinality(1..m) = IF 1 > m THEN 0 ELSE m - 1 + 1
    <3>1. m \in Int /\ 1 \in Int
      OBVIOUS
    <3> QED
      BY <3>1, FS_Interval, Zenon
  <2> QED
    BY <2>1
<1>3. IsFiniteSet(S) /\ Cardinality(S) \in Nat
  <2>1. S \subseteq 1..Len(q)
    BY <1>1
  <2> QED
    BY <1>1, <1>2, <2>1, FS_Subset, FS_CardinalityType
<1>4. ASSUME df[q[i]] <= df[e] PROVE i <= Cardinality(S)
  <2>1. ASSUME NEW j \in 1..i PROVE j \in S
    <3>1. j \in DOMAIN q /\ q[j] \in Events /\ q[i] \in Events
      BY <1>1
    <3>2. j = i \/ df[q[j]] <= df[q[i]]
      BY SMTT(40), <1>1, <3>1 DEF Sorted
    <3> QED
      BY <1>4, <3>1, <3>2
  <2>2. Cardinality(1..i) <= Cardinality(S) /\ Cardinality(1..i) = i
    BY SMTT(40), <1>1, <1>2, <1>3, <2>1, FS_Subset
  <2> QED
    BY <2>2
<1>5. ASSUME ~(df[q[i]] <= df[e]) PROVE ~(i <= Cardinality(S))
  <2>1. ASSUME NEW j \in S PROVE j \in 1..(i - 1)
    <3>1. j \in DOMAIN q /\ q[j] \in Events /\ q[i] \in Events /\ df[q[j]] <= df[e]
      BY <1>1
    <3>2. ~(i < j)
      BY <1>1, <1>5, <3>1 DEF Sorted
    <3>3. j # i
      BY <1>5, <3>1
    <3> QED
      BY <1>1, <3>1, <3>2, <3>3
  <2>2. i - 1 \in Nat
    BY <1>1
  <2>3. Cardinality(S) <= Cardinality(1..(i - 1)) /\ Cardinality(1..(i - 1)) = i - 1
    BY <1>2, <2>1, <2>2, FS_Subset
  <2> QED
    BY <1>1, <1>3, <2>3
<1> QED
  BY <1>4, <1>5

\* A new event enters a sorted queue in its place, behind every event that is
\* not due later.
LEMMA InsertSorted ==
    ASSUME NEW q \in Seq(Events), NEW e \in Events, NEW df \in [Events -> Nat],
           Sorted(q, df), e \notin ToSet(q)
    PROVE  /\ Sorted(Insert(q, e, df), df)
           /\ ToSet(Insert(q, e, df)) = ToSet(q) \cup {e}
           /\ \A f \in ToSet(q) : df[f] <= df[e] => Before(Insert(q, e, df), f, e)
<1> DEFINE k == Cardinality({j \in DOMAIN q : df[q[j]] <= df[e]})
           r == InsertAt(q, k + 1, e)
<1>1. k \in 0..Len(q)
  BY InsertPosition
<1>2. r = Insert(q, e, df)
  BY DEF Insert
<1>3. \A i \in DOMAIN q : df[q[i]] <= df[e] <=> i <= k
  BY PlaceIsBehind
<1>4. \A i \in DOMAIN q : q[i] # e /\ q[i] \in Events
  BY DEF ToSet
<1> HIDE DEF k
<1>5. /\ r \in Seq(Events) /\ DOMAIN r = 1..(Len(q) + 1)
      /\ \A i \in 1..(Len(q) + 1) :
            r[i] = IF i <= k THEN q[i] ELSE IF i = k + 1 THEN e ELSE q[i - 1]
  BY <1>1, InsertAtPlaces
<1> HIDE DEF r
<1>6. Len(q) \in Nat /\ DOMAIN q = 1..Len(q) /\ k \in Nat /\ k <= Len(q)
  BY <1>1
<1>7. Sorted(r, df)
  <2> SUFFICES ASSUME NEW i \in DOMAIN r, NEW j \in DOMAIN r, i < j
               PROVE  r[i] # r[j] /\ df[r[i]] <= df[r[j]]
    BY DEF Sorted
  <2> DEFINE place(n) == IF n <= k THEN n ELSE n - 1
  <2>1. i \in Int /\ j \in Int
    BY <1>5
  <2>2. CASE i # k + 1 /\ j # k + 1
    <3>1. place(i) \in DOMAIN q /\ place(j) \in DOMAIN q
      <4>1. i \in 1..(Len(q) + 1) /\ j \in 1..(Len(q) + 1)
        BY <1>5
      <4>2. place(i) \in 1..Len(q)
        BY <1>6, <2>2, <4>1
      <4>3. place(j) \in 1..Len(q)
        BY <1>6, <2>2, <4>1
      <4> QED
        BY <1>6, <4>2, <4>3
    <3>3. place(i) < place(j)
      BY <1>6, <2>1, <2>2
    <3>2. r[i] = q[place(i)] /\ r[j] = q[place(j)]
      BY <1>5, <1>6, <2>1, <2>2
    <3> QED
      BY <3>1, <3>2, <3>3 DEF Sorted
  <2>3. CASE i = k + 1
    <3>1. r[i] = e /\ r[j] = q[j - 1] /\ j - 1 \in DOMAIN q /\ ~(j - 1 <= k)
      BY SMTT(40), <1>5, <1>6, <2>1, <2>3
    <3>2. ~(df[q[j - 1]] <= df[e]) /\ q[j - 1] # e /\ q[j - 1] \in Events
      BY <1>3, <1>4, <3>1
    <3> QED
      BY <3>1, <3>2
  <2>4. CASE j = k + 1
    <3>1. r[j] = e /\ r[i] = q[i] /\ i \in DOMAIN q /\ i <= k
      BY SMTT(40), <1>5, <1>6, <2>1, <2>4
    <3> QED
      BY <1>3, <1>4, <3>1
  <2> QED
    BY <2>2, <2>3, <2>4
<1>8. ToSet(r) = ToSet(q) \cup {e}
  <2>1. ASSUME NEW f \in ToSet(r) PROVE f \in ToSet(q) \cup {e}
    <3>1. PICK i \in DOMAIN r : f = r[i]
      BY DEF ToSet
    <3>2. i <= k => i \in DOMAIN q
      BY <1>5, <1>6, <3>1
    <3>3. ~(i <= k) /\ i # k + 1 => i - 1 \in DOMAIN q
      BY SMTT(40), <1>5, <1>6, <3>1
    <3> QED
      BY <1>5, <3>1, <3>2, <3>3 DEF ToSet
  <2>2. e \in ToSet(r)
    <3>1. k + 1 \in DOMAIN r /\ r[k + 1] = e
      BY SMTT(40), <1>5, <1>6
    <3> QED
      BY <3>1 DEF ToSet
  <2>3. ASSUME NEW f \in ToSet(q) PROVE f \in ToSet(r)
    <3>1. PICK i \in DOMAIN q : f = q[i]
      BY DEF ToSet
    <3>2. i <= k => i \in DOMAIN r /\ r[i] = f
      BY SMTT(40), <1>5, <1>6, <3>1
    <3>3. ~(i <= k) => i + 1 \in DOMAIN r /\ r[i + 1] = f
      BY <1>5, <1>6, <3>1
    <3> QED
      BY <3>2, <3>3 DEF ToSet
  <2> QED
    BY <2>1, <2>2, <2>3
<1>9. ASSUME NEW f \in ToSet(q), df[f] <= df[e] PROVE Before(r, f, e)
  <2>1. PICK i \in DOMAIN q : f = q[i]
    BY DEF ToSet
  <2>2. i <= k
    BY <1>3, <1>9, <2>1
  <2>3. i \in DOMAIN r /\ k + 1 \in DOMAIN r /\ i < k + 1 /\ r[i] = f /\ r[k + 1] = e
    BY SMTT(40), <1>5, <1>6, <2>1, <2>2
  <2> QED
    BY <2>3 DEF Before
<1> QED
  BY <1>2, <1>7, <1>8, <1>9

\* Dropping an event leaves the others, in their order.
LEMMA DropSorted ==
    ASSUME NEW q \in Seq(Events), NEW e \in Events, NEW df \in [Events -> Nat], Sorted(q, df)
    PROVE  /\ Drop(q, e) \in Seq(Events)
           /\ Sorted(Drop(q, e), df)
           /\ ToSet(Drop(q, e)) = ToSet(q) \ {e}
           /\ Drop(q, e) # <<>> => q # <<>> /\ df[Head(q)] <= df[Head(Drop(q, e))]
<1>1. CASE e \notin ToSet(q)
  <2>1. Drop(q, e) = q
    BY <1>1 DEF Drop
  <2>2. q # <<>> => Head(q) \in Events /\ df[Head(q)] \in Nat
    OBVIOUS
  <2> QED
    BY <1>1, <2>1, <2>2
<1>2. CASE e \in ToSet(q)
  <2> DEFINE i == CHOOSE j \in DOMAIN q : q[j] = e
             r == RemoveAt(q, i)
  <2>1. i \in DOMAIN q /\ q[i] = e
    BY <1>2 DEF ToSet
  <2>2. r = Drop(q, e)
    BY <1>2 DEF Drop
  <2> HIDE DEF i
  <2>3. Len(q) \in Nat /\ DOMAIN q = 1..Len(q) /\ i \in 1..Len(q)
    BY <2>1
  <2>4. /\ r \in Seq(Events) /\ DOMAIN r = 1..(Len(q) - 1)
        /\ \A n \in 1..(Len(q) - 1) : r[n] = IF n < i THEN q[n] ELSE q[n + 1]
    <3> DEFINE a == SubSeq(q, 1, i - 1)
               b == SubSeq(q, i + 1, Len(q))
    <3>1. a \in Seq(Events) /\ Len(a) = i - 1 /\ \A n \in 1..(i - 1) : a[n] = q[n]
      BY <2>3
    <3>2. b \in Seq(Events) /\ Len(b) = Len(q) - i /\ \A n \in 1..(Len(q) - i) : b[n] = q[i + n]
      <4>1. /\ b \in Seq(Events) /\ Len(b) = IF i + 1 <= Len(q) THEN Len(q) - (i + 1) + 1 ELSE 0
            /\ \A n \in 1..(Len(q) - (i + 1) + 1) : b[n] = q[(i + 1) + n - 1]
        <5>1. i + 1 \in Int /\ Len(q) \in Int /\ \A n \in (i + 1)..Len(q) : q[n] \in Events
          BY <2>3
        <5> QED
          BY <5>1, SubSeqProperties
      <4> HIDE DEF b
      <4>2. Len(b) = Len(q) - i
        <5>1. Len(q) \in Int /\ i \in Int /\ i <= Len(q)
          BY <2>3
        <5>2. Len(q) - (i + 1) + 1 = Len(q) - i /\ (~(i + 1 <= Len(q)) => Len(q) - i = 0)
          BY <5>1
        <5> QED
          BY <4>1, <5>2
      <4>3. ASSUME NEW n \in 1..(Len(q) - i) PROVE b[n] = q[i + n]
        <5>1. n \in 1..(Len(q) - (i + 1) + 1) /\ (i + 1) + n - 1 = i + n
          BY <2>3
        <5> QED
          BY <4>1, <5>1
      <4> QED
        BY <4>1, <4>2, <4>3
    <3>3. r = a \o b
      BY DEF RemoveAt
    <3> HIDE DEF a, b, r
    <3>4. /\ a \o b \in Seq(Events) /\ Len(a \o b) = Len(q) - 1
          /\ \A n \in 1..(Len(q) - 1) : (a \o b)[n] = IF n <= i - 1 THEN a[n] ELSE b[n - (i - 1)]
      <4>1. Len(a) + Len(b) = Len(q) - 1
        BY <2>3, <3>1, <3>2
      <4> QED
        <5>1. /\ a \o b \in Seq(Events) /\ Len(a \o b) = Len(a) + Len(b)
              /\ \A n \in 1..(Len(a) + Len(b)) : (a \o b)[n] = IF n <= Len(a) THEN a[n] ELSE b[n - Len(a)]
          BY <3>1, <3>2, ConcatProperties, Zenon
        <5> QED
          BY <3>1, <4>1, <5>1, Zenon
    <3>5. ASSUME NEW n \in 1..(Len(q) - 1) PROVE r[n] = IF n < i THEN q[n] ELSE q[n + 1]
      <4>1. CASE n < i
        BY <2>3, <3>1, <3>3, <3>4, <3>5, <4>1
      <4>2. CASE ~(n < i)
        <5>1. n - (i - 1) \in 1..(Len(q) - i) /\ i + (n - (i - 1)) = n + 1
          BY <2>3, <3>5, <4>2
        <5>2. r[n] = b[n - (i - 1)]
          BY SMTT(40), <2>3, <3>3, <3>4, <3>5, <4>2
        <5>3. b[n - (i - 1)] = q[n + 1]
          BY <3>2, <5>1
        <5> QED
          BY <4>2, <5>2, <5>3
      <4> QED
        BY <4>1, <4>2
    <3>6. r \in Seq(Events) /\ DOMAIN r = 1..(Len(q) - 1)
      <4>1. Len(r) = Len(q) - 1 /\ r \in Seq(Events)
        BY <3>3, <3>4
      <4> QED
        BY <4>1
    <3> QED
      BY <3>5, <3>6
  <2> HIDE DEF r
  <2>5. Sorted(r, df)
    <3> SUFFICES ASSUME NEW m \in DOMAIN r, NEW n \in DOMAIN r, m < n
                 PROVE  r[m] # r[n] /\ df[r[m]] <= df[r[n]]
      BY DEF Sorted
    <3> DEFINE place(h) == IF h < i THEN h ELSE h + 1
    <3>1. m \in Int /\ n \in Int /\ i \in Int
      BY <2>3, <2>4
    <3>2. place(m) \in DOMAIN q /\ place(n) \in DOMAIN q
      <4>1. m \in 1..(Len(q) - 1) /\ n \in 1..(Len(q) - 1)
        BY <2>4
      <4>2. place(m) \in 1..Len(q)
        BY <2>3, <4>1
      <4>3. place(n) \in 1..Len(q)
        BY SMTT(40), <2>3, <4>1
      <4> QED
        BY <2>3, <4>2, <4>3
    <3>3. place(m) < place(n)
      BY <3>1
    <3>4. r[m] = q[place(m)] /\ r[n] = q[place(n)]
      BY <2>4
    <3> QED
      BY <3>2, <3>3, <3>4 DEF Sorted
  <2>6. ToSet(r) = ToSet(q) \ {e}
    <3>1. ASSUME NEW f \in ToSet(r) PROVE f \in ToSet(q) \ {e}
      <4>1. PICK n \in DOMAIN r : f = r[n]
        BY DEF ToSet
      <4>2. n < i => n \in DOMAIN q /\ f = q[n]
        BY SMTT(40), <2>3, <2>4, <4>1
      <4>3. ~(n < i) => n + 1 \in DOMAIN q /\ f = q[n + 1] /\ i < n + 1
        BY SMTT(40), <2>3, <2>4, <4>1
      <4> QED
        BY <2>1, <4>2, <4>3 DEF ToSet, Sorted
    <3>2. ASSUME NEW f \in ToSet(q), f # e PROVE f \in ToSet(r)
      <4>1. PICK n \in DOMAIN q : f = q[n]
        BY DEF ToSet
      <4>2. n # i
        BY <2>1, <3>2, <4>1
      <4>3. n < i => n \in DOMAIN r /\ r[n] = f
        BY SMTT(40), <2>3, <2>4, <4>1
      <4>4. ~(n < i) => n - 1 \in DOMAIN r /\ r[n - 1] = f
        BY SMTT(40), <2>3, <2>4, <4>1, <4>2
      <4> QED
        BY <4>3, <4>4 DEF ToSet
    <3> QED
      BY <3>1, <3>2
  <2>7. r # <<>> => q # <<>> /\ df[Head(q)] <= df[Head(r)]
    <3> SUFFICES ASSUME r # <<>> PROVE q # <<>> /\ df[Head(q)] <= df[Head(r)]
      OBVIOUS
    <3>1. 1 \in DOMAIN r /\ Head(r) = r[1] /\ 1 \in DOMAIN q /\ 2 \in DOMAIN q /\ q # <<>>
      BY <2>3, <2>4
    <3>2. Head(q) = q[1] /\ q[1] \in Events /\ q[2] \in Events
      BY <3>1
    <3>3. r[1] = q[1] \/ r[1] = q[2]
      BY <2>4, <3>1
    <3>4. df[q[1]] <= df[q[2]] /\ df[q[1]] <= df[q[1]]
      BY <3>1, <3>2 DEF Sorted
    <3> QED
      BY <3>1, <3>2, <3>3, <3>4
  <2> QED
    BY <2>2, <2>4, <2>5, <2>6, <2>7
<1> QED
  BY <1>1, <1>2

\* Taking the head leaves the others, in their order.
LEMMA TailSorted ==
    ASSUME NEW q \in Seq(Events), q # <<>>, NEW df, Sorted(q, df)
    PROVE  /\ Tail(q) \in Seq(Events)
           /\ Sorted(Tail(q), df)
           /\ ToSet(Tail(q)) = ToSet(q) \ {Head(q)}
           /\ \A f, e : Before(q, f, e) /\ f \in ToSet(Tail(q)) => Before(Tail(q), f, e)
<1>1. /\ Tail(q) \in Seq(Events) /\ DOMAIN Tail(q) = 1..(Len(q) - 1)
      /\ \A n \in 1..(Len(q) - 1) : Tail(q)[n] = q[n + 1]
      /\ Len(q) \in Nat /\ DOMAIN q = 1..Len(q) /\ Head(q) = q[1] /\ 1 \in DOMAIN q
  OBVIOUS
<1>2. Sorted(Tail(q), df)
  BY <1>1 DEF Sorted
<1>3. ToSet(Tail(q)) = ToSet(q) \ {Head(q)}
  <2>1. ASSUME NEW f \in ToSet(Tail(q)) PROVE f \in ToSet(q) \ {Head(q)}
    <3>1. PICK n \in DOMAIN Tail(q) : f = Tail(q)[n]
      BY DEF ToSet
    <3>2. n + 1 \in DOMAIN q /\ f = q[n + 1] /\ 1 < n + 1
      BY <1>1, <3>1
    <3> QED
      BY <1>1, <3>2 DEF ToSet, Sorted
  <2>2. ASSUME NEW f \in ToSet(q), f # Head(q) PROVE f \in ToSet(Tail(q))
    <3>1. PICK n \in DOMAIN q : f = q[n]
      BY DEF ToSet
    <3>2. n - 1 \in DOMAIN Tail(q) /\ Tail(q)[n - 1] = f
      BY <1>1, <2>2, <3>1
    <3> QED
      BY <3>2 DEF ToSet
  <2> QED
    BY <2>1, <2>2
<1>4. ASSUME NEW f, NEW e, Before(q, f, e), f \in ToSet(Tail(q)) PROVE Before(Tail(q), f, e)
  <2>1. PICK i \in DOMAIN q, j \in DOMAIN q : i < j /\ q[i] = f /\ q[j] = e
    BY <1>4 DEF Before
  <2>2. i # 1
    BY <1>1, <1>3, <1>4, <2>1
  <2>3. /\ i - 1 \in DOMAIN Tail(q) /\ j - 1 \in DOMAIN Tail(q) /\ i - 1 < j - 1
        /\ Tail(q)[i - 1] = f /\ Tail(q)[j - 1] = e
    BY <1>1, <2>1, <2>2
  <2> QED
    BY <2>3 DEF Before
<1> QED
  BY <1>1, <1>2, <1>3, <1>4
-----------------------------------------------------------------------------
(* The inductive invariant: each event belongs to one dispatcher.            *)

\* An actor is about to call the event, or calls it, for dispatcher d.
AtWork(e, d) == \E x \in Actors : pc[x] \in {"got", "call"} /\ ev[x] = e /\ disp[x] = d

\* What can put e on the queue of d, or has put it there.
Tied(e, d) == e \in ToSet(eventQ[d]) \/ home[e] = d \/ AtWork(e, d)

TiedOnce ==
    /\ \A e \in Events : \A c, d \in Dispatchers : Tied(e, c) /\ Tied(e, d) => c = d
    /\ \A e \in Events \ created : \A d \in Dispatchers : ~Tied(e, d)

\* An event that is called is on no queue, and nobody else calls it.
PlacedOnce ==
    \A x \in Actors : Executing(x) =>
        /\ ev[x] \notin ToSet(eventQ[disp[x]])
        /\ \A y \in Actors \ {x} : Executing(y) => ev[y] # ev[x]

QueueInv ==
    /\ TypeInv
    /\ \A d \in Dispatchers : Sorted(eventQ[d], due)
    /\ TiedOnce
    /\ PlacedOnce

\* An event that enters a queue goes behind those that are not due later.
EntersBehind ==
    \A d \in Dispatchers : \A e, f \in ToSet(eventQ'[d]) :
        e \notin ToSet(eventQ[d]) /\ f \in ToSet(eventQ[d]) /\ due[f] <= due'[e]
            => Before(eventQ'[d], f, e)

\* What every step must do.
QueueNext ==
    /\ \A d \in Dispatchers : Sorted(eventQ'[d], due')
    /\ TiedOnce'
    /\ PlacedOnce'
    /\ EntersBehind

\* The actors stay where they are, and what they call is not queued.
LEMMA PlacedSame ==
    ASSUME PlacedOnce, UNCHANGED <<pc, ev, disp>>,
           \A x \in Actors : Executing(x) => ev[x] \notin ToSet(eventQ'[disp[x]])
    PROVE  PlacedOnce'
BY DEF PlacedOnce, Executing

\* Nobody is tied to another dispatcher than before, and no queue changes.
LEMMA QueueQuiet ==
    ASSUME QueueInv, UNCHANGED <<eventQ, due, home, created>>,
           \A e \in Events, d \in Dispatchers : AtWork(e, d)' => AtWork(e, d),
           PlacedOnce'
    PROVE  QueueNext
<1>1. \A e \in Events, d \in Dispatchers : Tied(e, d)' => Tied(e, d)
  BY DEF Tied
<1>2. TiedOnce'
  BY <1>1 DEF QueueInv, TiedOnce
<1>3. EntersBehind
  BY DEF EntersBehind
<1> QED
  BY <1>2, <1>3 DEF QueueNext, QueueInv

\* The actors at work go on, or stop: an actor is only put to work by TakeNext.
LEMMA QueueMove ==
    ASSUME QueueInv, UNCHANGED <<eventQ, due, home, created, ev>>,
           \A x \in Actors : pc'[x] \in {"got", "call"} => /\ pc[x] \in {"got", "call"}
                                                           /\ disp'[x] = disp[x]
    PROVE  QueueNext
<1>1. PlacedOnce'
  BY DEF QueueInv, PlacedOnce, Executing
<1> QED
  BY <1>1, QueueQuiet DEF AtWork

\* The queue of d changes, around an event e that is tied to no other dispatcher.
LEMMA QueueChange ==
    ASSUME QueueInv, NEW d \in Dispatchers, NEW e \in Events, e \in created',
           NEW q \in Seq(Events), eventQ' = [eventQ EXCEPT ![d] = q],
           \A c \in Dispatchers : Tied(e, c) => c = d,
           \A f \in Events \ {e} : due'[f] = due[f],
           \A f \in Events, c \in Dispatchers :
               home'[f] = c \/ AtWork(f, c)' => Tied(f, c) \/ (f = e /\ c = d),
           created \subseteq created', PlacedOnce',
           Sorted(q, due'), ToSet(q) \subseteq ToSet(eventQ[d]) \cup {e},
           \A f \in ToSet(q) \cap ToSet(eventQ[d]) :
               e \in ToSet(q) \ ToSet(eventQ[d]) /\ due[f] <= due'[e] => Before(q, f, e)
    PROVE  QueueNext
<1>1. \A c \in Dispatchers : eventQ'[c] = IF c = d THEN q ELSE eventQ[c]
  BY DEF QueueInv, TypeInv, TypeOK
<1>2. \A f \in Events, c \in Dispatchers : Tied(f, c)' => Tied(f, c) \/ (f = e /\ c = d)
  <2> SUFFICES ASSUME NEW f \in Events, NEW c \in Dispatchers, f \in ToSet(eventQ'[c])
               PROVE  Tied(f, c) \/ (f = e /\ c = d)
    BY DEF Tied
  <2> QED
    BY <1>1 DEF Tied
<1>3. TiedOnce'
  <2>1. \A f \in Events \ {e}, c \in Dispatchers : Tied(f, c)' => Tied(f, c)
    BY <1>2
  <2>2. \A c \in Dispatchers : Tied(e, c)' => c = d
    BY <1>2
  <2> QED
    BY <2>1, <2>2 DEF QueueInv, TiedOnce
<1>4. ASSUME NEW c \in Dispatchers, c # d PROVE Sorted(eventQ[c], due')
  <2>1. eventQ[c] \in Seq(Events)
    BY DEF QueueInv, TypeInv, TypeOK
  <2>2. \A i \in DOMAIN eventQ[c] : eventQ[c][i] \in Events \ {e}
    <3>1. e \notin ToSet(eventQ[c])
      BY <1>4 DEF Tied
    <3> QED
      BY <2>1, <3>1 DEF ToSet
  <2>3. Sorted(eventQ[c], due)
    BY DEF QueueInv
  <2> QED
    BY <2>2, <2>3 DEF Sorted
<1>5. \A c \in Dispatchers : Sorted(eventQ'[c], due')
  BY <1>1, <1>4
<1>6. EntersBehind
  <2> SUFFICES ASSUME NEW c \in Dispatchers, NEW g \in ToSet(eventQ'[c]), NEW f \in ToSet(eventQ'[c]),
                      g \notin ToSet(eventQ[c]), f \in ToSet(eventQ[c]), due[f] <= due'[g]
               PROVE  Before(eventQ'[c], f, g)
    BY DEF EntersBehind
  <2>1. c = d /\ g = e
    BY <1>1
  <2> QED
    BY <1>1, <2>1
<1> QED
  BY <1>3, <1>5, <1>6 DEF QueueNext

-----------------------------------------------------------------------------
(* Every step keeps the invariant.                                           *)

\* The due time of an event that is not on the queue does not matter to it.
LEMMA SortedElsewhere ==
    ASSUME NEW q \in Seq(Events), NEW e, e \notin ToSet(q), NEW df, NEW dg,
           \A f \in Events \ {e} : dg[f] = df[f], Sorted(q, df)
    PROVE  Sorted(q, dg)
<1>1. \A i \in DOMAIN q : q[i] \in Events \ {e}
  BY DEF ToSet
<1> QED
  BY <1>1 DEF Sorted

LEMMA QueueCreate ==
    ASSUME QueueInv, TypeInv', NEW e \in Events, NEW d \in Dispatchers, NEW p \in Periods,
           NEW c \in BOOLEAN, CreateEvent(e, d, p, c)
    PROVE  QueueNext
<1> DEFINE q == Insert(eventQ[d], e, due')
<1>1. /\ e \notin created /\ created' = created \cup {e}
      /\ due' = [due EXCEPT ![e] = clock + p]
      /\ home' = [home EXCEPT ![e] = d]
      /\ eventQ' = [eventQ EXCEPT ![d] = q]
      /\ UNCHANGED <<pc, ev, disp>>
  BY DEF CreateEvent, actorVars
<1>2. eventQ[d] \in Seq(Events) /\ due' \in [Events -> Nat] /\ home \in [Events -> Dispatchers \cup {None}]
  BY DEF QueueInv, TypeInv, TypeOK
<1>3. \A b \in Dispatchers : ~Tied(e, b)
  BY <1>1 DEF QueueInv, TiedOnce
<1>4. \A f \in Events \ {e} : due'[f] = due[f]
  BY <1>1 DEF QueueInv, TypeInv, TypeOK
<1>5. Sorted(eventQ[d], due') /\ e \notin ToSet(eventQ[d])
  BY <1>2, <1>3, <1>4, SortedElsewhere DEF QueueInv, Tied
<1>6. q \in Seq(Events)
  BY <1>2, InsertType
<1>7. /\ Sorted(q, due') /\ ToSet(q) = ToSet(eventQ[d]) \cup {e}
      /\ \A f \in ToSet(eventQ[d]) : due'[f] <= due'[e] => Before(q, f, e)
  BY <1>2, <1>5, InsertSorted
<1> HIDE DEF q
<1>8. \A f \in Events, b \in Dispatchers :
          home'[f] = b \/ AtWork(f, b)' => Tied(f, b) \/ (f = e /\ b = d)
  BY <1>1, <1>2 DEF Tied, AtWork
<1>9. \A f \in ToSet(eventQ[d]) : f \in Events \ {e}
  BY <1>2, <1>5 DEF ToSet
<1>10. \A f \in ToSet(q) \cap ToSet(eventQ[d]) :
           e \in ToSet(q) \ ToSet(eventQ[d]) /\ due[f] <= due'[e] => Before(q, f, e)
  BY <1>4, <1>7, <1>9
<1>11. e \in created' /\ created \subseteq created' /\ ToSet(q) \subseteq ToSet(eventQ[d]) \cup {e}
  BY <1>1, <1>7
<1>12. \A b \in Dispatchers : Tied(e, b) => b = d
  BY <1>3
<1>13. PlacedOnce'
  <2>1. ASSUME NEW x \in Actors, Executing(x)
        PROVE  ev[x] \notin ToSet(eventQ'[disp[x]])
    <3>1. disp[x] \in Dispatchers /\ ev[x] \in Events
      BY <2>1 DEF Executing, QueueInv, TypeInv, Working, Outside
    <3>2. ev[x] # e /\ ev[x] \notin ToSet(eventQ[disp[x]])
      BY <1>3, <2>1, <3>1 DEF Executing, Tied, AtWork, QueueInv, PlacedOnce
    <3>3. ToSet(eventQ'[disp[x]]) \subseteq ToSet(eventQ[disp[x]]) \cup {e}
      BY <1>1, <1>11, <3>1 DEF QueueInv, TypeInv, TypeOK
    <3> QED
      BY <3>2, <3>3
  <2> QED
    BY <1>1, <2>1, PlacedSame DEF QueueInv
<1> QED
  BY ZenonT(40), <1>1, <1>4, <1>6, <1>7, <1>8, <1>10, <1>11, <1>12, <1>13, QueueChange

\* An event that leaves its queue is called by nobody for that.
LEMMA FewerPlaced ==
    ASSUME QueueInv, UNCHANGED <<pc, ev, disp>>,
           \A d \in Dispatchers : ToSet(eventQ'[d]) \subseteq ToSet(eventQ[d])
    PROVE  PlacedOnce'
<1>1. \A x \in Actors : Executing(x) => disp[x] \in Dispatchers
  BY DEF Executing, QueueInv, TypeInv, Working, Outside
<1> QED
  BY <1>1, PlacedSame DEF QueueInv, PlacedOnce

LEMMA QueueRemove ==
    ASSUME QueueInv, TypeInv', NEW e \in Events, NEW own \in BOOLEAN, RemoveEvent(e, own)
    PROVE  QueueNext
<1> DEFINE d == home[e]
           q == IF ~Running(e) THEN Drop(eventQ[d], e) ELSE eventQ[d]
<1>1. /\ home' = [home EXCEPT ![e] = None]
      /\ eventQ' = [eventQ EXCEPT ![d] = q]
      /\ UNCHANGED <<pc, ev, disp, due, created>>
      /\ d # None
  BY DEF RemoveEvent, actorVars
<1>2. /\ d \in Dispatchers /\ eventQ[d] \in Seq(Events) /\ due \in [Events -> Nat]
      /\ home \in [Events -> Dispatchers \cup {None}]
  BY <1>1 DEF QueueInv, TypeInv, TypeOK
<1>3. Tied(e, d)
  BY DEF Tied
<1>4. e \in created /\ \A b \in Dispatchers : Tied(e, b) => b = d
  BY <1>2, <1>3 DEF QueueInv, TiedOnce
<1>5. q \in Seq(Events) /\ Sorted(q, due) /\ ToSet(q) \subseteq ToSet(eventQ[d])
  BY <1>2, DropSorted DEF QueueInv
<1> HIDE DEF q, d
<1>6. \A f \in Events, b \in Dispatchers : home'[f] = b \/ AtWork(f, b)' => Tied(f, b)
  BY <1>1, <1>2, EventServiceAssumption DEF Tied, AtWork
<1>7. \A b \in Dispatchers : ToSet(eventQ'[b]) \subseteq ToSet(eventQ[b])
  BY <1>1, <1>2, <1>5 DEF QueueInv, TypeInv, TypeOK
<1>8. PlacedOnce'
  BY <1>1, <1>7, FewerPlaced
<1> QED
  BY <1>1, <1>2, <1>4, <1>5, <1>6, <1>8, QueueChange

LEMMA QueueDisable ==
    ASSUME QueueInv, TypeInv', NEW x \in Actors, DisableDispatcher(x)
    PROVE  QueueNext
<1> DEFINE d == disp[x]
           e == ev[x]
<1>1. /\ pc[x] = "call"
      /\ eventQ' = [eventQ EXCEPT ![d] = <<>>]
      /\ home' = [f \in Events |-> IF f \in ToSet(eventQ[d]) THEN None ELSE home[f]]
      /\ UNCHANGED <<pc, ev, disp, due, created>>
  BY DEF DisableDispatcher, actorVars
<1>2. d \in Dispatchers /\ e \in Events
  BY <1>1 DEF QueueInv, TypeInv, Working, Outside
<1>3. Tied(e, d)
  BY <1>1 DEF Tied, AtWork
<1>4. e \in created /\ \A b \in Dispatchers : Tied(e, b) => b = d
  BY <1>2, <1>3 DEF QueueInv, TiedOnce
<1>5. \A f \in Events, b \in Dispatchers : home'[f] = b \/ AtWork(f, b)' => Tied(f, b)
  BY <1>1, EventServiceAssumption DEF Tied, AtWork
<1>6. Sorted(<<>>, due) /\ ToSet(<<>>) = {} /\ <<>> \in Seq(Events)
  BY DEF Sorted, ToSet
<1>7. \A b \in Dispatchers : ToSet(eventQ'[b]) \subseteq ToSet(eventQ[b])
  BY <1>1, <1>2, <1>6 DEF QueueInv, TypeInv, TypeOK
<1>8. PlacedOnce'
  BY <1>1, <1>7, FewerPlaced
<1> QED
  BY <1>1, <1>2, <1>4, <1>5, <1>6, <1>8, QueueChange

\* An actor takes the head of the queue q, which has changed around event e.
LEMMA QueueTake ==
    ASSUME QueueInv, NEW x \in Actors, NEW d \in Dispatchers, d = disp[x],
           NEW e \in Events, e \in created, NEW q \in Seq(Events), TakeNext(x, q, due'),
           \A c \in Dispatchers : Tied(e, c) => c = d,
           \A f \in Events \ {e} : due'[f] = due[f],
           \A f \in Events, c \in Dispatchers : home'[f] = c => Tied(f, c) \/ (f = e /\ c = d),
           UNCHANGED <<created, disp>>,
           \A y \in Actors \ {x} : Executing(y) => ev[y] # e,
           Sorted(q, due'), ToSet(q) \subseteq ToSet(eventQ[d]) \cup {e},
           \A f \in ToSet(q) \cap ToSet(eventQ[d]) :
               e \in ToSet(q) \ ToSet(eventQ[d]) /\ due[f] <= due'[e] => Before(q, f, e)
    PROVE  QueueNext
<1>0. ASSUME NEW y \in Actors \ {x}, Executing(y)
      PROVE  /\ disp[y] \in Dispatchers /\ ev[y] \in Events
             /\ ev[y] \notin ToSet(eventQ[disp[y]]) /\ ev[y] \notin ToSet(q)
  <2>1. disp[y] \in Dispatchers /\ ev[y] \in Events
    BY <1>0 DEF Executing, QueueInv, TypeInv, Working, Outside
  <2>2. ev[y] \notin ToSet(eventQ[disp[y]]) /\ ev[y] # e
    BY <1>0 DEF QueueInv, PlacedOnce
  <2>3. ASSUME ev[y] \in ToSet(eventQ[d])
        PROVE  FALSE
    <3>1. Tied(ev[y], d) /\ Tied(ev[y], disp[y])
      BY <1>0, <2>3 DEF Tied, AtWork, Executing
    <3>2. disp[y] = d
      BY <2>1, <3>1 DEF QueueInv, TiedOnce
    <3> QED
      BY <2>2, <2>3, <3>2
  <2> QED
    BY <2>1, <2>2, <2>3
<1>1. CASE q # <<>> /\ enabled[d] /\ due'[Head(q)] <= now
  <2>1. /\ eventQ' = [eventQ EXCEPT ![d] = Tail(q)]
        /\ ev' = [ev EXCEPT ![x] = Head(q)]
        /\ pc' = [pc EXCEPT ![x] = "got"]
    BY <1>1 DEF TakeNext
  <2>2. /\ Tail(q) \in Seq(Events) /\ Sorted(Tail(q), due')
        /\ ToSet(Tail(q)) = ToSet(q) \ {Head(q)}
        /\ \A f, g : Before(q, f, g) /\ f \in ToSet(Tail(q)) => Before(Tail(q), f, g)
    BY <1>1, TailSorted
  <2>3. Head(q) \in ToSet(q)
    BY <1>1 DEF ToSet
  <2>4. \A y \in Actors : /\ pc'[y] = IF y = x THEN "got" ELSE pc[y]
                          /\ ev'[y] = IF y = x THEN Head(q) ELSE ev[y]
    BY <2>1 DEF QueueInv, TypeInv, TypeOK
  <2>5. ASSUME NEW f \in Events, NEW c \in Dispatchers, AtWork(f, c)'
        PROVE  Tied(f, c) \/ (f = e /\ c = d)
    BY <2>3, <2>4, <2>5 DEF Tied, AtWork
  <2>6. \A f \in Events, c \in Dispatchers :
            home'[f] = c \/ AtWork(f, c)' => Tied(f, c) \/ (f = e /\ c = d)
    BY <2>5
  <2>7. ToSet(Tail(q)) \subseteq ToSet(eventQ[d]) \cup {e}
    BY <2>2
  <2>8. \A f \in ToSet(Tail(q)) \cap ToSet(eventQ[d]) :
            e \in ToSet(Tail(q)) \ ToSet(eventQ[d]) /\ due[f] <= due'[e] => Before(Tail(q), f, e)
    BY <2>2
  <2>9. PlacedOnce'
    <3>1. eventQ'[d] = Tail(q) /\ \A c \in Dispatchers \ {d} : eventQ'[c] = eventQ[c]
      BY <2>1 DEF QueueInv, TypeInv, TypeOK
    <3>2. ASSUME NEW y \in Actors \ {x}, Executing(y)
          PROVE  ev[y] # Head(q) /\ ev[y] \notin ToSet(eventQ'[disp[y]])
      BY <1>0, <2>2, <2>3, <3>1, <3>2
    <3>3. /\ Executing(x)' /\ ev'[x] = Head(q)
          /\ \A y \in Actors \ {x} : (Executing(y)' <=> Executing(y)) /\ ev'[y] = ev[y]
      BY <2>4 DEF Executing
    <3>4. Head(q) \notin ToSet(eventQ'[d])
      BY <2>2, <3>1
    <3>5. \A y, z \in Actors \ {x} : y # z /\ Executing(y) /\ Executing(z) => ev[y] # ev[z]
      BY DEF QueueInv, PlacedOnce
    <3> HIDE DEF QueueInv
    <3> QED
      BY <3>2, <3>3, <3>4, <3>5 DEF PlacedOnce
  <2> QED
    BY ZenonT(40), <2>1, <2>2, <2>6, <2>7, <2>8, <2>9, QueueChange
<1>2. CASE ~(q # <<>> /\ enabled[d] /\ due'[Head(q)] <= now)
  <2>1. /\ eventQ' = [eventQ EXCEPT ![d] = q]
        /\ pc' = [pc EXCEPT ![x] = "finish"]
        /\ ev' = [ev EXCEPT ![x] = None]
    BY <1>2 DEF TakeNext
  <2>2. \A y \in Actors : /\ pc'[y] = IF y = x THEN "finish" ELSE pc[y]
                          /\ y # x => ev'[y] = ev[y]
    BY <2>1 DEF QueueInv, TypeInv, TypeOK
  <2>3. \A f \in Events, c \in Dispatchers :
            home'[f] = c \/ AtWork(f, c)' => Tied(f, c) \/ (f = e /\ c = d)
    BY <2>2 DEF Tied, AtWork
  <2>4. PlacedOnce'
    <3>1. eventQ'[d] = q /\ \A c \in Dispatchers \ {d} : eventQ'[c] = eventQ[c]
      BY <2>1 DEF QueueInv, TypeInv, TypeOK
    <3>2. ASSUME NEW y \in Actors \ {x}, Executing(y)
          PROVE  ev[y] \notin ToSet(eventQ'[disp[y]])
      BY <1>0, <3>1, <3>2
    <3>3. /\ ~Executing(x)'
          /\ \A y \in Actors \ {x} : (Executing(y)' <=> Executing(y)) /\ ev'[y] = ev[y]
      BY <2>2 DEF Executing
    <3>4. \A y, z \in Actors \ {x} : y # z /\ Executing(y) /\ Executing(z) => ev[y] # ev[z]
      BY DEF QueueInv, PlacedOnce
    <3> QED
      BY <3>2, <3>3, <3>4 DEF PlacedOnce
  <2> QED
    BY <2>1, <2>3, <2>4, QueueChange
<1> QED
  BY <1>1, <1>2

LEMMA QueueFetch ==
    ASSUME QueueInv, NEW x \in Actors, FetchEvent(x)
    PROVE  QueueNext
<1> DEFINE d == disp[x]
<1>1. /\ pc[x] = "fetch" /\ TakeNext(x, eventQ[d], due')
      /\ UNCHANGED <<due, home, created, disp>>
  BY DEF FetchEvent, eventVars
<1>2. d \in Dispatchers
  BY <1>1 DEF QueueInv, TypeInv, Working, Outside
<1>3. eventQ[d] \in Seq(Events) /\ Sorted(eventQ[d], due)
  BY <1>2 DEF QueueInv, TypeInv, TypeOK
<1>4. CASE eventQ[d] = <<>>
  <2>1. /\ eventQ' = [eventQ EXCEPT ![d] = eventQ[d]]
        /\ pc' = [pc EXCEPT ![x] = "finish"]
        /\ ev' = [ev EXCEPT ![x] = None]
    BY <1>1, <1>4 DEF TakeNext
  <2>2. eventQ' = eventQ
    BY <1>2, <2>1 DEF QueueInv, TypeInv, TypeOK
  <2>3. \A y \in Actors : /\ pc'[y] = IF y = x THEN "finish" ELSE pc[y]
                          /\ y # x => ev'[y] = ev[y]
    BY <2>1 DEF QueueInv, TypeInv, TypeOK
  <2>4. \A f \in Events, c \in Dispatchers : AtWork(f, c)' => AtWork(f, c)
    BY <1>1, <2>3 DEF AtWork
  <2>5. PlacedOnce'
    BY <1>1, <2>2, <2>3 DEF QueueInv, PlacedOnce, Executing
  <2> QED
    BY <1>1, <2>2, <2>4, <2>5, QueueQuiet
<1>5. CASE eventQ[d] # <<>>
  <2> DEFINE e == Head(eventQ[d])
  <2>1. e \in Events /\ e \in ToSet(eventQ[d])
    BY <1>3, <1>5 DEF ToSet
  <2>2. Tied(e, d)
    BY <2>1 DEF Tied
  <2>3. e \in created /\ \A c \in Dispatchers : Tied(e, c) => c = d
    BY <1>2, <2>1, <2>2 DEF QueueInv, TiedOnce
  <2>4. \A f \in Events, c \in Dispatchers : home'[f] = c => Tied(f, c)
    BY <1>1 DEF Tied
  <2>5. ASSUME NEW y \in Actors \ {x}, Executing(y)
        PROVE  ev[y] # e
    <3>1. disp[y] \in Dispatchers
      BY <2>5 DEF Executing, QueueInv, TypeInv, Working, Outside
    <3>2. ASSUME ev[y] = e
          PROVE  Tied(e, disp[y])
      BY <2>5, <3>2 DEF Tied, AtWork, Executing
    <3> HIDE DEF e
    <3> QED
      BY <2>1, <2>3, <2>5, <3>1, <3>2 DEF QueueInv, PlacedOnce
  <2> HIDE DEF e
  <2> QED
    BY <1>1, <1>2, <1>3, <2>1, <2>3, <2>4, <2>5, QueueTake
<1> QED
  BY <1>4, <1>5

LEMMA QueueReturn ==
    ASSUME QueueInv, TypeInv', NEW x \in Actors, ReturnEvent(x)
    PROVE  QueueNext
<1> DEFINE d  == disp[x]
           e  == ev[x]
           q  == IF continuous[e] THEN Insert(eventQ[d], e, due') ELSE eventQ[d]
<1>1. /\ pc[x] = "call"
      /\ due' = IF continuous[e]
                THEN [due EXCEPT ![e] = now + (IF period[e] > 0 THEN period[e] ELSE 1)] ELSE due
      /\ home' = IF continuous[e] THEN [home EXCEPT ![e] = d] ELSE home
      /\ TakeNext(x, q, due')
      /\ UNCHANGED <<created, disp>>
  BY DEF ReturnEvent
<1>2. d \in Dispatchers /\ e \in Events
  BY <1>1 DEF QueueInv, TypeInv, Working, Outside
<1>3. /\ eventQ[d] \in Seq(Events) /\ due \in [Events -> Nat] /\ due' \in [Events -> Nat]
      /\ home \in [Events -> Dispatchers \cup {None}]
  BY <1>2 DEF QueueInv, TypeInv, TypeOK
<1>4. Tied(e, d)
  BY <1>1 DEF Tied, AtWork
<1>5. e \in created /\ \A c \in Dispatchers : Tied(e, c) => c = d
  BY <1>2, <1>4 DEF QueueInv, TiedOnce
<1>6. \A f \in Events \ {e} : due'[f] = due[f]
  BY <1>1, <1>3
<1>7. \A f \in Events, c \in Dispatchers : home'[f] = c => Tied(f, c) \/ (f = e /\ c = d)
  BY <1>1, <1>3 DEF Tied
<1>8. /\ e \notin ToSet(eventQ[d])
      /\ \A y \in Actors \ {x} : Executing(y) => ev[y] # e
  BY <1>1 DEF QueueInv, PlacedOnce, Executing
<1>9. Sorted(eventQ[d], due')
  <2> HIDE DEF d, e
  <2>1. Sorted(eventQ[d], due)
    BY <1>2 DEF QueueInv
  <2> QED
    BY SMTT(40), <1>3, <1>6, <1>8, <2>1, SortedElsewhere
<1>10. /\ q \in Seq(Events) /\ Sorted(q, due') /\ ToSet(q) \subseteq ToSet(eventQ[d]) \cup {e}
       /\ \A f \in ToSet(q) \cap ToSet(eventQ[d]) :
              e \in ToSet(q) \ ToSet(eventQ[d]) /\ due[f] <= due'[e] => Before(q, f, e)
  <2>1. CASE continuous[e]
    <3> DEFINE r == Insert(eventQ[d], e, due')
    <3>1. /\ r \in Seq(Events) /\ Sorted(r, due') /\ ToSet(r) = ToSet(eventQ[d]) \cup {e}
          /\ \A f \in ToSet(eventQ[d]) : due'[f] <= due'[e] => Before(r, f, e)
      BY <1>2, <1>3, <1>8, <1>9, InsertSorted, InsertType
    <3>2. q = r
      BY <2>1
    <3> HIDE DEF r, q
    <3>3. \A f \in ToSet(eventQ[d]) : f \in Events \ {e}
      BY <1>3, <1>8 DEF ToSet
    <3> QED
      BY <1>6, <3>1, <3>2, <3>3
  <2>2. CASE ~continuous[e]
    BY <1>3, <1>8, <1>9, <2>2
  <2> QED
    BY <2>1, <2>2
<1> HIDE DEF q, d, e
<1> QED
  BY ZenonT(40), <1>1, <1>2, <1>5, <1>6, <1>7, <1>8, <1>10, QueueTake DEF d

\* What the other steps do to the actors: those at work stay where they are.
LEMMA QueueRest ==
    ASSUME QueueInv,
           \/ Tick \/ ServiceStep \/ UNCHANGED vars
           \/ \E e \in Events, enable \in BOOLEAN : EnableContinuousEvent(e, enable)
           \/ \E x \in Actors : \/ CallEvent(x) \/ FinishDispatch(x) \/ StartService(x)
                                \/ RescheduleDispatcher(x) \/ Retire(x)
           \/ \E x \in Waits : \/ WaitStep(x)
                               \/ \E d \in Dispatchers, w \in Workers \cup {x}, t \in Periods :
                                     BeginWait(x, d, w, t)
    PROVE  QueueNext
<1> DEFINE Quiet == UNCHANGED <<eventQ, due, home, created, ev>>
           Kept  == \A y \in Actors : pc'[y] \in {"got", "call"} => /\ pc[y] \in {"got", "call"}
                                                                    /\ disp'[y] = disp[y]
<1>0. /\ pc \in [Actors -> UNION {PcsOf(x) : x \in Actors}]
      /\ disp \in [Actors -> Dispatchers \cup {None}]
  BY DEF QueueInv, TypeInv, TypeOK
<1> SUFFICES Quiet /\ Kept
  BY QueueMove
<1>1. CASE Tick \/ UNCHANGED vars \/ \E e \in Events, enable \in BOOLEAN : EnableContinuousEvent(e, enable)
  BY <1>1 DEF Tick, EnableContinuousEvent, vars, queueVars, eventVars, actorVars
<1>2. ASSUME NEW x \in Actors,
             \/ CallEvent(x) \/ FinishDispatch(x) \/ StartService(x)
             \/ RescheduleDispatcher(x) \/ Retire(x)
      PROVE  Quiet /\ Kept
  BY <1>0, <1>2 DEF CallEvent, FinishDispatch, StartService, RescheduleDispatcher, Retire,
     queueVars, eventVars
<1>3. CASE ServiceStep
  <2>1. ASSUME NEW d \in Dispatchers, PickPending(d) \/ PickReady(d)
        PROVE  Quiet /\ Kept
    BY <1>0, <2>1 DEF PickPending, PickReady, TakeOver, queueVars, eventVars
  <2>2. CASE ServiceDispatcher
    BY <1>0, <2>2, EventServiceAssumption DEF ServiceDispatcher, Idle, Actors, queueVars, eventVars
  <2>3. CASE QueuePending \/ NothingReady \/ Sleep \/ Awake \/ LoopAgain
    BY <1>0, <2>3 DEF QueuePending, NothingReady, Sleep, Awake, LoopAgain, queueVars, eventVars
  <2> QED
    BY <1>3, <2>1, <2>2, <2>3 DEF ServiceStep
<1>4. ASSUME NEW x \in Waits, WaitStep(x)
      PROVE  Quiet /\ Kept
  <2>1. ASSUME ClaimDispatcher(x) \/ LoopWait(x) \/ PrepareWait(x)
        PROVE  Quiet /\ Kept
    BY <1>0, <2>1 DEF ClaimDispatcher, LoopWait, PrepareWait, queueVars, eventVars
  <2>2. ASSUME WaitSignalled(x) \/ WaitTimedOut(x) \/ EndWait(x)
        PROVE  Quiet /\ Kept
    BY <1>0, <2>2 DEF WaitSignalled, WaitTimedOut, EndWait, queueVars, eventVars
  <2> QED
    BY <1>4, <2>1, <2>2 DEF WaitStep
<1>5. ASSUME NEW x \in Waits, NEW d \in Dispatchers, NEW w \in Workers \cup {x}, NEW t \in Periods,
             BeginWait(x, d, w, t)
      PROVE  Quiet /\ Kept
  BY <1>0, <1>5 DEF BeginWait, queueVars, eventVars
<1> QED
  BY <1>1, <1>2, <1>3, <1>4, <1>5

\* The invariant is inductive, and each step lets events enter in their order.
LEMMA QueueInit == Init => QueueInv
<1> SUFFICES ASSUME Init
             PROVE  QueueInv
  OBVIOUS
<1>1. TypeInv
  BY TypeInit
<1>2. \A d \in Dispatchers : Sorted(eventQ[d], due)
  BY DEF Init, Sorted
<1>3. \A e \in Events, d \in Dispatchers : ~Tied(e, d)
  BY EventServiceAssumption DEF Init, Tied, AtWork, ToSet
<1> QED
  BY <1>1, <1>2, <1>3 DEF QueueInv, TiedOnce, PlacedOnce, Executing, Init

LEMMA QueueStep == QueueInv /\ [Next]_vars => QueueInv' /\ EntersBehind
<1> SUFFICES ASSUME QueueInv, [Next]_vars
             PROVE  QueueInv' /\ EntersBehind
  OBVIOUS
<1>1. TypeInv'
  BY TypeNext DEF QueueInv
<1>2. QueueNext
  <2>1. ASSUME NEW e \in Events, EventStep(e)
        PROVE  QueueNext
    BY <1>1, <2>1, QueueCreate, QueueRemove, QueueRest DEF EventStep
  <2>2. ASSUME NEW x \in Actors, DispatchStep(x) \/ DisableDispatcher(x)
        PROVE  QueueNext
    BY <1>1, <2>2, QueueFetch, QueueReturn, QueueDisable, QueueRest DEF DispatchStep
  <2> QED
    BY <2>1, <2>2, QueueRest DEF Next
<1> QED
  BY <1>1, <1>2 DEF QueueInv, QueueNext

\* Events are queued in the order in which they are due, each at most once, on
\* one dispatcher only: whoever creates, removes or runs them.
THEOREM QueuesStaySorted == Spec => []QueuesSorted
<1>1. QueueInv => QueuesSorted
  <2> SUFFICES ASSUME QueueInv, NEW d \in Dispatchers
               PROVE  /\ \A i, j \in DOMAIN eventQ[d] : i < j =>
                            /\ eventQ[d][i] # eventQ[d][j]
                            /\ due[eventQ[d][i]] <= due[eventQ[d][j]]
                      /\ \A c \in Dispatchers \ {d} : ToSet(eventQ[c]) \cap ToSet(eventQ[d]) = {}
    BY DEF QueuesSorted
  <2>1. Sorted(eventQ[d], due)
    BY DEF QueueInv
  <2>2. ASSUME NEW c \in Dispatchers \ {d}, NEW e \in ToSet(eventQ[c]), e \in ToSet(eventQ[d])
        PROVE  FALSE
    <3>1. e \in Events
      <4>1. eventQ[c] \in Seq(Events)
        BY DEF QueueInv, TypeInv, TypeOK
      <4> QED
        BY <4>1 DEF ToSet
    <3> QED
      BY <2>2, <3>1 DEF QueueInv, TiedOnce, Tied
  <2> QED
    BY <2>1, <2>2 DEF Sorted
<1> QED
  BY <1>1, QueueInit, QueueStep, PTL DEF Spec

\* First come, first served among events due at the same time: an event that
\* enters a queue goes behind every event that is not due later.
FirstComeFirstServed ==
    [][\A d \in Dispatchers : \A e, f \in ToSet(eventQ'[d]) :
          e \notin ToSet(eventQ[d]) /\ f \in ToSet(eventQ[d]) /\ due[f] <= due'[e]
              => Before(eventQ'[d], f, e)]_vars

\* An event that enters a queue, new or continuous, goes behind
\* every event of the queue that is not due later.
THEOREM ServedInOrder == Spec => FirstComeFirstServed
<1>1. QueueInv /\ [Next]_vars => [EntersBehind]_vars
  BY QueueStep
<1> QED
  BY <1>1, QueueInit, QueueStep, PTL DEF Spec, FirstComeFirstServed, EntersBehind

-----------------------------------------------------------------------------
(* pendingCount.                                                             *)

PendingInv ==
    /\ TypeInv
    /\ IsFiniteSet(On("pending"))
    /\ PendingCountCovers

\* Nobody joins the pending queue, and its count stays: disabling or scheduling
\* a dispatcher, or waiting for its events, takes it off without telling.
LEMMA PendingQuiet ==
    ASSUME PendingInv, UNCHANGED pendingCount,
           \A d \in Dispatchers : parent'[d] = "pending" => parent[d] = "pending"
    PROVE  (IsFiniteSet(On("pending")) /\ PendingCountCovers)'
<1>1. On("pending")' \subseteq On("pending")
  BY DEF On
<1>2. IsFiniteSet(On("pending")') /\ Cardinality(On("pending")') <= Cardinality(On("pending"))
  BY <1>1, FS_Subset DEF PendingInv
<1>3. Cardinality(On("pending")) \in Nat /\ Cardinality(On("pending")') \in Nat /\ pendingCount \in Int
  BY <1>2, FS_CardinalityType DEF PendingInv, TypeInv, TypeOK
<1> QED
  BY <1>2, <1>3 DEF PendingInv, PendingCountCovers

\* mprScheduleDispatcher puts no dispatcher on the pending queue.
LEMMA ScheduledNotPending ==
    ASSUME TypeInv, NEW d \in Dispatchers, NEW b, NEW p, NEW q, NEW df, NEW t,
           p = parent[d] \/ p = "none",
           Schedule(d, p, q, df, t) \/ ScheduleIf(b, d, q, df, t)
    PROVE  \A c \in Dispatchers : parent'[c] = "pending" => parent[c] = "pending"
BY DEF TypeInv, TypeOK, ScheduleIf, Schedule, Scheduled

LEMMA PendingStep == PendingInv /\ [Next]_vars => PendingInv'
<1> SUFFICES ASSUME PendingInv, [Next]_vars
             PROVE  PendingInv'
  OBVIOUS
<1> DEFINE PendingNext == (IsFiniteSet(On("pending")) /\ PendingCountCovers)'
           Quiet == \A d \in Dispatchers : parent'[d] = "pending" => parent[d] = "pending"
<1>0. TypeInv /\ TypeInv'
  BY TypeNext DEF PendingInv
<1>a. parent \in [Dispatchers -> ParentQueues] /\ pendingCount \in Int
  BY <1>0 DEF TypeInv, TypeOK
<1> SUFFICES PendingNext
  BY <1>0 DEF PendingInv
<1>b. /\ IsFiniteSet(On("pending")) /\ Cardinality(On("pending")) <= pendingCount
      /\ Cardinality(On("pending")) \in Nat
  BY FS_CardinalityType DEF PendingInv, PendingCountCovers
<1>1. ASSUME NEW e \in Events, EventStep(e)
      PROVE  PendingNext
  <2>1. ASSUME NEW d \in Dispatchers, NEW p \in Periods, NEW c \in BOOLEAN, CreateEvent(e, d, p, c)
        PROVE  Quiet /\ UNCHANGED pendingCount
    BY <1>0, <2>1, ScheduledNotPending DEF CreateEvent
  <2>2. ASSUME NEW own \in BOOLEAN, RemoveEvent(e, own)
        PROVE  Quiet /\ UNCHANGED pendingCount
    <3>1. home[e] \in Dispatchers
      BY <1>0, <2>2 DEF RemoveEvent, TypeInv, TypeOK
    <3> QED
      BY <1>0, <2>2, <3>1, ScheduledNotPending DEF RemoveEvent
  <2>4. ASSUME NEW enable \in BOOLEAN, EnableContinuousEvent(e, enable)
        PROVE  Quiet /\ UNCHANGED pendingCount
    BY <2>4 DEF EnableContinuousEvent, dispatcherVars
  <2> QED
    BY <1>1, <2>1, <2>2, <2>4, PendingQuiet DEF EventStep
<1>2. ASSUME NEW x \in Actors, DispatchStep(x) \/ DisableDispatcher(x)
      PROVE  PendingNext
  <2>0. pc[x] \notin Outside => disp[x] \in Dispatchers
    BY <1>0 DEF TypeInv, Working
  <2>1. CASE DisableDispatcher(x)
    BY <1>a, <2>1, PendingQuiet DEF DisableDispatcher
  <2>2. CASE FetchEvent(x)
    BY <1>a, <2>2, PendingQuiet DEF FetchEvent
  <2>3. CASE ReturnEvent(x)
    <3>1. disp[x] \in Dispatchers
      BY <2>0, <2>3 DEF ReturnEvent, Outside
    <3>2. \E b, q, df : ScheduleIf(b, disp[x], q, df, now)
      BY <2>3 DEF ReturnEvent
    <3>3. UNCHANGED pendingCount
      BY <2>3 DEF ReturnEvent
    <3> QED
      BY <1>0, <3>1, <3>2, <3>3, ScheduledNotPending, PendingQuiet
  <2>4. CASE RescheduleDispatcher(x)
    <3>1. disp[x] \in Dispatchers
      BY <2>0, <2>4 DEF RescheduleDispatcher, Outside
    <3>2. \/ Schedule(disp[x], "none", eventQ[disp[x]], due, now)
          \/ UNCHANGED parent
      BY <2>4 DEF RescheduleDispatcher
    <3>3. UNCHANGED pendingCount
      BY <2>4 DEF RescheduleDispatcher
    <3> QED
      BY <1>0, <3>1, <3>2, <3>3, ScheduledNotPending, PendingQuiet
  <2>5. CASE CallEvent(x) \/ FinishDispatch(x) \/ StartService(x) \/ Retire(x)
    BY <2>5, PendingQuiet DEF CallEvent, FinishDispatch, StartService, Retire, dispatcherVars
  <2> QED
    BY <1>2, <2>1, <2>2, <2>3, <2>4, <2>5 DEF DispatchStep
<1>3. CASE ServiceStep
  <2>1. ASSUME NEW d \in Dispatchers, PickPending(d)
        PROVE  PendingNext
    <3>1. /\ d \in On("pending") /\ parent' = [parent EXCEPT ![d] = "run"]
          /\ pendingCount' = pendingCount - 1
      BY <2>1 DEF PickPending, TakeOver
    <3>2. On("pending")' = On("pending") \ {d}
      BY <1>a, <3>1 DEF On
    <3>3. /\ IsFiniteSet(On("pending") \ {d})
          /\ Cardinality(On("pending") \ {d}) = Cardinality(On("pending")) - 1
      BY <1>b, <3>1, FS_RemoveElement
    <3> QED
      BY <1>a, <1>b, <3>1, <3>2, <3>3 DEF PendingCountCovers
  <2>2. ASSUME NEW d \in Dispatchers, PickReady(d)
        PROVE  PendingNext
    BY <1>a, <2>2, PendingQuiet DEF PickReady, TakeOver
  <2>3. CASE QueuePending
    <3> DEFINE d == disp[Service]
    <3>1. /\ parent' = [parent EXCEPT ![d] = "pending"] /\ pendingCount' = pendingCount + 1
          /\ d \in Dispatchers
      BY <1>0, <2>3 DEF QueuePending, TypeInv, Working, Outside, Actors
    <3>2. On("pending")' = On("pending") \cup {d}
      BY <1>a, <3>1 DEF On
    <3>3. /\ IsFiniteSet(On("pending") \cup {d})
          /\ Cardinality(On("pending") \cup {d}) <= Cardinality(On("pending")) + 1
      <4>1. /\ IsFiniteSet(On("pending") \cup {d})
            /\ \/ Cardinality(On("pending") \cup {d}) = Cardinality(On("pending"))
               \/ Cardinality(On("pending") \cup {d}) = Cardinality(On("pending")) + 1
        BY <1>b, FS_AddElement, Zenon
      <4> QED
        BY <1>b, <4>1
    <3>4. Cardinality(On("pending") \cup {d}) \in Nat
      BY <3>3, FS_CardinalityType
    <3> HIDE DEF d
    <3>5. Cardinality(On("pending") \cup {d}) <= pendingCount'
      BY <1>a, <1>b, <3>1, <3>3, <3>4
    <3> QED
      BY <3>2, <3>3, <3>5 DEF PendingCountCovers
  <2>4. CASE ServiceDispatcher \/ NothingReady \/ Sleep \/ Awake \/ LoopAgain
    BY <2>4, PendingQuiet DEF ServiceDispatcher, NothingReady, Sleep, Awake, LoopAgain, dispatcherVars
  <2> QED
    BY <1>3, <2>1, <2>2, <2>3, <2>4 DEF ServiceStep
<1>4. ASSUME NEW x \in Waits, WaitStep(x)
      PROVE  PendingNext
  <2>1. CASE ClaimDispatcher(x)
    BY <1>a, <2>1, PendingQuiet DEF ClaimDispatcher
  <2>2. CASE EndWait(x)
    <3>1. disp[x] \in Dispatchers
      BY <1>0, <2>2 DEF EndWait, TypeInv, Working, Outside, Actors
    <3>2. \/ Schedule(disp[x], "none", eventQ[disp[x]], due, now)
          \/ UNCHANGED parent
      BY <2>2 DEF EndWait
    <3>3. UNCHANGED pendingCount
      BY <2>2 DEF EndWait
    <3> QED
      BY <1>0, <3>1, <3>2, <3>3, ScheduledNotPending, PendingQuiet
  <2>3. CASE LoopWait(x) \/ PrepareWait(x) \/ WaitSignalled(x) \/ WaitTimedOut(x)
    BY <2>3, PendingQuiet DEF LoopWait, PrepareWait, WaitSignalled, WaitTimedOut, dispatcherVars
  <2> QED
    BY <1>4, <2>1, <2>2, <2>3 DEF WaitStep
<1>5. ASSUME NEW x \in Waits, NEW d \in Dispatchers, NEW w \in Workers \cup {x}, NEW t \in Periods,
             BeginWait(x, d, w, t)
      PROVE  PendingNext
  BY <1>5, PendingQuiet DEF BeginWait, dispatcherVars
<1>6. CASE Tick \/ UNCHANGED vars
  BY <1>6, PendingQuiet DEF Tick, vars, dispatcherVars
<1> QED
  BY <1>1, <1>2, <1>3, <1>4, <1>5, <1>6 DEF Next

\* es->pendingCount is never less than the number of dispatchers on the pending
\* queue, though some leave that queue without being counted out: so
\* getNextReadyDispatcher never counts below zero.
THEOREM PendingIsCounted == Spec => []PendingCountCovers
<1>1. Init => PendingInv
  <2> SUFFICES ASSUME Init
               PROVE  PendingInv
    OBVIOUS
  <2>1. On("pending") = {} /\ pendingCount = 0
    BY DEF Init, On
  <2> QED
    BY <2>1, TypeInit, FS_EmptySet DEF PendingInv, PendingCountCovers
<1>2. PendingInv => PendingCountCovers
  BY DEF PendingInv
<1> QED
  BY <1>1, <1>2, PendingStep, PTL DEF Spec

-----------------------------------------------------------------------------
(* The sleep of the service thread.                                          *)

\* What is known when the service thread sleeps comes from before: a request to
\* wake it up is in the pipe until it is awake, dispatchers wait only while
\* they are enabled, and it lay down because no pending one had a worker.
WakeInv ==
    /\ pc[Service] # "woke" /\ wakeRequested => wakePipe
    /\ pc[Service] = "epoll" => waiting
    /\ \A d \in Dispatchers : parent[d] = "wait" => enabled[d]
    /\ pc[Service] \in {"sleep", "epoll"} /\ ~wakePipe => (On("pending") # {} => ~AvailableWorkers)
    /\ NoLostWakeup

SleepInv == SerialInv /\ QueueInv /\ WakeInv

\* mprWakeNotifier is heard, unless it was called before.
LEMMA NotifierIsHeard ==
    ASSUME TypeInv, NEW b, WakeNotifierIf(b)
    PROVE  /\ wakeRequested' => wakeRequested \/ wakePipe'
           /\ wakePipe => wakePipe'
           /\ b => wakeRequested \/ wakePipe'
BY DEF WakeNotifierIf, TypeInv, TypeOK

\* A dispatcher is scheduled while the service thread sleeps: either it wakes
\* up, or it sleeps no longer than until the first event of the queue.
LEMMA ScheduleIsHeard ==
    ASSUME NEW d \in Dispatchers, enabled[d], waiting, NEW p, NEW q \in Seq(Events),
           NEW df \in [Events -> Nat], NEW t \in Nat, willAwake \in Int,
           ~SchedulingWakes(d, p, q, df, t)
    PROVE  /\ Scheduled(d, p, q, df, t) # "ready"
           /\ q # <<>> => df[Head(q)] >= willAwake
<1>1. CASE q = <<>>
  BY <1>1 DEF SchedulingWakes, Scheduled
<1>2. CASE q # <<>>
  <2>1. df[Head(q)] \in Nat
    BY <1>2
  <2> QED
    BY <1>2, <2>1 DEF SchedulingWakes, Scheduled
<1> QED
  BY <1>1, <1>2

\* A step of another thread that concerns dispatcher d.
LEMMA WakeChange ==
    ASSUME TypeInv, WakeInv, NEW d \in Dispatchers,
           pc'[Service] = pc[Service], Idle' \subseteq Idle, UNCHANGED sleepVars,
           wakeRequested' => wakeRequested \/ wakePipe', wakePipe => wakePipe',
           \A c \in Dispatchers \ {d} :
              /\ parent'[c] = parent[c] /\ enabled'[c] = enabled[c] /\ eventQ'[c] = eventQ[c]
              /\ eventQ[c] # <<>> => due'[Head(eventQ[c])] = due[Head(eventQ[c])],
           parent'[d] = "wait" => enabled'[d],
           parent'[d] = "pending" => parent[d] = "pending",
           pc[Service] = "epoll" /\ ~wakePipe /\ ~wakePipe' =>
              /\ parent'[d] # "ready"
              /\ parent'[d] = "wait" /\ eventQ'[d] # <<>> => due'[Head(eventQ'[d])] >= willAwake
    PROVE  WakeInv'
<1>1. pc'[Service] # "woke" /\ wakeRequested' => wakePipe'
  BY DEF WakeInv
<1>2. pc'[Service] = "epoll" => waiting'
  BY DEF WakeInv, sleepVars
<1>3. \A c \in Dispatchers : parent'[c] = "wait" => enabled'[c]
  BY DEF WakeInv
<1>4. pc'[Service] \in {"sleep", "epoll"} /\ ~wakePipe' => (On("pending")' # {} => ~AvailableWorkers')
  <2>1. On("pending")' \subseteq On("pending")
    BY DEF On
  <2> QED
    BY <2>1 DEF WakeInv, AvailableWorkers
<1>5. NoLostWakeup'
  <2> SUFFICES ASSUME pc'[Service] = "epoll", ~wakePipe'
               PROVE  /\ On("ready")' = {}
                      /\ \A c \in On("wait")' : eventQ'[c] # <<>> => due'[Head(eventQ'[c])] >= willAwake'
    BY <1>4 DEF NoLostWakeup
  <2>1. /\ pc[Service] = "epoll" /\ ~wakePipe /\ willAwake' = willAwake
    BY DEF sleepVars
  <2>2. /\ \A c \in Dispatchers : parent[c] # "ready"
        /\ \A c \in Dispatchers : parent[c] = "wait" /\ eventQ[c] # <<>>
                                      => due[Head(eventQ[c])] >= willAwake
    BY <2>1 DEF WakeInv, NoLostWakeup, On
  <2> QED
    BY <2>1, <2>2 DEF On
<1> QED
  BY <1>1, <1>2, <1>3, <1>4, <1>5, Zenon DEF WakeInv

\* A step that concerns no dispatcher.
LEMMA WakeQuiet ==
    ASSUME TypeInv, WakeInv, pc'[Service] = pc[Service], Idle' \subseteq Idle,
           UNCHANGED <<parent, enabled, eventQ, due, sleepVars>>,
           wakeRequested' => wakeRequested \/ wakePipe', wakePipe => wakePipe'
    PROVE  WakeInv'
<1>1. pc'[Service] # "woke" /\ wakeRequested' => wakePipe'
  BY DEF WakeInv
<1>2. /\ pc'[Service] = "epoll" => waiting'
      /\ \A c \in Dispatchers : parent'[c] = "wait" => enabled'[c]
  BY DEF WakeInv, sleepVars
<1>3. On("pending")' = On("pending") /\ On("ready")' = On("ready") /\ On("wait")' = On("wait")
  BY DEF On
<1>4. pc'[Service] \in {"sleep", "epoll"} /\ ~wakePipe' => (On("pending")' # {} => ~AvailableWorkers')
  BY <1>3 DEF WakeInv, AvailableWorkers
<1>5. NoLostWakeup'
  BY <1>3, <1>4 DEF WakeInv, NoLostWakeup, sleepVars
<1> QED
  BY <1>1, <1>2, <1>4, <1>5, Zenon DEF WakeInv

\* The heads of the other queues are due as before when e is tied to d.
LEMMA HeadsElsewhere ==
    ASSUME QueueInv, NEW d \in Dispatchers, NEW e \in Events,
           \A c \in Dispatchers : Tied(e, c) => c = d,
           \A f \in Events \ {e} : due'[f] = due[f],
           NEW c \in Dispatchers \ {d}, eventQ[c] # <<>>
    PROVE  due'[Head(eventQ[c])] = due[Head(eventQ[c])]
<1>1. eventQ[c] \in Seq(Events)
  BY DEF QueueInv, TypeInv, TypeOK
<1>2. Head(eventQ[c]) \in Events /\ Head(eventQ[c]) \in ToSet(eventQ[c])
  BY <1>1 DEF ToSet
<1>3. Head(eventQ[c]) # e
  BY <1>2 DEF Tied
<1> QED
  BY <1>2, <1>3

\* Whoever queues an event on d and schedules d is heard.
LEMMA WakeCreate ==
    ASSUME SleepInv, TypeInv', NEW e \in Events, NEW d \in Dispatchers, NEW p \in Periods,
           NEW c \in BOOLEAN, CreateEvent(e, d, p, c)
    PROVE  WakeInv'
<1> DEFINE q == Insert(eventQ[d], e, due')
           wakes == enabled[d] /\ SchedulingWakes(d, parent[d], q, due', clock)
<1>0. TypeInv /\ QueueInv /\ WakeInv
  BY DEF SleepInv, SerialInv
<1>1. /\ e \notin created
      /\ due' = [due EXCEPT ![e] = clock + p]
      /\ eventQ' = [eventQ EXCEPT ![d] = q]
      /\ UNCHANGED <<pc, sleepVars, enabled>>
      /\ ScheduleIf(enabled[d], d, eventQ'[d], due', clock)
  BY DEF CreateEvent, actorVars
<1>2. /\ due' \in [Events -> Nat] /\ clock \in Nat /\ willAwake \in Int
      /\ due \in [Events -> Nat] /\ eventQ \in [Dispatchers -> Seq(Events)]
      /\ parent \in [Dispatchers -> ParentQueues]
  BY <1>0 DEF TypeInv, TypeOK
<1>3. q \in Seq(Events) /\ \A b \in Dispatchers : eventQ'[b] = IF b = d THEN q ELSE eventQ[b]
  BY <1>1, <1>2, InsertType
<1> HIDE DEF q
<1>4. \A b \in Dispatchers \ {d} : eventQ[b] # <<>> => due'[Head(eventQ[b])] = due[Head(eventQ[b])]
  <2>1. \A b \in Dispatchers : Tied(e, b) => b = d
    BY <1>0, <1>1 DEF QueueInv, TiedOnce
  <2>2. \A f \in Events \ {e} : due'[f] = due[f]
    BY <1>1, <1>2
  <2> QED
    BY <1>0, <2>1, <2>2, HeadsElsewhere
<1>5. /\ parent' = [parent EXCEPT ![d] = IF enabled[d] THEN Scheduled(d, @, q, due', clock) ELSE @]
      /\ enabled[d] => WakeNotifierIf(SchedulingWakes(d, parent[d], q, due', clock))
      /\ ~enabled[d] => UNCHANGED wakeVars
  BY <1>1, <1>2, <1>3 DEF ScheduleIf, Schedule
<1>6. /\ wakeRequested' => wakeRequested \/ wakePipe'
      /\ wakePipe => wakePipe'
      /\ wakes => wakeRequested \/ wakePipe'
  BY <1>0, <1>5, NotifierIsHeard DEF wakeVars
<1>7. /\ parent'[d] = "wait" => enabled'[d]
      /\ parent'[d] = "pending" => parent[d] = "pending"
      /\ \A b \in Dispatchers \ {d} : parent'[b] = parent[b]
  BY <1>0, <1>1, <1>2, <1>5 DEF Scheduled, WakeInv
<1>8. ASSUME pc[Service] = "epoll", ~wakePipe, ~wakePipe'
      PROVE  /\ parent'[d] # "ready"
             /\ parent'[d] = "wait" /\ eventQ'[d] # <<>> => due'[Head(eventQ'[d])] >= willAwake
  <2>1. waiting /\ ~wakeRequested /\ ~wakes /\ parent[d] # "ready"
    BY <1>0, <1>6, <1>8 DEF WakeInv, NoLostWakeup, On
  <2>2. CASE enabled[d]
    <3>1. /\ Scheduled(d, parent[d], q, due', clock) # "ready"
          /\ q # <<>> => due'[Head(q)] >= willAwake
      BY <1>2, <1>3, <2>1, <2>2, ScheduleIsHeard
    <3> QED
      BY <1>2, <1>3, <1>5, <2>2, <3>1
  <2>3. CASE ~enabled[d]
    BY <1>0, <1>2, <1>5, <2>1, <2>3 DEF WakeInv
  <2> QED
    BY <2>2, <2>3
<1>9. Idle' = Idle
  BY <1>1 DEF Idle
<1> QED
  BY <1>0, <1>1, <1>3, <1>4, <1>6, <1>7, <1>8, <1>9, WakeChange

LEMMA WakeRemove ==
    ASSUME SleepInv, TypeInv', NEW e \in Events, NEW own \in BOOLEAN, RemoveEvent(e, own)
    PROVE  WakeInv'
<1> DEFINE d == home[e]
           q == IF ~Running(e) THEN Drop(eventQ[d], e) ELSE eventQ[d]
           b == enabled[d] /\ due[e] = willAwake /\ q # <<>>
           wakes == b /\ SchedulingWakes(d, parent[d], q, due, now)
<1>0. TypeInv /\ QueueInv /\ WakeInv
  BY DEF SleepInv, SerialInv
<1>1. /\ eventQ' = [eventQ EXCEPT ![d] = q]
      /\ UNCHANGED <<pc, sleepVars, enabled, due>>
      /\ ScheduleIf(b, d, q, due, now)
      /\ d # None
  BY DEF RemoveEvent, actorVars
<1>2. /\ d \in Dispatchers /\ now \in Nat /\ willAwake \in Int
      /\ due \in [Events -> Nat] /\ eventQ \in [Dispatchers -> Seq(Events)]
      /\ parent \in [Dispatchers -> ParentQueues]
  BY <1>0, <1>1 DEF TypeInv, TypeOK
<1>3. q \in Seq(Events) /\ (q # <<>> => eventQ[d] # <<>> /\ due[Head(eventQ[d])] <= due[Head(q)])
  <2>1. eventQ[d] \in Seq(Events) /\ Sorted(eventQ[d], due)
    BY <1>0, <1>2 DEF QueueInv
  <2>2. eventQ[d] # <<>> => due[Head(eventQ[d])] \in Nat
    BY <1>2, <2>1
  <2>3. /\ Drop(eventQ[d], e) \in Seq(Events)
        /\ Drop(eventQ[d], e) # <<>> => /\ eventQ[d] # <<>>
                                       /\ due[Head(eventQ[d])] <= due[Head(Drop(eventQ[d], e))]
    BY <1>2, <2>1, DropSorted
  <2> QED
    BY <2>1, <2>2, <2>3
<1> HIDE DEF q, d
<1>4. \A c \in Dispatchers : eventQ'[c] = IF c = d THEN q ELSE eventQ[c]
  BY <1>1, <1>2
<1>5. /\ parent' = [parent EXCEPT ![d] = IF b THEN Scheduled(d, @, q, due, now) ELSE @]
      /\ b => WakeNotifierIf(SchedulingWakes(d, parent[d], q, due, now))
      /\ ~b => UNCHANGED wakeVars
  BY <1>1, <1>2 DEF ScheduleIf, Schedule
<1>6. /\ wakeRequested' => wakeRequested \/ wakePipe'
      /\ wakePipe => wakePipe'
      /\ wakes => wakeRequested \/ wakePipe'
  BY <1>0, <1>5, NotifierIsHeard DEF wakeVars
<1>7. /\ parent'[d] = "wait" => enabled'[d]
      /\ parent'[d] = "pending" => parent[d] = "pending"
      /\ \A c \in Dispatchers \ {d} : parent'[c] = parent[c]
  BY <1>0, <1>1, <1>2, <1>5 DEF Scheduled, WakeInv
<1>8. ASSUME pc[Service] = "epoll", ~wakePipe, ~wakePipe'
      PROVE  /\ parent'[d] # "ready"
             /\ parent'[d] = "wait" /\ eventQ'[d] # <<>> => due'[Head(eventQ'[d])] >= willAwake
  <2>1. /\ waiting /\ ~wakeRequested /\ ~wakes /\ parent[d] # "ready"
        /\ parent[d] = "wait" /\ eventQ[d] # <<>> => due[Head(eventQ[d])] >= willAwake
    BY <1>0, <1>2, <1>6, <1>8 DEF WakeInv, NoLostWakeup, On
  <2>2. CASE b
    <3>1. /\ Scheduled(d, parent[d], q, due, now) # "ready"
          /\ q # <<>> => due[Head(q)] >= willAwake
      BY <1>2, <1>3, <2>1, <2>2, ScheduleIsHeard
    <3> QED
      BY <1>1, <1>2, <1>4, <1>5, <2>2, <3>1
  <2>3. CASE ~b
    <3>1. parent'[d] = parent[d] /\ eventQ'[d] = q
      BY <1>2, <1>4, <1>5, <2>3
    <3>2. q # <<>> => due[Head(q)] \in Nat /\ due[Head(eventQ[d])] \in Nat
      BY <1>2, <1>3
    <3> HIDE DEF b
    <3> QED
      BY <1>1, <1>2, <1>3, <2>1, <3>1, <3>2
  <2> QED
    BY <2>2, <2>3
<1>9. Idle' = Idle
  BY <1>1 DEF Idle
<1> QED
  BY <1>0, <1>1, <1>2, <1>4, <1>6, <1>7, <1>8, <1>9, WakeChange

\* A step after which the service thread neither sleeps nor is about to.
LEMMA WakeUp ==
    ASSUME TypeInv, WakeInv, pc[Service] # "woke", pc'[Service] \notin {"sleep", "epoll"},
           wakeRequested' => wakeRequested \/ wakePipe', wakePipe => wakePipe',
           \A d \in Dispatchers : parent'[d] = "wait" => enabled'[d]
    PROVE  WakeInv'
BY DEF WakeInv, NoLostWakeup

\* Whoever gives up dispatcher d and schedules it from nowhere is heard.
LEMMA WakeGiveUp ==
    ASSUME SleepInv, NEW x \in Actors \ {Service}, NEW d \in Dispatchers, NEW l,
           pc' = [pc EXCEPT ![x] = l], l # "idle",
           UNCHANGED <<enabled, eventQ, due, sleepVars>>,
           Schedule(d, "none", eventQ[d], due, now) \/ UNCHANGED <<parent, wakeVars>>
    PROVE  WakeInv'
<1>0. TypeInv /\ WakeInv
  BY DEF SleepInv, SerialInv
<1>1. /\ eventQ[d] \in Seq(Events) /\ due \in [Events -> Nat] /\ now \in Nat /\ willAwake \in Int
      /\ parent \in [Dispatchers -> ParentQueues]
      /\ pc \in [Actors -> UNION {PcsOf(y) : y \in Actors}]
      /\ Service \in Actors
  BY <1>0 DEF TypeInv, TypeOK, Actors
<1>2. pc'[Service] = pc[Service] /\ Idle' \subseteq Idle
  BY <1>1 DEF Idle, Actors
<1>3. CASE UNCHANGED <<parent, wakeVars>>
  BY <1>0, <1>2, <1>3, WakeQuiet DEF wakeVars
<1>4. CASE Schedule(d, "none", eventQ[d], due, now)
  <2>1. /\ parent' = [parent EXCEPT ![d] = Scheduled(d, "none", eventQ[d], due, now)]
        /\ WakeNotifierIf(SchedulingWakes(d, "none", eventQ[d], due, now))
    BY <1>4 DEF Schedule
  <2>2. /\ wakeRequested' => wakeRequested \/ wakePipe'
        /\ wakePipe => wakePipe'
        /\ SchedulingWakes(d, "none", eventQ[d], due, now) => wakeRequested \/ wakePipe'
    BY <1>0, <2>1, NotifierIsHeard
  <2>3. /\ parent'[d] = "wait" => enabled'[d]
        /\ parent'[d] = "pending" => parent[d] = "pending"
        /\ \A c \in Dispatchers \ {d} : parent'[c] = parent[c]
    BY <1>1, <2>1 DEF Scheduled
  <2>4. ASSUME pc[Service] = "epoll", ~wakePipe, ~wakePipe'
        PROVE  /\ parent'[d] # "ready"
               /\ parent'[d] = "wait" /\ eventQ'[d] # <<>> => due'[Head(eventQ'[d])] >= willAwake
    <3>1. waiting /\ ~SchedulingWakes(d, "none", eventQ[d], due, now)
      BY <1>0, <2>2, <2>4 DEF WakeInv
    <3>2. CASE enabled[d]
      <4>1. /\ Scheduled(d, "none", eventQ[d], due, now) # "ready"
            /\ eventQ[d] # <<>> => due[Head(eventQ[d])] >= willAwake
        BY <1>1, <3>1, <3>2, ScheduleIsHeard
      <4> QED
        BY <1>1, <2>1, <4>1
    <3>3. CASE ~enabled[d]
      BY <1>1, <2>1, <3>3 DEF Scheduled
    <3> QED
      BY <3>2, <3>3
  <2>5. \A c \in Dispatchers \ {d} :
              /\ parent'[c] = parent[c] /\ enabled'[c] = enabled[c] /\ eventQ'[c] = eventQ[c]
              /\ eventQ[c] # <<>> => due'[Head(eventQ[c])] = due[Head(eventQ[c])]
    BY <2>3
  <2> QED
    BY <1>0, <1>2, <2>2, <2>3, <2>4, <2>5, WakeChange
<1> QED
  BY <1>3, <1>4

LEMMA WakeDisable ==
    ASSUME SleepInv, NEW x \in Actors, DisableDispatcher(x)
    PROVE  WakeInv'
<1> DEFINE d == disp[x]
<1>0. TypeInv /\ WakeInv
  BY DEF SleepInv, SerialInv
<1>1. /\ pc[x] = "call"
      /\ eventQ' = [eventQ EXCEPT ![d] = <<>>]
      /\ parent' = [parent EXCEPT ![d] = "none"]
      /\ enabled' = [enabled EXCEPT ![d] = FALSE]
      /\ \E b : WakeNotifierIf(b)
      /\ UNCHANGED <<pc, due, sleepVars>>
  BY DEF DisableDispatcher, actorVars
<1>2. d \in Dispatchers
  BY <1>0, <1>1 DEF TypeInv, Working, Outside
<1>3. /\ eventQ \in [Dispatchers -> Seq(Events)] /\ enabled \in [Dispatchers -> BOOLEAN]
      /\ parent \in [Dispatchers -> ParentQueues]
  BY <1>0 DEF TypeInv, TypeOK
<1>4. (wakeRequested' => wakeRequested \/ wakePipe') /\ (wakePipe => wakePipe')
  BY <1>0, <1>1, NotifierIsHeard
<1>5. parent'[d] = "none"
  BY <1>1, <1>2, <1>3
<1>6. \A c \in Dispatchers \ {d} :
          /\ parent'[c] = parent[c] /\ enabled'[c] = enabled[c] /\ eventQ'[c] = eventQ[c]
          /\ eventQ[c] # <<>> => due'[Head(eventQ[c])] = due[Head(eventQ[c])]
  BY <1>1, <1>3
<1>7. Idle' = Idle
  BY <1>1 DEF Idle
<1> QED
  BY <1>0, <1>1, <1>2, <1>4, <1>5, <1>6, <1>7, WakeChange

\* What is executing an event on d keeps d off the queues the service thread
\* looks at, so that the queue of d may change unheard.
LEMMA WakeDispatch ==
    ASSUME SleepInv, TypeInv', NEW x \in Actors, FetchEvent(x) \/ ReturnEvent(x)
    PROVE  WakeInv'
<1> DEFINE d == disp[x]
           e == ev[x]
<1>0. TypeInv /\ QueueInv /\ WakeInv
  BY DEF SleepInv, SerialInv
<1>1. /\ pc[x] \in {"fetch", "call"}
      /\ UNCHANGED <<enabled, sleepVars>>
  BY DEF FetchEvent, ReturnEvent
<1>2. d \in Dispatchers
  BY <1>0, <1>1 DEF TypeInv, Working, Outside
<1>3. /\ eventQ \in [Dispatchers -> Seq(Events)] /\ enabled \in [Dispatchers -> BOOLEAN]
      /\ parent \in [Dispatchers -> ParentQueues] /\ due \in [Events -> Nat]
      /\ pc \in [Actors -> UNION {PcsOf(y) : y \in Actors}] /\ Service \in Actors
  BY <1>0 DEF TypeInv, TypeOK, Actors
<1>4. enabled[d] => parent[d] = "run"
  BY <1>1, <1>2, ExecutingHolds, BusyIsOnRun DEF SleepInv
<1>5. parent[d] # "wait" /\ parent'[d] \in {parent[d], "run"}
      /\ \A c \in Dispatchers \ {d} : parent'[c] = parent[c]
  <2>1. parent[d] # "wait"
    BY <1>2, <1>4, <1>0 DEF WakeInv
  <2>2. CASE FetchEvent(x)
    BY <1>2, <1>3, <2>1, <2>2 DEF FetchEvent
  <2>3. CASE ReturnEvent(x)
    <3>1. \E q, df : ScheduleIf(continuous[e] /\ enabled[d], d, q, df, now)
      BY <2>3 DEF ReturnEvent
    <3> QED
      BY <1>2, <1>3, <1>4, <2>1, <3>1 DEF ScheduleIf, Schedule, Scheduled
  <2> QED
    BY <2>2, <2>3
<1>6. (wakeRequested' => wakeRequested \/ wakePipe') /\ (wakePipe => wakePipe')
  <2>1. CASE FetchEvent(x)
    BY <2>1 DEF FetchEvent, wakeVars
  <2>2. CASE ReturnEvent(x)
    <3>1. \E b, q, df : ScheduleIf(b, d, q, df, now)
      BY <2>2 DEF ReturnEvent
    <3>2. (\E b : WakeNotifierIf(b)) \/ UNCHANGED wakeVars
      BY SMTT(40), <3>1 DEF ScheduleIf, Schedule
    <3> QED
      BY <1>0, <3>2, NotifierIsHeard DEF wakeVars
  <2> QED
    BY <2>1, <2>2
<1>7. PICK q : eventQ' = [eventQ EXCEPT ![d] = q]
  BY DEF FetchEvent, ReturnEvent, TakeNext
<1>8. PICK l \in {"got", "finish"} : pc' = [pc EXCEPT ![x] = l]
  BY DEF FetchEvent, ReturnEvent, TakeNext
<1>9. \A c \in Dispatchers \ {d} : eventQ[c] # <<>> => due'[Head(eventQ[c])] = due[Head(eventQ[c])]
  <2>1. CASE FetchEvent(x)
    BY <2>1 DEF FetchEvent, eventVars
  <2>2. CASE ReturnEvent(x)
    <3>1. e \in Events /\ Tied(e, d)
      BY <1>0, <2>2 DEF ReturnEvent, TypeInv, Working, Tied, AtWork
    <3>2. \A c \in Dispatchers : Tied(e, c) => c = d
      BY <1>0, <1>2, <3>1 DEF QueueInv, TiedOnce
    <3>3. \A f \in Events \ {e} : due'[f] = due[f]
      BY <1>3, <2>2 DEF ReturnEvent
    <3> HIDE DEF d, e
    <3> QED
      BY <1>0, <1>2, <3>1, <3>2, <3>3, HeadsElsewhere
  <2> QED
    BY <2>1, <2>2
<1>10. \A c \in Dispatchers : parent'[c] = "wait" => enabled'[c]
  BY <1>0, <1>1, <1>5 DEF WakeInv
<1>11. CASE x = Service
  BY <1>0, <1>1, <1>3, <1>6, <1>8, <1>10, <1>11, WakeUp
<1>12. CASE x # Service
  <2>1. pc'[Service] = pc[Service] /\ Idle' \subseteq Idle
    BY <1>3, <1>8, <1>12 DEF Idle, Actors
  <2>2. \A c \in Dispatchers \ {d} :
            /\ parent'[c] = parent[c] /\ enabled'[c] = enabled[c] /\ eventQ'[c] = eventQ[c]
            /\ eventQ[c] # <<>> => due'[Head(eventQ[c])] = due[Head(eventQ[c])]
    BY <1>1, <1>3, <1>5, <1>7, <1>9
  <2>3. pc[Service] = "epoll" /\ ~wakePipe /\ ~wakePipe' => parent'[d] # "ready"
    BY <1>0, <1>2, <1>5 DEF WakeInv, NoLostWakeup, On
  <2> QED
    BY <1>0, <1>1, <1>2, <1>5, <1>6, <2>1, <2>2, <2>3, WakeChange
<1> QED
  BY <1>11, <1>12

\* The rest of dispatchEvents and serviceDispatcherMain.  A worker that becomes
\* idle is heard, so it cannot be that a pending dispatcher waits for it.
LEMMA WakeActor ==
    ASSUME SleepInv, NEW x \in Actors,
           CallEvent(x) \/ FinishDispatch(x) \/ StartService(x) \/ RescheduleDispatcher(x) \/ Retire(x)
    PROVE  WakeInv'
<1> DEFINE d == disp[x]
<1>0. TypeInv /\ WakeInv
  BY DEF SleepInv, SerialInv
<1>1. /\ pc \in [Actors -> UNION {PcsOf(y) : y \in Actors}] /\ Service \in Actors
      /\ parent \in [Dispatchers -> ParentQueues]
  BY <1>0 DEF TypeInv, TypeOK, Actors
<1>2. /\ pc[x] \in {"got", "finish", "start", "resched", "retire"} /\ d \in Dispatchers
      /\ UNCHANGED <<enabled, eventQ, due, sleepVars>>
  BY <1>0 DEF CallEvent, FinishDispatch, StartService, RescheduleDispatcher, Retire,
     TypeInv, Working, Outside, dispatcherVars, queueVars, eventVars
<1>3. /\ (wakeRequested' => wakeRequested \/ wakePipe') /\ (wakePipe => wakePipe')
      /\ Retire(x) /\ x # Service => wakeRequested \/ wakePipe'
  <2>1. (\E b : WakeNotifierIf(b)) \/ UNCHANGED wakeVars
    BY DEF CallEvent, FinishDispatch, StartService, RescheduleDispatcher, Retire, Schedule
  <2>2. Retire(x) /\ x # Service => wakeRequested \/ wakePipe'
    BY <1>0 DEF Retire, WakeNotifierIf, TypeInv, TypeOK
  <2>3. (wakeRequested' => wakeRequested \/ wakePipe') /\ (wakePipe => wakePipe')
    BY <1>0, <2>1, NotifierIsHeard DEF wakeVars
  <2> QED
    BY <2>2, <2>3
<1>4. PICK l \in {"call", "resched", "exit", "prep", "fetch", "retire", "next", "idle"} :
         /\ pc' = [pc EXCEPT ![x] = l]
         /\ l = "idle" => Retire(x) /\ x # Service
         /\ x = Service => l # "idle"
  BY DEF CallEvent, FinishDispatch, StartService, RescheduleDispatcher, Retire
<1>5. \/ l # "idle" /\ Schedule(d, "none", eventQ[d], due, now)
      \/ UNCHANGED parent
  <2>1. RescheduleDispatcher(x) => /\ pc' = [pc EXCEPT ![x] = "retire"]
                                   /\ \/ Schedule(d, "none", eventQ[d], due, now)
                                      \/ UNCHANGED <<parent, wakeVars>>
    BY DEF RescheduleDispatcher
  <2>2. RescheduleDispatcher(x) => l = "retire"
    BY <1>1, <1>4, <2>1
  <2> QED
    BY <2>1, <2>2 DEF CallEvent, FinishDispatch, StartService, Retire, dispatcherVars
<1>6. CASE x = Service
  <2>1. \A c \in Dispatchers : parent'[c] = "wait" => enabled'[c]
    BY <1>0, <1>1, <1>2, <1>5 DEF WakeInv, Schedule, Scheduled
  <2>2. pc[Service] # "woke" /\ pc'[Service] \notin {"sleep", "epoll"}
    BY <1>1, <1>2, <1>4, <1>6
  <2> QED
    BY <1>0, <1>3, <2>1, <2>2, WakeUp
<1>7. CASE x # Service /\ l # "idle"
  <2>1. pc'[Service] = pc[Service] /\ Idle' \subseteq Idle
    BY <1>1, <1>4, <1>7 DEF Idle, Actors
  <2>2. CASE UNCHANGED parent
    BY <1>0, <1>2, <1>3, <2>1, <2>2, WakeQuiet
  <2>3. CASE ~UNCHANGED parent
    BY <1>2, <1>4, <1>5, <1>7, <2>3, WakeGiveUp
  <2> QED
    BY <2>2, <2>3
<1>8. CASE x # Service /\ l = "idle"
  <2>1. pc'[Service] = pc[Service] /\ Retire(x)
    BY <1>1, <1>4, <1>8
  <2>2. UNCHANGED parent
    BY <2>1 DEF Retire, dispatcherVars
  <2>3. pc[Service] # "woke" => wakePipe'
    BY <1>0, <1>3, <1>8, <2>1 DEF WakeInv
  <2> QED
    BY <1>0, <1>2, <2>1, <2>2, <2>3 DEF WakeInv, NoLostWakeup, sleepVars
<1> QED
  BY <1>6, <1>7, <1>8

\* The loop of the service thread, until it announces its sleep.
LEMMA WakeService ==
    ASSUME SleepInv, ServiceStep
    PROVE  WakeInv'
<1>0. TypeInv /\ WakeInv
  BY DEF SleepInv, SerialInv
<1>1. /\ pc \in [Actors -> UNION {PcsOf(y) : y \in Actors}] /\ Service \in Actors
      /\ parent \in [Dispatchers -> ParentQueues]
      /\ eventQ \in [Dispatchers -> Seq(Events)] /\ due \in [Events -> Nat] /\ now \in Nat
  BY <1>0 DEF TypeInv, TypeOK, Actors
<1>2. ASSUME NEW d \in Dispatchers, PickPending(d) \/ PickReady(d)
      PROVE  WakeInv'
  <2>1. pc[Service] # "woke" /\ pc'[Service] \notin {"sleep", "epoll"} /\ UNCHANGED <<wakeVars, enabled>>
    BY <1>1, <1>2 DEF PickPending, PickReady, TakeOver
  <2>2. \A c \in Dispatchers : parent'[c] = "wait" => enabled'[c]
    BY <1>0, <1>1, <1>2, <2>1 DEF PickPending, PickReady, TakeOver, WakeInv
  <2> QED
    BY <1>0, <2>1, <2>2, WakeUp DEF wakeVars
<1>3. CASE ServiceDispatcher
  <2>1. pc[Service] # "woke" /\ pc'[Service] \notin {"sleep", "epoll"}
    BY <1>1, <1>3, EventServiceAssumption DEF ServiceDispatcher, Idle, Actors
  <2> QED
    BY <1>0, <1>3, <2>1, WakeUp DEF ServiceDispatcher, wakeVars, WakeInv
<1>4. CASE QueuePending
  <2>1. pc[Service] # "woke" /\ pc'[Service] \notin {"sleep", "epoll"} /\ UNCHANGED <<wakeVars, enabled>>
    BY <1>1, <1>4 DEF QueuePending
  <2>2. \A c \in Dispatchers : parent'[c] = "wait" => enabled'[c]
    BY <1>0, <1>1, <1>4, <2>1 DEF QueuePending, WakeInv
  <2> QED
    BY <1>0, <2>1, <2>2, WakeUp DEF wakeVars
<1>5. CASE NothingReady
  <2>1. /\ pc[Service] = "next" /\ pc'[Service] \in {"again", "sleep"}
        /\ On("pending") # {} => ~AvailableWorkers
        /\ UNCHANGED <<dispatcherVars, wakeVars>>
    BY <1>1, <1>5 DEF NothingReady
  <2>2. \A w \in Workers : pc'[w] = pc[w]
    BY <1>1, <1>5, EventServiceAssumption DEF NothingReady, Actors
  <2>3. Idle' = Idle /\ On("pending")' = On("pending")
    BY <2>1, <2>2 DEF Idle, On, dispatcherVars
  <2> QED
    BY <1>0, <2>1, <2>3 DEF WakeInv, NoLostWakeup, AvailableWorkers, wakeVars, dispatcherVars
<1>6. CASE Sleep
  <2>1. /\ pc[Service] = "sleep" /\ UNCHANGED <<parent, enabled, eventQ, due, wakeVars, now>>
    BY <1>6 DEF Sleep, dispatcherVars, queueVars, eventVars
  <2>2. PICK ticks \in IdleTimes :
          /\ \A t \in IdleTimes : ticks <= t
          /\ IF ticks > 0
             THEN waiting' = TRUE /\ willAwake' = now + ticks /\ pc' = [pc EXCEPT ![Service] = "epoll"]
             ELSE pc' = [pc EXCEPT ![Service] = "again"]
    BY <1>6 DEF Sleep
  <2>3. On("pending")' = On("pending") /\ On("ready")' = On("ready") /\ On("wait")' = On("wait")
    BY <2>1 DEF On
  <2>4. Idle' = Idle
    <3>1. \A w \in Workers : pc'[w] = pc[w]
      BY <1>1, <2>2, EventServiceAssumption DEF Actors
    <3> QED
      BY <3>1 DEF Idle
  <2>5. CASE ticks > 0
    <3>1. pc'[Service] = "epoll"
      BY <1>1, <2>2, <2>5
    <3>2. On("ready") = {}
      BY <2>2, <2>5 DEF IdleTimes
    <3>3. ASSUME NEW d \in On("wait"), eventQ[d] # <<>>
          PROVE  due[Head(eventQ[d])] >= willAwake'
      <4>1. due[Head(eventQ[d])] - now \in IdleTimes
        BY <3>2, <3>3 DEF IdleTimes
      <4>2. ticks \in Int /\ due[Head(eventQ[d])] \in Nat
        <5>1. ASSUME NEW c \in Dispatchers, eventQ[c] # <<>> PROVE due[Head(eventQ[c])] \in Nat
          <6>1. eventQ[c] \in Seq(Events)
            BY <1>1
          <6>2. Head(eventQ[c]) \in Events
            BY <5>1, <6>1
          <6> QED
            BY <1>1, <6>2
        <5> QED
          BY <1>1, <3>3, <5>1, EventServiceAssumption DEF IdleTimes, On
      <4>3. ticks <= due[Head(eventQ[d])] - now /\ willAwake' = now + ticks
        BY <2>2, <2>5, <4>1
      <4> QED
        BY <1>1, <4>2, <4>3
    <3>4. /\ wakeRequested' => wakePipe'
          /\ waiting'
          /\ ~wakePipe' => (On("pending")' # {} => ~AvailableWorkers')
          /\ \A c \in Dispatchers : parent'[c] = "wait" => enabled'[c]
      BY <1>0, <2>1, <2>2, <2>3, <2>4, <2>5 DEF WakeInv, AvailableWorkers, wakeVars
    <3>5. NoLostWakeup'
      BY <2>1, <2>3, <3>2, <3>3, <3>4 DEF NoLostWakeup
    <3> QED
      BY <3>1, <3>4, <3>5 DEF WakeInv
  <2>6. CASE ~(ticks > 0)
    BY <1>0, <1>1, <2>1, <2>2, <2>6 DEF WakeInv, NoLostWakeup, wakeVars
  <2> QED
    BY <2>5, <2>6
<1>7. CASE Awake
  BY <1>0, <1>1, <1>7 DEF Awake, WakeInv, NoLostWakeup, dispatcherVars
<1>8. CASE LoopAgain
  BY <1>0, <1>1, <1>8 DEF LoopAgain, WakeInv, NoLostWakeup, dispatcherVars
<1> QED
  BY <1>2, <1>3, <1>4, <1>5, <1>6, <1>7, <1>8 DEF ServiceStep

\* mprWaitForEvent.
LEMMA WakeWaits ==
    ASSUME SleepInv, NEW x \in Waits,
           \/ WaitStep(x)
           \/ \E d \in Dispatchers, w \in Workers \cup {x}, t \in Periods : BeginWait(x, d, w, t)
    PROVE  WakeInv'
<1> DEFINE d == disp[x]
<1>0. TypeInv /\ WakeInv
  BY DEF SleepInv, SerialInv
<1>1. /\ pc \in [Actors -> UNION {PcsOf(y) : y \in Actors}]
      /\ parent \in [Dispatchers -> ParentQueues]
      /\ Service \in Actors /\ x \in Actors \ {Service} /\ x \notin Workers
  BY <1>0, EventServiceAssumption DEF TypeInv, TypeOK, Actors
<1>2. /\ \E l \in WaitPcs : l # "idle" /\ pc' = [pc EXCEPT ![x] = l]
      /\ UNCHANGED <<enabled, eventQ, due, sleepVars>>
  BY DEF WaitStep, BeginWait, ClaimDispatcher, LoopWait, PrepareWait, WaitSignalled, WaitTimedOut,
     EndWait, dispatcherVars, queueVars, eventVars, WaitPcs
<1>3. pc'[Service] = pc[Service] /\ Idle' = Idle
  <2>1. \A w \in Workers : pc'[w] = pc[w]
    BY <1>1, <1>2 DEF Actors
  <2> QED
    BY <1>1, <1>2, <2>1 DEF Idle
<1>4. CASE EndWait(x)
  <2>1. pc' = [pc EXCEPT ![x] = "over"] /\ d \in Dispatchers
    BY <1>0, <1>1, <1>4 DEF EndWait, TypeInv, Working, Outside
  <2>2. Schedule(d, "none", eventQ[d], due, now) \/ UNCHANGED <<parent, wakeVars>>
    BY <1>4 DEF EndWait
  <2> QED
    BY <1>1, <1>2, <2>1, <2>2, WakeGiveUp
<1>5. CASE ClaimDispatcher(x)
  <2>1. /\ d \in Dispatchers /\ parent'[d] \in {parent[d], "run"} /\ UNCHANGED wakeVars
        /\ \A c \in Dispatchers \ {d} : parent'[c] = parent[c]
    BY <1>0, <1>1, <1>5 DEF ClaimDispatcher, TypeInv, Working, Outside
  <2>2. /\ parent'[d] = "wait" => enabled'[d]
        /\ parent'[d] = "pending" => parent[d] = "pending"
    BY <1>0, <1>2, <2>1 DEF WakeInv
  <2>3. pc[Service] = "epoll" /\ ~wakePipe /\ ~wakePipe' =>
           /\ parent'[d] # "ready"
           /\ parent'[d] = "wait" /\ eventQ'[d] # <<>> => due'[Head(eventQ'[d])] >= willAwake
    BY <1>0, <1>2, <2>1 DEF WakeInv, NoLostWakeup, On
  <2>4. \A c \in Dispatchers \ {d} :
            /\ parent'[c] = parent[c] /\ enabled'[c] = enabled[c] /\ eventQ'[c] = eventQ[c]
            /\ eventQ[c] # <<>> => due'[Head(eventQ[c])] = due[Head(eventQ[c])]
    BY <1>2, <2>1
  <2> QED
    BY <1>0, <1>2, <1>3, <2>1, <2>2, <2>3, <2>4, WakeChange DEF wakeVars
<1>6. CASE ~EndWait(x) /\ ~ClaimDispatcher(x)
  <2>1. UNCHANGED <<parent, wakeVars>>
    BY <1>6 DEF WaitStep, BeginWait, LoopWait, PrepareWait, WaitSignalled, WaitTimedOut, dispatcherVars
  <2> QED
    BY <1>0, <1>2, <1>3, <2>1, WakeQuiet DEF wakeVars
<1> QED
  BY <1>4, <1>5, <1>6

LEMMA SleepStep == SleepInv /\ [Next]_vars => SleepInv'
<1> SUFFICES ASSUME SleepInv, [Next]_vars
             PROVE  SleepInv'
  OBVIOUS
<1>1. SerialInv' /\ QueueInv'
  BY SerialStep, QueueStep DEF SleepInv
<1>2. TypeInv' /\ TypeInv /\ WakeInv
  BY <1>1 DEF QueueInv, SleepInv
<1>3. WakeInv'
  <2>1. ASSUME NEW e \in Events, EventStep(e)
        PROVE  WakeInv'
    <3>1. ASSUME NEW enable \in BOOLEAN, EnableContinuousEvent(e, enable)
          PROVE  WakeInv'
      <4>1. /\ UNCHANGED <<pc, parent, enabled, eventQ, due, sleepVars, wakeVars>>
        BY <3>1 DEF EnableContinuousEvent, dispatcherVars, queueVars, actorVars
      <4> QED
        BY <1>2, <4>1, WakeQuiet DEF wakeVars, Idle
    <3> QED
      BY <1>2, <2>1, <3>1, WakeCreate, WakeRemove DEF EventStep
  <2>2. ASSUME NEW x \in Actors, DispatchStep(x) \/ DisableDispatcher(x)
        PROVE  WakeInv'
    BY <1>2, <2>2, WakeDisable, WakeDispatch, WakeActor DEF DispatchStep
  <2>3. CASE Tick \/ UNCHANGED vars
    <3>1. UNCHANGED <<pc, parent, enabled, eventQ, due, sleepVars, wakeVars>>
      BY <2>3 DEF Tick, vars, dispatcherVars, queueVars, eventVars, actorVars
    <3> QED
      BY <1>2, <3>1, WakeQuiet DEF wakeVars, Idle
  <2>4. ASSUME NEW x \in Waits,
               \/ WaitStep(x)
               \/ \E d \in Dispatchers, w \in Workers \cup {x}, t \in Periods : BeginWait(x, d, w, t)
        PROVE  WakeInv'
    BY <2>4, WakeWaits
  <2> QED
    BY <2>1, <2>2, <2>3, <2>4, WakeService DEF Next
<1> QED
  BY <1>1, <1>3 DEF SleepInv

\* No lost wakeup: when the service thread sleeps and its pipe is empty, no
\* dispatcher is ready, none that is pending could have a worker, and it has
\* promised to wake before the first event of any waiting dispatcher is due.
THEOREM WakeupsAreHeard == Spec => []NoLostWakeup
<1>1. Init => SleepInv
  <2> SUFFICES ASSUME Init
               PROVE  WakeInv
    BY SerialInit, QueueInit DEF SleepInv
  <2> QED
    BY DEF Init, WakeInv, NoLostWakeup, Actors
<1>2. SleepInv => NoLostWakeup
  BY DEF SleepInv, WakeInv
<1> QED
  BY <1>1, <1>2, SleepStep, PTL DEF Spec

-----------------------------------------------------------------------------
(* The condition of mprWaitForEvent.                                         *)

\* No two threads wait on the condition of one dispatcher, as mprWaitForEvent
\* asserts when it finds MPR_DISPATCHER_WAITING clear.  The test is outside the
\* lock, so the code does not enforce it.
OneCondWait ==
    \A x, y \in Waits : pc[x] = "cond" /\ pc[y] = "cond" /\ disp[x] = disp[y] => x = y

\* Who waits on the condition of a dispatcher shows it by the flag, and does
\* not sleep past an event it must run.
SignalOf(x) ==
    LET d == disp[x] IN
    pc[x] = "cond" =>
        /\ flagWaiting[d]
        /\ runEvents[x] /\ enabled[d] /\ eventQ[d] # <<>> /\ ~triggered[d] =>
              condDue[x] <= due[Head(eventQ[d])] \/ Expired(condAt[x])

SignalInv ==
    /\ SerialInv
    /\ QueueInv
    /\ \A x \in Waits : SignalOf(x)

\* A queue changes unheard: its first event is due no earlier than before.
HeadLater(d) ==
    eventQ'[d] # <<>> => eventQ[d] # <<>> /\ due[Head(eventQ[d])] <= due'[Head(eventQ'[d])]

\* The step keeps the waits on a condition as they are and clears neither their
\* flags nor their signals.
CondsKept ==
    \A x \in Waits : pc'[x] = "cond" =>
        /\ pc[x] = "cond" /\ disp'[x] = disp[x] /\ runEvents'[x] = runEvents[x]
        /\ condAt'[x] = condAt[x] /\ condDue'[x] = condDue[x]
        /\ flagWaiting'[disp[x]] = flagWaiting[disp[x]]
        /\ triggered[disp[x]] => triggered'[disp[x]]

\* A queue with a head has its due time.
LEMMA HeadDueType ==
    ASSUME TypeInv, NEW d \in Dispatchers, eventQ[d] # <<>>
    PROVE  Head(eventQ[d]) \in Events /\ due[Head(eventQ[d])] \in Nat
<1>1. eventQ[d] \in Seq(Events) /\ due \in [Events -> Nat]
  BY DEF TypeInv, TypeOK
<1>2. Head(eventQ[d]) \in Events
  BY <1>1
<1> QED
  BY <1>1, <1>2

LEMMA SignalChange ==
    ASSUME SignalInv, TypeInv', CondsKept, clock' = clock \/ Tick,
           \A d \in Dispatchers : enabled'[d] => enabled[d],
           \A d \in Dispatchers :
              parent[d] = "run" /\ flagWaiting[d] /\ enabled[d] /\ ~triggered'[d] => HeadLater(d)
    PROVE  \A x \in Waits : SignalOf(x)'
<1> SUFFICES ASSUME NEW x \in Waits, pc'[x] = "cond"
             PROVE  SignalOf(x)'
  BY DEF SignalOf
<1> DEFINE d == disp[x]
<1>1. /\ pc[x] = "cond" /\ disp'[x] = d /\ runEvents'[x] = runEvents[x]
      /\ condAt'[x] = condAt[x] /\ condDue'[x] = condDue[x]
      /\ flagWaiting'[d] = flagWaiting[d]
      /\ triggered[d] => triggered'[d]
  BY DEF CondsKept
<1>2. TypeInv /\ SignalOf(x) /\ x \in Actors
  BY DEF SignalInv, SerialInv, Actors
<1>3. d \in Dispatchers /\ flagWaiting[d]
  BY <1>1, <1>2 DEF TypeInv, Working, Outside, SignalOf
<1>4. ASSUME runEvents[x], enabled'[d], eventQ'[d] # <<>>, ~triggered'[d]
      PROVE  condDue[x] <= due'[Head(eventQ'[d])] \/ Expired(condAt[x])'
  <2>1. enabled[d] /\ ~triggered[d]
    BY <1>1, <1>3, <1>4
  <2>2. parent[d] = "run"
    <3>1. Holds(x, d) \/ Nested(x, d)
      BY <1>1, <1>4 DEF Holds, Nested, LoopPcs
    <3> QED
      BY <1>2, <1>3, <2>1, <3>1, BusyIsOnRun DEF SignalInv
  <2>3. eventQ[d] # <<>> /\ due[Head(eventQ[d])] <= due'[Head(eventQ'[d])]
    BY <1>3, <1>4, <2>1, <2>2 DEF HeadLater
  <2>4. condDue[x] <= due[Head(eventQ[d])] \/ Expired(condAt[x])
    BY <1>1, <1>2, <1>4, <2>1, <2>3 DEF SignalOf
  <2>5. condAt[x] \in Int /\ condDue[x] \in Int
    BY <1>2 DEF TypeInv, TypeOK
  <2>6. due[Head(eventQ[d])] \in Nat
    BY <1>2, <1>3, <2>3, HeadDueType
  <2>7. due'[Head(eventQ'[d])] \in Nat
    <3>1. eventQ'[d] \in Seq(Events) /\ due' \in [Events -> Nat]
      BY <1>3 DEF TypeInv, TypeOK
    <3>2. Head(eventQ'[d]) \in Events
      BY <1>4, <3>1
    <3> QED
      BY <3>1, <3>2
  <2>8. CASE Expired(condAt[x])
    <3>1. clock \in Nat /\ clock' \in Nat /\ MaxTicks \in Nat /\ Forever \in Nat
      BY <1>2, EventServiceAssumption DEF TypeInv, TypeOK
    <3>2. clock' = clock \/ (clock < MaxTicks /\ clock' = clock + 1)
      BY DEF Tick
    <3> QED
      BY <1>1, <2>5, <2>8, <3>1, <3>2 DEF Expired
  <2>9. CASE condDue[x] <= due[Head(eventQ[d])]
    BY <2>3, <2>5, <2>6, <2>7, <2>9
  <2> QED
    BY <2>4, <2>8, <2>9
<1> QED
  BY <1>1, <1>3, <1>4 DEF SignalOf

\* A step that changes no queue is quiet.
LEMMA HeadsSame ==
    ASSUME TypeInv, UNCHANGED <<eventQ, due>>, NEW d \in Dispatchers
    PROVE  HeadLater(d)
BY HeadDueType DEF HeadLater

\* mprSignalCond latches.
LEMMA SignalLatches ==
    ASSUME TypeInv, NEW d \in Dispatchers, NEW b, SignalIf(d, b)
    PROVE  /\ \A c \in Dispatchers : triggered[c] => triggered'[c]
           /\ b => triggered'[d]
<1>1. triggered' = [triggered EXCEPT ![d] = triggered[d] \/ b] /\ triggered \in [Dispatchers -> BOOLEAN]
  BY DEF SignalIf, TypeInv, TypeOK
<1>2. \A c \in Dispatchers : triggered'[c] = IF c = d THEN triggered[d] \/ b ELSE triggered[c]
  BY <1>1
<1>3. triggered'[d] = (triggered[d] \/ b)
  BY <1>2
<1>4. \A c \in Dispatchers : c # d => triggered'[c] = triggered[c]
  BY <1>2
<1> QED
  BY <1>3, <1>4, Zenon

\* Scheduling a dispatcher that is running signals the thread that waits for it.
LEMMA ScheduleSignals ==
    ASSUME TypeInv, NEW d \in Dispatchers, NEW b, NEW q, NEW df, NEW t, ScheduleIf(b, d, q, df, t)
    PROVE  /\ \A c \in Dispatchers : triggered[c] => triggered'[c]
           /\ b /\ parent[d] = "run" /\ flagWaiting[d] => triggered'[d]
<1>1. CASE b
  <2>1. SignalIf(d, SchedulingSignals(d, parent[d], q, df, t))
    BY <1>1 DEF ScheduleIf, Schedule
  <2>2. parent[d] = "run" /\ flagWaiting[d] => SchedulingSignals(d, parent[d], q, df, t)
    BY DEF SchedulingSignals
  <2> QED
    BY <2>1, <2>2, SignalLatches
<1>2. CASE ~b
  BY <1>2 DEF ScheduleIf
<1> QED
  BY <1>1, <1>2

\* The operations on events leave the waits as they are.
LEMMA EventKeepsConds ==
    ASSUME UNCHANGED <<pc, disp, waitVars, flagWaiting>>, TypeInv,
           \A c \in Dispatchers : triggered[c] => triggered'[c]
    PROVE  CondsKept
<1>1. \A x \in Waits : pc[x] = "cond" => disp[x] \in Dispatchers
  BY DEF TypeInv, Working, Outside, Actors
<1> QED
  BY <1>1 DEF CondsKept, waitVars

\* The queue that changes is the one of d: it is heard, or its head is later.
LEMMA OneQueueChanges ==
    ASSUME QueueInv, NEW d \in Dispatchers, NEW e \in Events, NEW q,
           \A c \in Dispatchers : Tied(e, c) => c = d,
           \A f \in Events \ {e} : due'[f] = due[f],
           eventQ' = [eventQ EXCEPT ![d] = q],
           parent[d] = "run" /\ flagWaiting[d] /\ enabled[d] /\ ~triggered'[d] => HeadLater(d)
    PROVE  \A c \in Dispatchers :
              parent[c] = "run" /\ flagWaiting[c] /\ enabled[c] /\ ~triggered'[c] => HeadLater(c)
<1> SUFFICES ASSUME NEW c \in Dispatchers \ {d}
             PROVE  HeadLater(c)
  OBVIOUS
<1>1. eventQ'[c] = eventQ[c]
  BY DEF QueueInv, TypeInv, TypeOK
<1>2. eventQ[c] # <<>> => /\ due'[Head(eventQ[c])] = due[Head(eventQ[c])]
                          /\ due[Head(eventQ[c])] \in Nat
  BY HeadsElsewhere, HeadDueType DEF QueueInv
<1> QED
  BY <1>1, <1>2 DEF HeadLater

LEMMA SignalEvents ==
    ASSUME SignalInv, TypeInv', NEW e \in Events, EventStep(e)
    PROVE  \A x \in Waits : SignalOf(x)'
<1> DEFINE Heard == \A c \in Dispatchers :
              parent[c] = "run" /\ flagWaiting[c] /\ enabled[c] /\ ~triggered'[c] => HeadLater(c)
<1>0. TypeInv /\ QueueInv
  BY DEF SignalInv, SerialInv
<1>a. /\ eventQ \in [Dispatchers -> Seq(Events)] /\ due \in [Events -> Nat]
      /\ home \in [Events -> Dispatchers \cup {None}]
  BY <1>0 DEF TypeInv, TypeOK
<1>1. ASSUME NEW d \in Dispatchers, NEW p \in Periods, NEW c \in BOOLEAN, CreateEvent(e, d, p, c)
      PROVE  CondsKept /\ Heard
  <2>1. /\ ScheduleIf(enabled[d], d, eventQ'[d], due', clock)
        /\ e \notin created
        /\ due' = [due EXCEPT ![e] = clock + p]
        /\ eventQ' = [eventQ EXCEPT ![d] = Insert(@, e, due')]
        /\ UNCHANGED <<pc, disp, waitVars, flagWaiting>>
    BY <1>1 DEF CreateEvent, actorVars
  <2>2. /\ \A b \in Dispatchers : triggered[b] => triggered'[b]
        /\ enabled[d] /\ parent[d] = "run" /\ flagWaiting[d] => triggered'[d]
    BY <1>0, <2>1, ScheduleSignals
  <2>3. \A b \in Dispatchers : Tied(e, b) => b = d
    BY <1>0, <2>1 DEF QueueInv, TiedOnce
  <2>4. \A f \in Events \ {e} : due'[f] = due[f]
    BY <1>a, <2>1
  <2>5. Heard
    BY <1>0, <2>1, <2>2, <2>3, <2>4, OneQueueChanges
  <2> QED
    BY <1>0, <2>1, <2>2, <2>5, EventKeepsConds
<1>2. ASSUME NEW own \in BOOLEAN, RemoveEvent(e, own)
      PROVE  CondsKept /\ Heard
  <2> DEFINE d == home[e]
             q == IF ~Running(e) THEN Drop(eventQ[d], e) ELSE eventQ[d]
  <2>1. /\ d \in Dispatchers
        /\ eventQ' = [eventQ EXCEPT ![d] = q]
        /\ UNCHANGED <<pc, disp, waitVars, flagWaiting, due>>
        /\ \E b : ScheduleIf(b, d, q, due, now)
    BY <1>a, <1>2 DEF RemoveEvent, actorVars
  <2>2. \A b \in Dispatchers : triggered[b] => triggered'[b]
    BY <1>0, <2>1, ScheduleSignals
  <2>3. \A b \in Dispatchers : Tied(e, b) => b = d
    BY <1>0, <2>1 DEF QueueInv, TiedOnce, Tied
  <2>4. HeadLater(d)
    <3>1. eventQ[d] \in Seq(Events) /\ Sorted(eventQ[d], due) /\ eventQ'[d] = q
      BY <1>0, <1>a, <2>1 DEF QueueInv
    <3>2. eventQ[d] # <<>> => due[Head(eventQ[d])] \in Nat
      BY <1>0, <2>1, HeadDueType
    <3>3. Drop(eventQ[d], e) # <<>> => /\ eventQ[d] # <<>>
                                       /\ due[Head(eventQ[d])] <= due[Head(Drop(eventQ[d], e))]
      BY <1>a, <3>1, DropSorted
    <3> QED
      BY <2>1, <3>1, <3>2, <3>3 DEF HeadLater
  <2>5. Heard
    BY <1>0, <2>1, <2>3, <2>4, OneQueueChanges
  <2> QED
    BY <1>0, <2>1, <2>2, <2>5, EventKeepsConds
<1>4. ASSUME NEW enable \in BOOLEAN, EnableContinuousEvent(e, enable)
      PROVE  CondsKept /\ Heard
  <2>1. UNCHANGED <<pc, disp, waitVars, dispatcherVars, eventQ, due>>
    BY <1>4 DEF EnableContinuousEvent, queueVars, actorVars
  <2> QED
    BY <1>0, <2>1, HeadsSame, EventKeepsConds DEF dispatcherVars
<1>5. clock' = clock /\ UNCHANGED enabled
  BY DEF EventStep, CreateEvent, RemoveEvent, EnableContinuousEvent, dispatcherVars
<1>6. CondsKept /\ Heard
  <2> HIDE DEF Heard
  <2> QED
    BY <1>1, <1>2, <1>4 DEF EventStep
<1> QED
  BY <1>5, <1>6, SignalChange

LEMMA SignalDisable ==
    ASSUME SignalInv, TypeInv', NEW x \in Actors, DisableDispatcher(x)
    PROVE  \A y \in Waits : SignalOf(y)'
<1> DEFINE d == disp[x]
<1>0. TypeInv
  BY DEF SignalInv, SerialInv
<1>1. /\ pc[x] = "call"
      /\ eventQ' = [eventQ EXCEPT ![d] = <<>>]
      /\ enabled' = [enabled EXCEPT ![d] = FALSE]
      /\ \E b : SignalIf(d, b)
      /\ UNCHANGED <<pc, disp, waitVars, flagWaiting, due, clock>>
  BY DEF DisableDispatcher, actorVars
<1>2. d \in Dispatchers
  BY <1>0, <1>1 DEF TypeInv, Working, Outside
<1>3. CondsKept
  BY <1>0, <1>1, <1>2, SignalLatches, EventKeepsConds
<1>4. \A c \in Dispatchers : HeadLater(c)
  <2> SUFFICES ASSUME NEW c \in Dispatchers
               PROVE  HeadLater(c)
    OBVIOUS
  <2>1. eventQ'[c] = IF c = d THEN <<>> ELSE eventQ[c]
    BY <1>0, <1>1 DEF TypeInv, TypeOK
  <2>2. eventQ[c] # <<>> => due[Head(eventQ[c])] \in Nat
    BY <1>0, HeadDueType
  <2> QED
    BY <1>1, <2>1, <2>2 DEF HeadLater
<1>5. \A c \in Dispatchers : enabled'[c] => enabled[c]
  BY <1>0, <1>1, <1>2 DEF TypeInv, TypeOK
<1> QED
  BY <1>1, <1>3, <1>4, <1>5, SignalChange

\* What is behind the head of a sorted queue is due no earlier.
LEMMA TailLater ==
    ASSUME NEW q \in Seq(Events), NEW df \in [Events -> Nat], Sorted(q, df), Tail(q) # <<>>, q # <<>>
    PROVE  df[Head(q)] <= df[Head(Tail(q))]
<1>1. 1 \in DOMAIN q /\ 2 \in DOMAIN q /\ Head(q) = q[1] /\ Head(Tail(q)) = q[2]
  OBVIOUS
<1> QED
  BY <1>1 DEF Sorted

LEMMA SignalDispatch ==
    ASSUME SignalInv, TypeInv', NEW x \in Actors, FetchEvent(x) \/ ReturnEvent(x)
    PROVE  \A y \in Waits : SignalOf(y)'
<1> DEFINE d == disp[x]
           e == ev[x]
           Heard == \A c \in Dispatchers :
              parent[c] = "run" /\ flagWaiting[c] /\ enabled[c] /\ ~triggered'[c] => HeadLater(c)
<1>0. TypeInv /\ QueueInv
  BY DEF SignalInv, SerialInv
<1>1. /\ pc[x] \in {"fetch", "call"}
      /\ UNCHANGED <<enabled, flagWaiting, clock, disp, waitVars>>
  BY DEF FetchEvent, ReturnEvent
<1>2. d \in Dispatchers
  BY <1>0, <1>1 DEF TypeInv, Working, Outside
<1>3. /\ eventQ \in [Dispatchers -> Seq(Events)] /\ due \in [Events -> Nat]
      /\ pc \in [Actors -> UNION {PcsOf(y) : y \in Actors}]
      /\ eventQ[d] \in Seq(Events) /\ Sorted(eventQ[d], due)
  BY <1>0, <1>2 DEF QueueInv, TypeInv, TypeOK
<1>4. \A c \in Dispatchers : triggered[c] => triggered'[c]
  <2>1. CASE FetchEvent(x)
    BY <2>1 DEF FetchEvent
  <2>2. CASE ReturnEvent(x)
    <3>1. \E b, q, df : ScheduleIf(b, d, q, df, now)
      BY <2>2 DEF ReturnEvent
    <3> QED
      BY <1>0, <1>2, <3>1, ScheduleSignals
  <2> QED
    BY <2>1, <2>2
<1>5. CondsKept
  <2>1. PICK l \in {"got", "finish"} : pc' = [pc EXCEPT ![x] = l]
    BY DEF FetchEvent, ReturnEvent, TakeNext
  <2>2. \A y \in Waits : pc'[y] = "cond" => pc[y] = "cond" /\ disp[y] \in Dispatchers
    <3>1. \A y \in Waits : pc'[y] = "cond" => pc[y] = "cond"
      BY <1>3, <2>1 DEF Actors
    <3> QED
      BY <1>0, <3>1 DEF TypeInv, Working, Outside, Actors
  <2> QED
    BY <1>1, <1>4, <2>2 DEF CondsKept, waitVars
<1>6. CASE FetchEvent(x)
  <2>1. /\ UNCHANGED due
        /\ \/ eventQ' = [eventQ EXCEPT ![d] = eventQ[d]]
           \/ eventQ[d] # <<>> /\ eventQ' = [eventQ EXCEPT ![d] = Tail(eventQ[d])]
    BY <1>6 DEF FetchEvent, TakeNext, eventVars
  <2>2. \A c \in Dispatchers :
            eventQ'[c] = eventQ[c] \/ (c = d /\ eventQ[c] # <<>> /\ eventQ'[c] = Tail(eventQ[c]))
    BY <1>3, <2>1
  <2>3. ASSUME NEW c \in Dispatchers
        PROVE  HeadLater(c)
    <3>1. eventQ[c] # <<>> => due[Head(eventQ[c])] \in Nat
      BY <1>0, HeadDueType
    <3>2. eventQ[d] # <<>> /\ Tail(eventQ[d]) # <<>> =>
             due[Head(eventQ[d])] <= due[Head(Tail(eventQ[d]))]
      BY <1>3, TailLater
    <3>3. CASE eventQ'[c] = eventQ[c]
      BY <2>1, <3>1, <3>3 DEF HeadLater
    <3>4. CASE c = d /\ eventQ[d] # <<>> /\ eventQ'[d] = Tail(eventQ[d])
      <4> HIDE DEF d
      <4> QED
        BY <2>1, <3>2, <3>4 DEF HeadLater
    <3> QED
      BY <2>2, <3>3, <3>4
  <2> QED
    BY <1>1, <1>5, <2>3, SignalChange
<1>7. CASE ReturnEvent(x)
  <2> DEFINE again == continuous[e]
             df == IF again THEN [due EXCEPT ![e] = now + (IF period[e] > 0 THEN period[e] ELSE 1)]
                   ELSE due
             q  == IF again THEN Insert(eventQ[d], e, df) ELSE eventQ[d]
  <2>1. /\ due' = df
        /\ ScheduleIf(again /\ enabled[d], d, q, df, now)
        /\ TakeNext(x, q, df)
    BY <1>7 DEF ReturnEvent
  <2>2. again /\ enabled[d] /\ parent[d] = "run" /\ flagWaiting[d] => triggered'[d]
    BY <1>0, <1>2, <2>1, ScheduleSignals
  <2>3. PICK r : /\ eventQ' = [eventQ EXCEPT ![d] = r]
                 /\ r = q \/ (q # <<>> /\ r = Tail(q))
    <3> HIDE DEF q, df
    <3> QED
      BY <2>1 DEF TakeNext
  <2>4. e \in Events /\ \A c \in Dispatchers : Tied(e, c) => c = d
    <3>1. e \in Events /\ Tied(e, d)
      BY <1>0, <1>7 DEF ReturnEvent, TypeInv, Working, Tied, AtWork
    <3> QED
      BY <1>0, <1>2, <3>1 DEF QueueInv, TiedOnce
  <2>5. \A f \in Events \ {e} : due'[f] = due[f]
    BY <1>3, <2>1
  <2>6. ASSUME ~again
        PROVE  HeadLater(d)
    <3>0. q = eventQ[d] /\ df = due
      BY <2>6
    <3>1. due' = due /\ eventQ'[d] = r
      <4> HIDE DEF q, df
      <4> QED
        BY <1>2, <1>3, <2>1, <2>3, <3>0
    <3> HIDE DEF q, df
    <3>2. r = eventQ[d] \/ (eventQ[d] # <<>> /\ r = Tail(eventQ[d]))
      BY <2>3, <3>0
    <3>3. eventQ[d] # <<>> => due[Head(eventQ[d])] \in Nat
      BY <1>0, <1>2, HeadDueType
    <3>4. eventQ[d] # <<>> /\ Tail(eventQ[d]) # <<>> =>
             due[Head(eventQ[d])] <= due[Head(Tail(eventQ[d]))]
      BY <1>3, TailLater
    <3> QED
      BY <3>1, <3>2, <3>3, <3>4 DEF HeadLater
  <2>7. parent[d] = "run" /\ flagWaiting[d] /\ enabled[d] /\ ~triggered'[d] => HeadLater(d)
    BY <2>2, <2>6
  <2> HIDE DEF e, d, q, df, again
  <2>8. Heard
    BY <1>0, <1>2, <2>3, <2>4, <2>5, <2>7, OneQueueChanges
  <2> QED
    BY <1>1, <1>5, <2>8, SignalChange
<1> QED
  BY <1>6, <1>7

\* A step that changes no queue and keeps the waits.
LEMMA SignalQuiet ==
    ASSUME SignalInv, TypeInv', CondsKept, clock' = clock \/ Tick, UNCHANGED <<enabled, eventQ, due>>
    PROVE  \A x \in Waits : SignalOf(x)'
<1>1. TypeInv
  BY DEF SignalInv, SerialInv
<1> QED
  BY <1>1, HeadsSame, SignalChange

\* The other steps of the threads that service dispatchers.
LEMMA SignalActors ==
    ASSUME SignalInv, TypeInv',
           \/ Tick \/ ServiceStep \/ UNCHANGED vars
           \/ \E x \in Actors : \/ CallEvent(x) \/ FinishDispatch(x) \/ StartService(x)
                                \/ RescheduleDispatcher(x) \/ Retire(x)
    PROVE  \A x \in Waits : SignalOf(x)'
<1> DEFINE Kept == \A y \in Waits : pc'[y] = "cond" =>
                      pc[y] = "cond" /\ disp'[y] = disp[y] /\ disp[y] \in Dispatchers
           Quiet == UNCHANGED <<waitVars, flagWaiting, enabled, eventQ, due>>
           Latched == \A c \in Dispatchers : triggered[c] => triggered'[c]
<1>0. TypeInv
  BY DEF SignalInv, SerialInv
<1>a. /\ pc \in [Actors -> UNION {PcsOf(y) : y \in Actors}]
      /\ disp \in [Actors -> Dispatchers \cup {None}]
      /\ \A y \in Waits : /\ y \in Actors /\ y # Service /\ y \notin Workers
                          /\ pc[y] = "cond" => disp[y] \in Dispatchers
  BY <1>0, EventServiceAssumption DEF TypeInv, TypeOK, Working, Outside, Actors
<1>b. (Kept /\ Quiet /\ Latched) => CondsKept
  BY DEF CondsKept, waitVars
<1>1. CASE Tick \/ UNCHANGED vars
  <2>1. UNCHANGED <<pc, disp>> /\ Quiet /\ Latched
    BY <1>1 DEF Tick, vars, dispatcherVars, queueVars, eventVars, actorVars
  <2>2. Kept
    BY <1>a, <2>1
  <2>3. clock' = clock \/ Tick
    BY <1>1 DEF vars
  <2> QED
    BY <1>b, <2>1, <2>2, <2>3, SignalQuiet
<1>2. ASSUME NEW x \in Actors,
             \/ CallEvent(x) \/ FinishDispatch(x) \/ StartService(x)
             \/ RescheduleDispatcher(x) \/ Retire(x)
      PROVE  \A y \in Waits : SignalOf(y)'
  <2>1. PICK l : pc' = [pc EXCEPT ![x] = l] /\ l # "cond"
    BY <1>2 DEF CallEvent, FinishDispatch, StartService, RescheduleDispatcher, Retire
  <2>2. disp' = disp \/ (pc[x] = "retire" /\ disp' = [disp EXCEPT ![x] = None])
    BY <1>2 DEF CallEvent, FinishDispatch, StartService, RescheduleDispatcher, Retire
  <2>3. Kept
    BY <1>a, <2>1, <2>2
  <2>4. Quiet /\ clock' = clock
    BY <1>2 DEF CallEvent, FinishDispatch, StartService, RescheduleDispatcher, Retire,
       dispatcherVars, queueVars, eventVars
  <2>5. Latched
    <3>1. CASE RescheduleDispatcher(x)
      <4>1. disp[x] \in Dispatchers
        BY <1>0, <3>1 DEF RescheduleDispatcher, TypeInv, Working, Outside
      <4>2. (\E b : SignalIf(disp[x], b)) \/ UNCHANGED triggered
        BY <3>1 DEF RescheduleDispatcher, Schedule
      <4> QED
        BY <1>0, <4>1, <4>2, SignalLatches
    <3>2. CASE ~RescheduleDispatcher(x)
      BY <1>2, <3>2 DEF CallEvent, FinishDispatch, StartService, Retire, dispatcherVars
    <3> QED
      BY <3>1, <3>2
  <2> QED
    BY <1>b, <2>3, <2>4, <2>5, SignalQuiet
<1>3. CASE ServiceStep
  <2>1. Quiet /\ Latched /\ clock' = clock
    BY <1>3 DEF ServiceStep, PickPending, PickReady, TakeOver, ServiceDispatcher, QueuePending,
       NothingReady, Sleep, Awake, LoopAgain, dispatcherVars, queueVars, eventVars
  <2>2. \A y \in Waits : pc'[y] = pc[y] /\ disp'[y] = disp[y]
    <3>1. ASSUME NEW d \in Dispatchers, PickPending(d) \/ PickReady(d)
          PROVE  \A y \in Waits : pc'[y] = pc[y] /\ disp'[y] = disp[y]
      BY <1>a, <3>1 DEF PickPending, PickReady, TakeOver
    <3>2. CASE ServiceDispatcher
      <4>1. Idle \subseteq Workers
        BY DEF Idle
      <4> QED
        BY <1>a, <3>2, <4>1 DEF ServiceDispatcher
    <3>3. CASE QueuePending \/ NothingReady \/ Sleep \/ Awake \/ LoopAgain
      BY <1>a, <3>3 DEF QueuePending, NothingReady, Sleep, Awake, LoopAgain
    <3> QED
      BY <1>3, <3>1, <3>2, <3>3 DEF ServiceStep
  <2>3. Kept
    BY <1>a, <2>2
  <2> QED
    BY <1>b, <2>1, <2>3, SignalQuiet
<1> QED
  BY <1>1, <1>2, <1>3

\* Who prepares to wait looks ahead to the first event; who leaves the
\* condition takes its own signal, as long as nobody else waits for it.
LEMMA SignalWaits ==
    ASSUME SignalInv, TypeInv', OneCondWait, NEW x \in Waits,
           \/ WaitStep(x)
           \/ \E d \in Dispatchers, w \in Workers \cup {x}, t \in Periods : BeginWait(x, d, w, t)
    PROVE  \A y \in Waits : SignalOf(y)'
<1> DEFINE d == disp[x]
<1>0. TypeInv
  BY DEF SignalInv, SerialInv
<1>a. /\ pc \in [Actors -> UNION {PcsOf(y) : y \in Actors}]
      /\ disp \in [Actors -> Dispatchers \cup {None}]
      /\ flagWaiting \in [Dispatchers -> BOOLEAN] /\ triggered \in [Dispatchers -> BOOLEAN]
      /\ condAt \in [Waits -> Int] /\ condDue \in [Waits -> Int] /\ expires \in [Waits -> Nat]
      /\ runEvents \in [Waits -> BOOLEAN]
      /\ \A y \in Waits : /\ y \in Actors
                          /\ pc[y] = "cond" => disp[y] \in Dispatchers
  BY <1>0 DEF TypeInv, TypeOK, Working, Outside, Actors
<1>b. UNCHANGED <<enabled, eventQ, due, clock>>
  BY DEF WaitStep, BeginWait, ClaimDispatcher, LoopWait, PrepareWait, WaitSignalled, WaitTimedOut,
     EndWait, dispatcherVars, queueVars, eventVars
<1>1. ASSUME NEW c \in Dispatchers, NEW w \in Workers \cup {x}, NEW t \in Periods, BeginWait(x, c, w, t)
      PROVE  CondsKept
  BY <1>a, <1>1 DEF BeginWait, CondsKept, dispatcherVars
<1>2. CASE ClaimDispatcher(x) \/ LoopWait(x)
  <2> SUFFICES CondsKept
    BY <1>b, SignalQuiet
  <2>1. \E l : l # "cond" /\ pc' = [pc EXCEPT ![x] = l]
    BY <1>2 DEF ClaimDispatcher, LoopWait
  <2>2. \A y \in Waits : pc'[y] = "cond" => pc[y] = "cond" /\ y # x
    BY <1>a, <2>1
  <2>3. /\ UNCHANGED <<disp, condAt, condDue, flagWaiting, triggered>>
        /\ runEvents' = runEvents \/ \E b : runEvents' = [runEvents EXCEPT ![x] = b]
    BY <1>2 DEF ClaimDispatcher, LoopWait, dispatcherVars, waitVars
  <2>4. \A y \in Waits \ {x} : runEvents'[y] = runEvents[y]
    BY <1>a, <2>3
  <2> QED
    BY <2>2, <2>3, <2>4 DEF CondsKept
<1>3. CASE WaitSignalled(x) \/ WaitTimedOut(x)
  <2> SUFFICES CondsKept
    BY <1>b, SignalQuiet
  <2>1. /\ pc[x] = "cond" /\ d \in Dispatchers
        /\ flagWaiting' = [flagWaiting EXCEPT ![d] = FALSE]
        /\ triggered' = triggered \/ triggered' = [triggered EXCEPT ![d] = FALSE]
        /\ UNCHANGED <<disp, runEvents, condAt, condDue>>
        /\ \E l : l # "cond" /\ pc' = [pc EXCEPT ![x] = l]
    BY <1>a, <1>3 DEF WaitSignalled, WaitTimedOut, waitVars
  <2>2. \A y \in Waits : pc'[y] = "cond" => pc[y] = "cond" /\ disp[y] \in Dispatchers \ {d}
    BY <1>a, <2>1 DEF OneCondWait
  <2>3. \A c \in Dispatchers \ {d} : flagWaiting'[c] = flagWaiting[c] /\ triggered'[c] = triggered[c]
    BY <1>a, <2>1
  <2> HIDE DEF d
  <2> QED
    BY <2>1, <2>2, <2>3 DEF CondsKept
<1>4. CASE EndWait(x)
  <2> SUFFICES CondsKept
    BY <1>b, SignalQuiet
  <2>1. /\ d \in Dispatchers
        /\ UNCHANGED <<flagWaiting, runEvents>>
        /\ disp' = [disp EXCEPT ![x] = None]
        /\ pc' = [pc EXCEPT ![x] = "over"]
        /\ condAt' = [condAt EXCEPT ![x] = 0] /\ condDue' = [condDue EXCEPT ![x] = 0]
    BY <1>0, <1>4 DEF EndWait, TypeInv, Working, Outside, Actors
  <2>2. (\E b : SignalIf(d, b)) \/ UNCHANGED triggered
    BY <1>4 DEF EndWait, Schedule
  <2>3. \A c \in Dispatchers : triggered[c] => triggered'[c]
    BY <1>0, <2>1, <2>2, SignalLatches
  <2>4. \A y \in Waits : pc'[y] = "cond" => /\ pc[y] = "cond" /\ disp'[y] = disp[y]
                                            /\ condAt'[y] = condAt[y] /\ condDue'[y] = condDue[y]
    BY <1>a, <2>1
  <2>5. \A y \in Waits : pc[y] = "cond" => disp[y] \in Dispatchers
    BY <1>a
  <2>6. UNCHANGED <<flagWaiting, runEvents>>
    BY <2>1
  <2> QED
    BY <2>3, <2>4, <2>5, <2>6 DEF CondsKept
<1>5. CASE PrepareWait(x)
  <2> DEFINE left  == expires[x] - now
             first == due[Head(eventQ[d])] - now
             delay == IF left < 0 \/ (eventQ[d] # <<>> /\ first < 0) THEN 0
                      ELSE IF eventQ[d] # <<>> /\ first < left THEN first ELSE left
  <2>1. /\ pc[x] = "prep" /\ d \in Dispatchers
        /\ condAt' = [condAt EXCEPT ![x] = clock + delay]
        /\ condDue' = [condDue EXCEPT ![x] = now + delay]
        /\ flagWaiting' = [flagWaiting EXCEPT ![d] = TRUE]
        /\ pc' = [pc EXCEPT ![x] = "cond"]
        /\ UNCHANGED <<disp, triggered, runEvents, clock>>
    BY <1>0, <1>5 DEF PrepareWait, TypeInv, Working, Outside, Actors
  <2>2. now \in Nat /\ clock \in Nat /\ left \in Int /\ (eventQ[d] # <<>> => first \in Int)
    <3>1. now \in Nat /\ clock \in Nat /\ expires[x] \in Nat
      BY <1>0, <1>a DEF TypeInv, TypeOK
    <3>2. eventQ[d] # <<>> => due[Head(eventQ[d])] \in Nat
      BY <1>0, <2>1, HeadDueType
    <3> QED
      BY <3>1, <3>2
  <2>3. eventQ[d] # <<>> => now + delay <= due[Head(eventQ[d])] \/ clock + delay <= clock
    <3> SUFFICES ASSUME eventQ[d] # <<>>
                 PROVE  now + delay <= due[Head(eventQ[d])] \/ clock + delay <= clock
      OBVIOUS
    <3>1. due[Head(eventQ[d])] \in Nat
      BY <1>0, <2>1, HeadDueType
    <3> HIDE DEF d
    <3> QED
      BY <2>2, <3>1
  <2>4. SignalOf(x)'
    <3>1. /\ condAt'[x] = clock + delay /\ condDue'[x] = now + delay /\ flagWaiting'[d] = TRUE
          /\ disp'[x] = d
      BY <1>a, <2>1
    <3> HIDE DEF delay, d
    <3>2. delay \in Int
      BY <2>2 DEF delay, d
    <3>3. eventQ'[d] # <<>> => condDue'[x] <= due'[Head(eventQ'[d])] \/ Expired(condAt[x])'
      BY <1>b, <2>2, <2>3, <3>1, <3>2 DEF Expired
    <3> QED
      BY <3>1, <3>3 DEF SignalOf
  <2>5. ASSUME NEW y \in Waits \ {x}
        PROVE  SignalOf(y)'
    <3>1. /\ pc'[y] = pc[y] /\ disp'[y] = disp[y]
          /\ condAt'[y] = condAt[y] /\ condDue'[y] = condDue[y]
          /\ flagWaiting[disp[y]] /\ pc[y] = "cond" => flagWaiting'[disp[y]]
      BY <1>a, <2>1
    <3>2. SignalOf(y)
      BY DEF SignalInv
    <3> QED
      BY <1>b, <2>1, <3>1, <3>2 DEF SignalOf, Expired
  <2> QED
    BY <2>4, <2>5
<1> QED
  BY <1>b, <1>1, <1>2, <1>3, <1>4, <1>5, SignalQuiet DEF WaitStep

LEMMA SignalStep == SignalInv /\ OneCondWait /\ [Next]_vars => SignalInv'
<1> SUFFICES ASSUME SignalInv, OneCondWait, [Next]_vars
             PROVE  SignalInv'
  OBVIOUS
<1>1. SerialInv' /\ QueueInv'
  BY SerialStep, QueueStep DEF SignalInv
<1>2. TypeInv'
  BY <1>1 DEF QueueInv
<1>3. \A x \in Waits : SignalOf(x)'
  <2>1. ASSUME NEW x \in Actors, DispatchStep(x) \/ DisableDispatcher(x)
        PROVE  \A y \in Waits : SignalOf(y)'
    BY <1>2, <2>1, SignalDisable, SignalDispatch, SignalActors DEF DispatchStep
  <2> QED
    BY <1>2, <2>1, SignalEvents, SignalActors, SignalWaits DEF Next
<1> QED
  BY <1>1, <1>3 DEF SignalInv

\* No lost signal: a thread in mprWaitForEvent that runs the events of its
\* dispatcher does not sleep past one, as long as no second thread waits on the
\* condition of the same dispatcher (see OneCondWait).
THEOREM SignalsAreHeard == Spec /\ []OneCondWait => []NoLostSignal
<1>1. Init => SignalInv
  <2> SUFFICES ASSUME Init
               PROVE  \A x \in Waits : SignalOf(x)
    BY SerialInit, QueueInit DEF SignalInv
  <2>1. \A x \in Waits : pc[x] = "off"
    BY EventServiceAssumption DEF Init, Actors
  <2> QED
    BY <2>1 DEF SignalOf
<1>2. SignalInv => NoLostSignal
  BY DEF SignalInv, SignalOf, NoLostSignal
<1> QED
  BY <1>1, <1>2, SignalStep, PTL DEF Spec

-----------------------------------------------------------------------------
(* The event service implements a serial executor for each dispatcher.       *)

\* An event on the current queue of a dispatcher is being called there; and the
\* time that the service goes by is never ahead of the clock.
CurrentAtWork == \A d \in Dispatchers : \A e \in currentQ[d] : AtWork(e, d)

ExecInv == SerialInv /\ QueueInv /\ CurrentAtWork /\ now <= clock

\* What the callbacks are, for the executor.
LEMMA CallsAre ==
    ASSUME TypeInv, NEW x \in Actors
    PROVE  /\ x \in Executor!Busy <=> Executing(x)
           /\ Executing(x) => /\ Calls[x].on = Thread(x) /\ Calls[x].at = disp[x] /\ Calls[x].event = ev[x]
                              /\ disp[x] \in Dispatchers /\ ev[x] \in Events
<1>1. Executing(x) => disp[x] \in Dispatchers /\ ev[x] \in Events
  BY DEF Executing, TypeInv, Working, Outside
<1>2. Executing(x) => ev[x] # None
  BY <1>1, EventServiceAssumption
<1> QED
  BY <1>1, <1>2 DEF Calls, Executor!Busy

LEMMA CallsSame ==
    ASSUME \A x \in Actors : /\ Executing(x)' <=> Executing(x)
                             /\ Executing(x) => /\ disp'[x] = disp[x] /\ ev'[x] = ev[x]
                                                /\ Thread(x)' = Thread(x)
    PROVE  Calls' = Calls
BY DEF Calls

\* Insert and Drop are what the executor does to a queue.
LEMMA InsertEnqueues ==
    ASSUME NEW q \in Seq(Events), NEW e \in Events, NEW df \in [Events -> Nat], Sorted(q, df)
    PROVE  Insert(q, e, df) \in Executor!Enqueued(q, e, df)
<1> DEFINE k == Cardinality({j \in DOMAIN q : df[q[j]] <= df[e]})
<1>1. k \in 0..Len(q)
  BY InsertPosition
<1>2. \A i \in DOMAIN q : df[q[i]] <= df[e] <=> i <= k
  BY PlaceIsBehind
<1>3. Insert(q, e, df) = Executor!InsertAt(q, k + 1, e)
  BY DEF Insert, InsertAt, Executor!InsertAt
<1> HIDE DEF k
<1>4. k + 1 \in 1..(Len(q) + 1) /\ \A j \in DOMAIN q : j < k + 1 <=> df[q[j]] <= df[e]
  BY <1>1, <1>2
<1> QED
  BY <1>3, <1>4, Zenon DEF Executor!Enqueued

LEMMA DropUnqueues ==
    ASSUME NEW q \in Seq(Events), NEW e \in Events
    PROVE  Drop(q, e) \in Executor!Unqueued(q, e)
<1>1. CASE e \in ToSet(q)
  <2> DEFINE i == CHOOSE j \in DOMAIN q : q[j] = e
  <2>1. \E j \in DOMAIN q : q[j] = e
    BY <1>1 DEF ToSet
  <2>2. i \in DOMAIN q /\ q[i] = e
    BY <2>1, Zenon
  <2>3. Drop(q, e) = Executor!RemoveAt(q, i)
    BY <1>1 DEF Drop, RemoveAt, Executor!RemoveAt
  <2>4. e \in Executor!ToSet(q)
    BY <1>1 DEF ToSet, Executor!ToSet
  <2> HIDE DEF i
  <2> QED
    BY <2>2, <2>3, <2>4, Zenon DEF Executor!Unqueued
<1>2. CASE e \notin ToSet(q)
  BY <1>2 DEF Drop, Executor!Unqueued, ToSet, Executor!ToSet
<1> QED
  BY <1>1, <1>2


-----------------------------------------------------------------------------
LEMMA TimeStep ==
    ASSUME ExecInv, TypeInv', [Next]_vars
    PROVE  now' <= clock' /\ now <= now' /\ now' \in Nat
<1>0. now \in Nat /\ clock \in Nat /\ now <= clock /\ now' \in Nat /\ clock' \in Nat
  BY DEF ExecInv, SerialInv, TypeInv, TypeOK
<1> SUFFICES now' \in {now, clock} /\ clock' \in {clock, clock + 1}
  BY <1>0
<1>1. CASE Tick \/ UNCHANGED vars
  BY <1>1 DEF Tick, vars
<1>2. ASSUME NEW x \in Actors, DispatchStep(x) \/ DisableDispatcher(x)
      PROVE  UNCHANGED <<now, clock>>
  BY <1>2 DEF DispatchStep, FetchEvent, CallEvent, ReturnEvent, FinishDispatch, StartService,
     RescheduleDispatcher, Retire, DisableDispatcher
<1>3. ASSUME ServiceStep
      PROVE  now' \in {now, clock} /\ clock' = clock
  BY <1>3 DEF ServiceStep, PickPending, PickReady, ServiceDispatcher, QueuePending, NothingReady,
     Sleep, Awake, LoopAgain
<1>4. ASSUME NEW x \in Waits, WaitStep(x)
      PROVE  now' \in {now, clock} /\ clock' = clock
  BY <1>4 DEF WaitStep, ClaimDispatcher, LoopWait, PrepareWait, WaitSignalled, WaitTimedOut, EndWait
<1>5. ASSUME NEW x \in Waits, NEW d \in Dispatchers, NEW w \in Workers \cup {x}, NEW t \in Periods,
             BeginWait(x, d, w, t)
      PROVE  now' = clock /\ clock' = clock
  BY <1>5 DEF BeginWait
<1>6. ASSUME NEW e \in Events, EventStep(e)
      PROVE  now' \in {now, clock} /\ clock' = clock
  BY <1>6 DEF EventStep, CreateEvent, RemoveEvent, EnableContinuousEvent
<1> QED
  BY <1>1, <1>2, <1>3, <1>4, <1>5, <1>6 DEF Next

\* The steps of the threads that neither call an event nor return from one.
RestStep ==
    \/ Tick \/ ServiceStep \/ UNCHANGED vars
    \/ \E x \in Actors : \/ CallEvent(x) \/ FinishDispatch(x) \/ StartService(x)
                         \/ RescheduleDispatcher(x) \/ Retire(x)
    \/ \E x \in Waits : \/ WaitStep(x)
                        \/ \E d \in Dispatchers, w \in Workers \cup {x}, t \in Periods :
                              BeginWait(x, d, w, t)

LEMMA RestIsQuiet ==
    ASSUME TypeInv, RestStep
    PROVE  /\ UNCHANGED <<enabled, queueVars, eventVars, ev>>
           /\ \A y \in Actors : /\ Executing(y)' <=> Executing(y)
                                /\ Executing(y) => /\ disp'[y] = disp[y]
                                                   /\ Thread(y)' = Thread(y)
<1> DEFINE Quiet == UNCHANGED <<enabled, queueVars, eventVars, ev>>
           Kept  == \A y \in Actors : /\ Executing(y)' <=> Executing(y)
                                      /\ Executing(y) => /\ disp'[y] = disp[y]
                                                         /\ Thread(y)' = Thread(y)
<1> SUFFICES Quiet /\ Kept
  OBVIOUS
<1>0. /\ pc \in [Actors -> UNION {PcsOf(x) : x \in Actors}]
      /\ disp \in [Actors -> Dispatchers \cup {None}] /\ host \in [Waits -> Workers \cup Waits]
  BY DEF TypeInv, TypeOK
<1>1. CASE Tick \/ UNCHANGED vars
  BY <1>1 DEF Tick, vars, dispatcherVars, queueVars, eventVars, actorVars, waitVars, Executing, Thread
<1>2. ASSUME NEW x \in Actors,
             \/ CallEvent(x) \/ FinishDispatch(x) \/ StartService(x)
             \/ RescheduleDispatcher(x) \/ Retire(x)
      PROVE  Quiet /\ Kept
  <2>1. Quiet /\ UNCHANGED host
    BY <1>2 DEF CallEvent, FinishDispatch, StartService, RescheduleDispatcher, Retire,
       dispatcherVars, queueVars, eventVars, waitVars
  <2>2. /\ \A y \in Actors \ {x} : pc'[y] = pc[y] /\ disp'[y] = disp[y]
        /\ \/ pc[x] = "got" /\ pc'[x] = "call" /\ disp'[x] = disp[x]
           \/ pc[x] \in {"finish", "start", "resched", "retire"} /\ pc'[x] \notin {"got", "call"}
    BY <1>0, <1>2 DEF CallEvent, FinishDispatch, StartService, RescheduleDispatcher, Retire
  <2> QED
    BY <2>1, <2>2 DEF Executing, Thread
<1>3. CASE ServiceStep
  <2>1. ASSUME NEW d \in Dispatchers, PickPending(d) \/ PickReady(d)
        PROVE  Quiet /\ Kept
    BY <1>0, <2>1 DEF PickPending, PickReady, TakeOver, dispatcherVars, queueVars, eventVars, waitVars,
       Executing, Thread, Actors
  <2>2. CASE ServiceDispatcher
    BY <1>0, <2>2, EventServiceAssumption DEF ServiceDispatcher, Idle, Actors, queueVars, eventVars,
       waitVars, Executing, Thread
  <2>3. CASE QueuePending \/ NothingReady \/ Sleep \/ Awake \/ LoopAgain
    BY <1>0, <2>3 DEF QueuePending, NothingReady, Sleep, Awake, LoopAgain, dispatcherVars, queueVars,
       eventVars, waitVars, Executing, Thread, Actors
  <2> QED
    BY <1>3, <2>1, <2>2, <2>3 DEF ServiceStep
<1>4. ASSUME NEW x \in Waits, WaitStep(x)
      PROVE  Quiet /\ Kept
  <2>1. ASSUME ClaimDispatcher(x) \/ LoopWait(x) \/ PrepareWait(x)
        PROVE  Quiet /\ Kept
    BY <1>0, <2>1 DEF ClaimDispatcher, LoopWait, PrepareWait, dispatcherVars, queueVars, eventVars,
       waitVars, Executing, Thread, Actors
  <2>2. ASSUME WaitSignalled(x) \/ WaitTimedOut(x) \/ EndWait(x)
        PROVE  Quiet /\ Kept
    BY <1>0, <2>2 DEF WaitSignalled, WaitTimedOut, EndWait, dispatcherVars, queueVars, eventVars,
       waitVars, Executing, Thread, Actors
  <2> QED
    BY <1>4, <2>1, <2>2 DEF WaitStep
<1>5. ASSUME NEW x \in Waits, NEW d \in Dispatchers, NEW w \in Workers \cup {x}, NEW t \in Periods,
             BeginWait(x, d, w, t)
      PROVE  Quiet /\ Kept
  BY <1>0, <1>5 DEF BeginWait, dispatcherVars, queueVars, eventVars, Executing, Thread, Actors
<1> QED
  BY <1>1, <1>2, <1>3, <1>4, <1>5 DEF RestStep

LEMMA ExecRest ==
    ASSUME ExecInv, now <= now', now' \in Nat, RestStep
    PROVE  Executor!Advance
<1>1. /\ UNCHANGED <<enabled, queueVars, eventVars, ev>>
      /\ \A y \in Actors : /\ Executing(y)' <=> Executing(y)
                           /\ Executing(y) => /\ disp'[y] = disp[y]
                                              /\ Thread(y)' = Thread(y)
  BY RestIsQuiet DEF ExecInv, SerialInv
<1>2. Calls' = Calls
  BY <1>1, CallsSame
<1> QED
  BY <1>1, <1>2 DEF queueVars, eventVars, Executor!Advance, Executor!Later

LEMMA CurrentStep ==
    ASSUME TypeInv, CurrentAtWork, [Next]_vars
    PROVE  CurrentAtWork'
<1> USE DEF CurrentAtWork
<1>0. /\ pc \in [Actors -> UNION {PcsOf(x) : x \in Actors}]
      /\ ev \in [Actors -> Events \cup {None}]
      /\ currentQ \in [Dispatchers -> SUBSET Events]
  BY DEF TypeInv, TypeOK
<1>1. CASE RestStep
  <2>1. /\ UNCHANGED <<queueVars, ev>>
        /\ \A y \in Actors : Executing(y) => Executing(y)' /\ disp'[y] = disp[y]
    BY <1>1, RestIsQuiet
  <2>2. \A e \in Events, d \in Dispatchers : AtWork(e, d) => AtWork(e, d)'
    BY <2>1 DEF AtWork, Executing
  <2> QED
    BY <1>0, <2>1, <2>2 DEF queueVars
<1>2. ASSUME NEW e \in Events, EventStep(e)
      PROVE  CurrentAtWork'
  <2>1. UNCHANGED <<pc, ev, disp>>
    BY <1>2 DEF EventStep, CreateEvent, RemoveEvent, EnableContinuousEvent, actorVars
  <2>2. \A d \in Dispatchers : currentQ'[d] \subseteq currentQ[d]
    <3>1. CASE \E own \in BOOLEAN : RemoveEvent(e, own)
      BY <1>0, <3>1 DEF RemoveEvent
    <3>3. CASE UNCHANGED currentQ
      BY <3>3
    <3>4. ASSUME NEW d \in Dispatchers, NEW p \in Periods, NEW c \in BOOLEAN, CreateEvent(e, d, p, c)
          PROVE  UNCHANGED currentQ
      BY <3>4 DEF CreateEvent
    <3>5. ASSUME NEW c \in BOOLEAN, EnableContinuousEvent(e, c)
          PROVE  UNCHANGED currentQ
      BY <3>5 DEF EnableContinuousEvent, queueVars
    <3> QED
      BY <1>2, <3>1, <3>3, <3>4, <3>5 DEF EventStep
  <2> QED
    BY <2>1, <2>2 DEF AtWork
<1>3. ASSUME NEW x \in Actors, DisableDispatcher(x)
      PROVE  CurrentAtWork'
  <2>1. UNCHANGED <<currentQ, pc, ev, disp>>
    BY <1>3 DEF DisableDispatcher, actorVars
  <2> QED
    BY <2>1 DEF AtWork
<1>4. ASSUME NEW x \in Actors, FetchEvent(x) \/ ReturnEvent(x)
      PROVE  CurrentAtWork'
  <2>1. disp' = disp
    BY <1>4 DEF FetchEvent, ReturnEvent
  <2>2. \E q, df : TakeNext(x, q, df)
    BY <1>4 DEF FetchEvent, ReturnEvent
  <2>3. PICK l, g, C :
             /\ pc' = [pc EXCEPT ![x] = l] /\ ev' = [ev EXCEPT ![x] = g]
             /\ currentQ' = [currentQ EXCEPT ![disp[x]] = (@ \ {ev[x]}) \cup C]
             /\ C = {} \/ (C = {g} /\ l = "got")
    <3>1. PICK q, df : TakeNext(x, q, df)
      BY <2>2
    <3>2. CASE enabled[disp[x]] /\ q # <<>> /\ df[Head(q)] <= now
      BY <3>1, <3>2, Zenon DEF TakeNext
    <3>3. CASE ~(enabled[disp[x]] /\ q # <<>> /\ df[Head(q)] <= now)
      <4>1. /\ pc' = [pc EXCEPT ![x] = "finish"] /\ ev' = [ev EXCEPT ![x] = None]
            /\ currentQ' = [currentQ EXCEPT ![disp[x]] = @ \ {ev[x]}]
        BY <3>1, <3>3, Zenon DEF TakeNext
      <4>2. currentQ' = [currentQ EXCEPT ![disp[x]] = (@ \ {ev[x]}) \cup {}]
        BY <4>1
      <4> QED
        BY <4>1, <4>2, Zenon
    <3> QED
      BY <3>2, <3>3
  <2>4. ASSUME NEW d \in Dispatchers, NEW e \in currentQ'[d]
        PROVE  \E y \in Actors : pc'[y] \in {"got", "call"} /\ ev'[y] = e /\ disp[y] = d
    <3>1. CASE d = disp[x] /\ e \in C
      BY <1>0, <2>3, <3>1
    <3>2. CASE ~(d = disp[x] /\ e \in C)
      <4>1. e \in currentQ[d] /\ (d = disp[x] => e # ev[x])
        BY <1>0, <2>3, <3>2
      <4>2. PICK y \in Actors : pc[y] \in {"got", "call"} /\ ev[y] = e /\ disp[y] = d
        BY <4>1 DEF AtWork
      <4>3. y # x
        BY <4>1, <4>2
      <4> QED
        BY <1>0, <2>3, <4>2, <4>3
    <3> QED
      BY <3>1, <3>2
  <2> QED
    BY <2>1, <2>4 DEF AtWork
<1> QED
  BY <1>1, <1>2, <1>3, <1>4 DEF Next, DispatchStep, RestStep

\* The event API.
LEMMA ExecCreate ==
    ASSUME ExecInv, TypeInv', now <= now', NEW e \in Events, NEW d \in Dispatchers, NEW p \in Periods,
           NEW c \in BOOLEAN, CreateEvent(e, d, p, c)
    PROVE  Executor!Create(e, d, p, c)
<1> DEFINE q == Insert(eventQ[d], e, due')
<1>1. /\ e \notin created /\ created' = created \cup {e}
      /\ now' = clock /\ due' = [due EXCEPT ![e] = now' + p]
      /\ home' = [home EXCEPT ![e] = d]
      /\ period' = [period EXCEPT ![e] = p] /\ continuous' = [continuous EXCEPT ![e] = c]
      /\ eventQ' = [eventQ EXCEPT ![d] = q]
      /\ UNCHANGED <<enabled, pc, ev, disp, host>>
  BY DEF CreateEvent, actorVars, waitVars
<1>2. eventQ[d] \in Seq(Events) /\ due' \in [Events -> Nat] /\ now' \in Nat
  BY DEF ExecInv, QueueInv, TypeInv, TypeOK
<1>3. e \notin ToSet(eventQ[d])
  BY <1>1 DEF ExecInv, QueueInv, TiedOnce, Tied
<1>4. \A f \in Events \ {e} : due'[f] = due[f]
  BY <1>1 DEF ExecInv, QueueInv, TypeInv, TypeOK
<1>5. Sorted(eventQ[d], due')
  BY <1>2, <1>3, <1>4, SortedElsewhere DEF ExecInv, QueueInv
<1>6. q \in Executor!Enqueued(eventQ[d], e, due')
  BY <1>2, <1>5, InsertEnqueues
<1> HIDE DEF q
<1>7. Calls' = Calls
  BY <1>1, CallsSame DEF Executing, Thread
<1> QED
  BY <1>1, <1>2, <1>6, <1>7 DEF Executor!Create, Executor!Later

LEMMA ExecRemove ==
    ASSUME ExecInv, NEW e \in Events, NEW own \in BOOLEAN, RemoveEvent(e, own)
    PROVE  Executor!Cancel(e)
<1> DEFINE d == home[e]
           q == IF ~Running(e) THEN Drop(eventQ[d], e) ELSE eventQ[d]
           races == ~own /\ \E x \in Actors : pc[x] \in {"got", "call"} /\ ev[x] = e
<1>1. /\ d # None /\ home' = [home EXCEPT ![e] = None]
      /\ eventQ' = [eventQ EXCEPT ![d] = q]
      /\ \E c \in {FALSE} \cup (IF races THEN {continuous[e]} ELSE {}) :
               continuous' = [continuous EXCEPT ![e] = c]
      /\ UNCHANGED <<now, enabled, due, period, created, pc, ev, disp, host>>
  BY DEF RemoveEvent, actorVars, waitVars
<1>2. d \in Dispatchers /\ eventQ[d] \in Seq(Events) /\ TypeInv
  BY <1>1 DEF ExecInv, QueueInv, TypeInv, TypeOK
<1>3. Calls' = Calls
  BY <1>1, CallsSame DEF Executing, Thread
<1>4. ASSUME NEW x \in Actors, pc[x] \in {"got", "call"}, ev[x] = e
      PROVE  Executor!Called(e)
  BY <1>2, <1>4, CallsAre DEF Executing, Executor!Called
<1>5. Drop(eventQ[d], e) \in Executor!Unqueued(eventQ[d], e)
  BY <1>2, DropUnqueues
<1>6. q \in Executor!Unqueued(eventQ[d], e) \cup (IF Executor!Called(e) THEN {eventQ[d]} ELSE {})
  BY <1>4, <1>5 DEF Running
<1>7. races => Executor!Called(e)
  BY <1>4
<1>8. \E c \in {FALSE} \cup (IF Executor!Called(e) THEN {continuous[e]} ELSE {}) :
          continuous' = [continuous EXCEPT ![e] = c]
  BY <1>1, <1>7
<1> HIDE DEF q, races
<1> QED
  BY <1>1, <1>3, <1>6, <1>8 DEF Executor!Cancel

LEMMA ExecEnable ==
    ASSUME NEW e \in Events, NEW c \in BOOLEAN, EnableContinuousEvent(e, c)
    PROVE  Executor!Enable(e, c)
<1>1. UNCHANGED <<pc, ev, disp, host>>
  BY DEF EnableContinuousEvent, actorVars, waitVars
<1>2. Calls' = Calls
  BY <1>1, CallsSame DEF Executing, Thread
<1> QED
  BY <1>2 DEF EnableContinuousEvent, dispatcherVars, queueVars, Executor!Enable

LEMMA ExecDisable ==
    ASSUME ExecInv, NEW x \in Actors, DisableDispatcher(x)
    PROVE  Executor!Disable(x)
<1>1. UNCHANGED <<pc, ev, disp, host>> /\ pc[x] = "call"
  BY DEF DisableDispatcher, actorVars, waitVars
<1>2. Calls' = Calls
  BY <1>1, CallsSame DEF Executing, Thread
<1>3. x \in Executor!Busy /\ Calls[x].at = disp[x]
  BY <1>1, CallsAre DEF ExecInv, SerialInv, Executing
<1> QED
  BY <1>2, <1>3 DEF DisableDispatcher, Executor!Disable, ToSet, Executor!ToSet


\* An actor that begins to run callbacks is alone on its thread, or nested in
\* the one that waits for it.
LEMMA AloneOrNested ==
    ASSUME TypeInv, WaitInv, NEW x \in Actors, pc[x] = "fetch"
    PROVE  /\ Thread(x) \in Actors
           /\ Executor!On(Thread(x)) = {Thread(x)} \ {x}
<1> DEFINE t == Thread(x)
<1>0. \A y \in Actors : y \in Executor!On(t) <=> Executing(y) /\ Thread(y) = t
  BY CallsAre DEF Executor!On, Executor!Busy
<1>1. ~Executing(x)
  BY DEF Executing
<1>2. CASE Thread(x) = x
  <2>1. ASSUME NEW y \in Actors, Executing(y), Thread(y) = x
        PROVE  FALSE
    <3>1. y # x /\ y \in Waits /\ host[y] = x
      BY <1>1, <2>1 DEF Thread
    <3>2. pc[x] = "call"
      BY <2>1, <3>1 DEF WaitInv, Active, Executing
    <3> QED
      BY <3>2
  <2> QED
    BY <1>0, <1>2, <2>1 DEF Executor!On, Executor!Busy
<1>3. CASE Thread(x) # x
  <2>1. x \in Waits /\ host[x] = t /\ t \in Workers /\ pc[t] = "call"
    BY <1>3 DEF Thread, WaitInv, Active
  <2>2. t \in Actors /\ Executing(t) /\ Thread(t) = t
    BY <2>1, EventServiceAssumption DEF Actors, Executing, Thread
  <2>3. ASSUME NEW y \in Actors, Executing(y), Thread(y) = t, y # t
        PROVE  FALSE
    <3>1. y \in Waits /\ host[y] = host[x]
      BY <2>1, <2>3 DEF Thread
    <3>2. y = x
      BY <2>1, <2>3, <3>1 DEF WaitInv, Active, Executing
    <3> QED
      BY <1>1, <2>3, <3>2
  <2> HIDE DEF t
  <2> QED
    BY <1>0, <1>1, <2>2, <2>3 DEF t, Executor!On, Executor!Busy
<1> QED
  BY <1>2, <1>3

\* What TakeNext does to the callbacks.
LEMMA TakeCalls ==
    ASSUME TypeInv, NEW x \in Actors, NEW q, NEW df, TakeNext(x, q, df), UNCHANGED <<disp, host>>
    PROVE  IF enabled[disp[x]] /\ q # <<>> /\ df[Head(q)] <= now
           THEN /\ eventQ' = [eventQ EXCEPT ![disp[x]] = Tail(q)]
                /\ Calls' = [Calls EXCEPT ![x] = [on |-> Thread(x), at |-> disp[x], event |-> Head(q)]]
           ELSE /\ eventQ' = [eventQ EXCEPT ![disp[x]] = q]
                /\ Calls' = [Calls EXCEPT ![x] = [on |-> None, at |-> None, event |-> None]]
<1>0. /\ pc \in [Actors -> UNION {PcsOf(y) : y \in Actors}]
      /\ ev \in [Actors -> Events \cup {None}]
  BY DEF TypeInv, TypeOK
<1>1. CASE enabled[disp[x]] /\ q # <<>> /\ df[Head(q)] <= now
  <2>1. /\ eventQ' = [eventQ EXCEPT ![disp[x]] = Tail(q)]
        /\ ev' = [ev EXCEPT ![x] = Head(q)] /\ pc' = [pc EXCEPT ![x] = "got"]
    BY <1>1, Zenon DEF TakeNext
  <2>2. \A y \in Actors : /\ Executing(y)' <=> y = x \/ Executing(y)
                          /\ ev'[y] = IF y = x THEN Head(q) ELSE ev[y]
                          /\ Thread(y)' = Thread(y)
    BY <1>0, <2>1 DEF Executing, Thread
  <2>3. Calls' = [Calls EXCEPT ![x] = [on |-> Thread(x), at |-> disp[x], event |-> Head(q)]]
    BY <2>2 DEF Calls
  <2> QED
    BY <1>1, <2>1, <2>3
<1>2. CASE ~(enabled[disp[x]] /\ q # <<>> /\ df[Head(q)] <= now)
  <2>1. /\ eventQ' = [eventQ EXCEPT ![disp[x]] = q]
        /\ ev' = [ev EXCEPT ![x] = None] /\ pc' = [pc EXCEPT ![x] = "finish"]
    BY <1>2, Zenon DEF TakeNext
  <2>2. \A y \in Actors : /\ Executing(y)' <=> y # x /\ Executing(y)
                          /\ y # x => ev'[y] = ev[y]
                          /\ Thread(y)' = Thread(y)
    BY <1>0, <2>1 DEF Executing, Thread
  <2>3. Calls' = [Calls EXCEPT ![x] = [on |-> None, at |-> None, event |-> None]]
    BY <2>2 DEF Calls
  <2> QED
    BY <1>2, <2>1, <2>3
<1> QED
  BY <1>1, <1>2

LEMMA ExecFetch ==
    ASSUME ExecInv, SerialInv', NEW x \in Actors, FetchEvent(x)
    PROVE  Executor!Next
<1> DEFINE d == disp[x]
           t == Thread(x)
           q == eventQ[d]
<1>1. /\ pc[x] = "fetch" /\ TakeNext(x, q, due)
      /\ UNCHANGED <<now, enabled, home, due, period, continuous, created, disp, host>>
  BY DEF FetchEvent, eventVars, waitVars
<1>2. d \in Dispatchers /\ TypeInv /\ WaitInv /\ q \in Seq(Events)
  BY <1>1 DEF ExecInv, SerialInv, TypeInv, TypeOK, Working, Outside
<1>3. x \notin Executor!Busy
  BY <1>1, <1>2, CallsAre DEF Executing
<1>4. CASE enabled[d] /\ q # <<>> /\ due[Head(q)] <= now
  <2>1. /\ eventQ' = [eventQ EXCEPT ![d] = Tail(q)]
        /\ Calls' = [Calls EXCEPT ![x] = [on |-> t, at |-> d, event |-> Head(q)]]
    BY <1>1, <1>2, <1>4, TakeCalls
  <2>2. t \in Actors /\ Executor!On(t) = {t} \ {x}
    BY <1>1, <1>2, AloneOrNested
  <2>3. ASSUME NEW y \in Executor!Busy, Calls[y].at = d
        PROVE  Calls[y].on = t
    <3>1. y \in Actors /\ Executing(y) /\ disp[y] = d /\ y # x /\ Calls[y].on = Thread(y)
      BY <1>2, <1>3, <2>3, CallsAre DEF Executor!Busy
    <3>2. pc' = [pc EXCEPT ![x] = "got"]
      BY <1>1, <1>4, Zenon DEF TakeNext
    <3>3. Executing(x)' /\ Executing(y)' /\ disp'[x] = disp'[y]
      BY <1>1, <1>2, <3>1, <3>2 DEF Executing, TypeInv, TypeOK
    <3>4. Thread(x)' = Thread(y)'
      BY <3>1, <3>3 DEF SerialInv, OneThreadPerDispatcher
    <3> QED
      BY <1>1, <3>1, <3>4 DEF Thread
  <2>4. Executor!Ready(d, eventQ[d], due)
    BY <1>4 DEF Executor!Ready
  <2>5. eventQ' = [eventQ EXCEPT ![d] = Tail(@)]
    BY <1>2, <2>1 DEF TypeInv, TypeOK
  <2> HIDE DEF t, d
  <2>6. Executor!Start(x, t, d)
    BY <1>1, <1>3, <2>1, <2>2, <2>3, <2>4, <2>5 DEF q, Executor!Start
  <2> QED
    BY <1>2, <2>2, <2>6 DEF Executor!Next, Executor!CallStep
<1>5. CASE ~(enabled[d] /\ q # <<>> /\ due[Head(q)] <= now)
  <2>1. /\ eventQ' = [eventQ EXCEPT ![d] = q]
        /\ pc' = [pc EXCEPT ![x] = "finish"] /\ ev' = [ev EXCEPT ![x] = None]
    BY <1>1, <1>5, Zenon DEF TakeNext
  <2>2. eventQ' = eventQ /\ now \in Nat
    BY <1>2, <2>1 DEF TypeInv, TypeOK
  <2>3. Calls' = Calls
    <3>1. \A y \in Actors : /\ Executing(y)' <=> Executing(y)
                            /\ Executing(y) => ev'[y] = ev[y]
      BY <1>1, <1>2, <2>1 DEF Executing, TypeInv, TypeOK
    <3> QED
      BY <1>1, <3>1, CallsSame DEF Thread
  <2> QED
    BY <1>1, <2>2, <2>3 DEF Executor!Next, Executor!Advance, Executor!Later
<1> QED
  BY <1>4, <1>5

LEMMA ExecReturn ==
    ASSUME ExecInv, TypeInv', NEW x \in Actors, ReturnEvent(x)
    PROVE  Executor!Return(x)
<1> DEFINE d  == disp[x]
           e  == ev[x]
           q  == IF continuous[e] THEN Insert(eventQ[d], e, due') ELSE eventQ[d]
<1>1. /\ pc[x] = "call"
      /\ ~\E y \in Waits \ {x} : Active(y) /\ host[y] = x
      /\ due' = IF continuous[e]
                THEN [due EXCEPT ![e] = now + (IF period[e] > 0 THEN period[e] ELSE 1)] ELSE due
      /\ home' = IF continuous[e] THEN [home EXCEPT ![e] = d] ELSE home
      /\ TakeNext(x, q, due')
      /\ UNCHANGED <<now, enabled, period, continuous, created, disp, host>>
  BY DEF ReturnEvent, waitVars
<1>2. /\ d \in Dispatchers /\ e \in Events /\ TypeInv /\ eventQ[d] \in Seq(Events)
      /\ due \in [Events -> Nat] /\ due' \in [Events -> Nat]
  BY <1>1 DEF ExecInv, SerialInv, TypeInv, TypeOK, Working, Outside
<1>3. x \in Executor!Busy /\ Calls[x].at = d /\ Calls[x].event = e /\ Calls[x].on = Thread(x)
  BY <1>1, <1>2, CallsAre DEF Executing
<1>4. Executor!On(x) \subseteq {x}
  <2> SUFFICES ASSUME NEW y \in Actors, Executing(y), Thread(y) = x, y # x
               PROVE  FALSE
    BY <1>2, CallsAre DEF Executor!On, Executor!Busy
  <2>1. y \in Waits /\ host[y] = x /\ Active(y)
    BY DEF Thread, Active, Executing
  <2> QED
    BY <1>1, <2>1
<1>5. IF continuous[e]
      THEN /\ due' = [due EXCEPT ![e] = now + (IF period[e] > 0 THEN period[e] ELSE 1)]
           /\ home' = [home EXCEPT ![e] = d]
      ELSE UNCHANGED <<due, home>>
  BY <1>1
<1>6. Sorted(eventQ[d], due) /\ e \notin ToSet(eventQ[d])
  BY <1>1, <1>2 DEF ExecInv, QueueInv, PlacedOnce, Executing
<1>7. q \in IF continuous[e] THEN Executor!Enqueued(eventQ[d], e, due') ELSE {eventQ[d]}
  <2> HIDE DEF d, e
  <2>1. ASSUME continuous[e]
        PROVE  Insert(eventQ[d], e, due') \in Executor!Enqueued(eventQ[d], e, due')
    <3>1. \A f \in Events \ {e} : due'[f] = due[f]
      BY <1>2, <1>5, <2>1
    <3>2. Sorted(eventQ[d], due')
      BY <1>2, <1>6, <3>1, SortedElsewhere
    <3> QED
      BY <1>2, <3>2, InsertEnqueues
  <2> QED
    BY <2>1
<1> HIDE DEF q
<1>9. IF enabled[d] /\ q # <<>> /\ due'[Head(q)] <= now
      THEN /\ eventQ' = [eventQ EXCEPT ![d] = Tail(q)]
           /\ Calls' = [Calls EXCEPT ![x] = [on |-> Thread(x), at |-> d, event |-> Head(q)]]
      ELSE /\ eventQ' = [eventQ EXCEPT ![d] = q]
           /\ Calls' = [Calls EXCEPT ![x] = [on |-> None, at |-> None, event |-> None]]
  BY <1>1, <1>2, TakeCalls
<1>10. [Calls EXCEPT ![x] = [on |-> Thread(x), at |-> d, event |-> Head(q)]]
         = [Calls EXCEPT ![x].event = Head(q)]
  BY <1>1 DEF Calls, Executing
<1>11. IF Executor!Ready(d, q, due')
       THEN /\ Calls' = [Calls EXCEPT ![x].event = Head(q)]
            /\ eventQ' = [eventQ EXCEPT ![d] = Tail(q)]
       ELSE /\ Calls' = [Calls EXCEPT ![x] = Executor!Idle]
            /\ eventQ' = [eventQ EXCEPT ![d] = q]
  BY <1>9, <1>10 DEF Executor!Ready, Executor!Idle
<1> HIDE DEF d, e
<1> QED
  BY <1>1, <1>3, <1>4, <1>5, <1>7, <1>11, Zenon DEF Executor!Return

LEMMA ExecInit == Init => ExecInv /\ Executor!Init
<1> SUFFICES ASSUME Init
             PROVE  ExecInv /\ Executor!Init
  OBVIOUS
<1>1. SerialInv /\ QueueInv
  BY SerialInit, QueueInit
<1>2. CurrentAtWork /\ now <= clock
  BY DEF Init, CurrentAtWork
<1>3. \A x \in Actors : ~Executing(x)
  BY DEF Init, Executing
<1>4. Calls = [x \in Actors |-> Executor!Idle]
  BY <1>3 DEF Calls, Executor!Idle
<1> QED
  BY <1>1, <1>2, <1>4 DEF Init, ExecInv, Executor!Init

LEMMA ExecStep == ExecInv /\ [Next]_vars => ExecInv' /\ [Executor!Next]_Executor!vars
<1> SUFFICES ASSUME ExecInv, [Next]_vars
             PROVE  ExecInv' /\ Executor!Next
  OBVIOUS
<1>1. SerialInv' /\ QueueInv' /\ CurrentAtWork' /\ TypeInv'
  BY SerialStep, QueueStep, CurrentStep DEF ExecInv, SerialInv
<1>2. now' <= clock' /\ now <= now' /\ now' \in Nat
  BY <1>1, TimeStep
<1>3. ASSUME NEW e \in Events, EventStep(e)
      PROVE  Executor!Next
  <2>1. ASSUME NEW d \in Dispatchers, NEW p \in Periods, NEW c \in BOOLEAN, CreateEvent(e, d, p, c)
        PROVE  Executor!EventStep(e)
    BY <1>1, <1>2, <2>1, ExecCreate DEF Executor!EventStep
  <2>2. ASSUME NEW own \in BOOLEAN, RemoveEvent(e, own)
        PROVE  Executor!EventStep(e)
    BY <2>2, ExecRemove DEF Executor!EventStep
  <2>3. ASSUME NEW c \in BOOLEAN, EnableContinuousEvent(e, c)
        PROVE  Executor!EventStep(e)
    BY <2>3, ExecEnable DEF Executor!EventStep
  <2> QED
    BY <1>3, <2>1, <2>2, <2>3 DEF EventStep, Executor!Next
<1>4. ASSUME NEW x \in Actors, FetchEvent(x) \/ ReturnEvent(x) \/ DisableDispatcher(x)
      PROVE  Executor!Next
  BY <1>1, <1>4, ExecFetch, ExecReturn, ExecDisable DEF Executor!Next, Executor!CallStep
<1>5. ASSUME RestStep
      PROVE  Executor!Next
  BY <1>2, <1>5, ExecRest DEF Executor!Next
<1> QED
  BY <1>1, <1>2, <1>3, <1>4, <1>5 DEF ExecInv, Next, DispatchStep, RestStep

\* The event service implements a serial executor for each dispatcher: whatever
\* the threads do, an event is called when it is due, in the order in which it
\* is due, and by one thread at a time for each dispatcher.
THEOREM ServiceIsExecutor == Spec => ImplementsExecutor
<1> QED
  BY ExecInit, ExecStep, PTL DEF Spec, ImplementsExecutor, Executor!Spec
=============================================================================
