----------------------------- MODULE CgiProofs -----------------------------
(* What holds of Cgi for any number of requests, any size of pipes, queues    *)
(* and sockets, and all programs that answer as they should.                  *)
EXTENDS Cgi, SequenceTheorems, WellFoundedInduction, TLAPS

-----------------------------------------------------------------------------
(* The selection of items from a sequence.                                    *)

LEMMA Induct ==
    ASSUME NEW S \in SUBSET Nat, 0 \in S, \A n \in S : n + 1 \in S
    PROVE  S = Nat
<1> SUFFICES ASSUME Nat \ S # {} PROVE FALSE
  OBVIOUS
<1> DEFINE Less == {p \in Nat \X Nat : p[1] < p[2]}
<1>1. IsWellFoundedOn(Less, Nat)
  BY NatLessThanWellFounded DEF OpToRel
<1>2. \A x, y \in Nat : y < x => <<y, x>> \in Less
  OBVIOUS
<1> HIDE DEF Less
<1>3. PICK x \in Nat \ S : \A y \in Nat \ S : <<y, x>> \notin Less
  BY <1>1, WFMin, Zenon
<1>4. x # 0
  BY <1>3
<1>5. x - 1 \in Nat /\ x - 1 < x
  BY <1>3, <1>4
<1>6. x - 1 \in S
  BY <1>2, <1>3, <1>5
<1> QED
  BY <1>3, <1>5, <1>6

Texts == Seq(Items)

\* What Only selects from the first n items.
Upto(s, T) ==
    CHOOSE f : f = [n \in 0..Len(s) |->
        IF n = 0 THEN <<>>
        ELSE IF s[n] \in T THEN Append(f[n - 1], s[n]) ELSE f[n - 1]]

LEMMA OnlyIsUpto == \A s, T : Only(s, T) = Upto(s, T)[Len(s)]
BY DEF Only, Upto

LEMMA UptoExists ==
    ASSUME NEW s \in Texts, NEW T
    PROVE  /\ Upto(s, T)[0] = <<>>
           /\ \A n \in 1..Len(s) :
                Upto(s, T)[n] = IF s[n] \in T THEN Append(Upto(s, T)[n - 1], s[n]) ELSE Upto(s, T)[n - 1]
<1> DEFINE Next1(f, n) ==
               IF n = 0 THEN <<>>
               ELSE IF s[n] \in T THEN Append(f[n - 1], s[n]) ELSE f[n - 1]
           Good(f, k) == f = [n \in 0..k |-> Next1(f, n)]
           S == {k \in Nat : \E f : Good(f, k)}
<1>1. 0 \in S
  <2> DEFINE f == [n \in 0..0 |-> <<>>]
  <2>1. Good(f, 0)
    OBVIOUS
  <2> QED
    BY <2>1
<1>2. ASSUME NEW k \in S PROVE k + 1 \in S
  <2>1. PICK f : Good(f, k)
    BY <1>2
  <2> DEFINE x == Next1(f, k + 1)
             g == [n \in 0..(k + 1) |-> IF n = k + 1 THEN x ELSE f[n]]
  <2>2. k \in Nat
    BY <1>2
  <2> HIDE DEF x
  <2>3. \A n \in 0..k : g[n] = f[n]
    BY <2>2
  <2>4. \A n \in 0..k : Next1(g, n) = Next1(f, n)
    BY <2>2, <2>3
  <2>5. \A n \in 0..k : f[n] = Next1(f, n)
    <3> HIDE DEF Next1
    <3> QED
      BY <2>1
  <2>6. g[k + 1] = x /\ Next1(g, k + 1) = x
    BY <2>2, <2>3 DEF x
  <2>7. \A n \in 0..(k + 1) : g[n] = Next1(g, n)
    <3> HIDE DEF Next1, g
    <3> SUFFICES ASSUME NEW n \in 0..(k + 1) PROVE g[n] = Next1(g, n)
      OBVIOUS
    <3>1. CASE n = k + 1
      BY <2>6, <3>1
    <3>2. CASE n # k + 1
      <4>1. n \in 0..k
        BY <2>2, <3>2
      <4> QED
        BY <4>1, <2>3, <2>4, <2>5
    <3> QED
      BY <3>1, <3>2
  <2>8. g = [n \in 0..(k + 1) |-> g[n]]
    OBVIOUS
  <2>9. Good(g, k + 1)
    <3> HIDE DEF Next1, g
    <3> QED
      BY <2>7, <2>8
  <2> HIDE DEF Good
  <2> QED
    BY <2>2, <2>9
<1>3. Len(s) \in S
  <2> HIDE DEF S
  <2>1. S = Nat
    <3>1. S \in SUBSET Nat
      BY DEF S
    <3> QED
      BY <1>1, <1>2, <3>1, Induct
  <2> QED
    BY <2>1 DEF Texts
<1>4. Good(Upto(s, T), Len(s))
  <2>1. \E f : Good(f, Len(s))
    BY <1>3
  <2> QED
    BY <2>1, Zenon DEF Upto
<1> DEFINE u == Upto(s, T)
<1>5. \A n \in 0..Len(s) : u[n] = Next1(u, n)
  <2> HIDE DEF Next1, u
  <2> QED
    BY <1>4 DEF u
<1>6. Len(s) \in Nat
  BY DEF Texts
<1> HIDE DEF u
<1> QED
  <2>1. u[0] = <<>>
    BY <1>5, <1>6
  <2>2. \A n \in 1..Len(s) : u[n] = IF s[n] \in T THEN Append(u[n - 1], s[n]) ELSE u[n - 1]
    BY <1>5, <1>6
  <2> QED
    BY <2>1, <2>2 DEF u

LEMMA AppendText ==
    ASSUME NEW s \in Texts, NEW x \in Items
    PROVE  /\ Len(s) \in Nat /\ Append(s, x) \in Texts /\ <<x>> \in Texts
           /\ Append(s, x) = s \o <<x>>
           /\ Len(Append(s, x)) = Len(s) + 1 /\ Append(s, x)[Len(s) + 1] = x
           /\ \A i \in 1..Len(s) : Append(s, x)[i] = s[i]
<1>1. s \in Seq(Items)
  BY DEF Texts
<1>2. Append(s, x) \in Texts
  BY <1>1, AppendProperties, Zenon DEF Texts
<1>3. Len(Append(s, x)) = Len(s) + 1 /\ Append(s, x)[Len(s) + 1] = x
  BY <1>1, AppendProperties, Zenon
<1>4. \A i \in 1..Len(s) : Append(s, x)[i] = s[i]
  BY <1>1, <1>3, AppendProperties, SMTT(30)
<1>5. Append(s, x) = s \o <<x>>
  BY <1>1, AppendIsConcat, Zenon
<1>6. <<x>> \in Texts
  <2>1. <<>> \in Texts /\ Len(<<>>) = 0
    BY EmptySeq DEF Texts
  <2>2. Append(<<>>, x) = <<x>>
    OBVIOUS
  <2>3. Append(<<>>, x) \in Seq(Items)
    BY <2>1, AppendProperties, Zenon DEF Texts
  <2> QED
    BY <2>2, <2>3, Zenon DEF Texts
<1>7. Len(s) \in Nat
  BY <1>1, LenProperties, Zenon
<1> QED
  BY <1>2, <1>3, <1>4, <1>5, <1>6, <1>7

LEMMA OnlyEmpty == ASSUME NEW T PROVE Only(<<>>, T) = <<>>
<1>1. <<>> \in Texts
  BY DEF Texts
<1> QED
  BY <1>1, UptoExists, OnlyIsUpto

LEMMA OnlyType == ASSUME NEW s \in Texts, NEW T PROVE Only(s, T) \in Texts
<1> DEFINE S == {k \in Nat : k <= Len(s) => Upto(s, T)[k] \in Texts}
<1>0. Len(s) \in Nat /\ <<>> \in Texts
  BY DEF Texts
<1>1. 0 \in S
  BY <1>0, UptoExists
<1>2. ASSUME NEW k \in S PROVE k + 1 \in S
  <2> SUFFICES ASSUME k + 1 <= Len(s) PROVE Upto(s, T)[k + 1] \in Texts
    OBVIOUS
  <2>1. k \in Nat /\ k + 1 \in 1..Len(s) /\ Upto(s, T)[k] \in Texts
    BY <1>0, <1>2
  <2>2. s[k + 1] \in Items
    BY <2>1 DEF Texts
  <2>3. Append(Upto(s, T)[k], s[k + 1]) \in Texts
    BY <2>1, <2>2, AppendProperties DEF Texts
  <2>4. Upto(s, T)[k + 1] = IF s[k + 1] \in T THEN Append(Upto(s, T)[k], s[k + 1]) ELSE Upto(s, T)[k]
    BY <2>1, UptoExists
  <2> QED
    BY <2>1, <2>3, <2>4
<1> HIDE DEF S
<1>3. S = Nat
  <2>1. S \in SUBSET Nat
    BY DEF S
  <2> QED
    BY <1>1, <1>2, <2>1, Induct
<1> QED
  BY <1>0, <1>3, OnlyIsUpto DEF S

LEMMA OnlyAppend ==
    ASSUME NEW s \in Texts, NEW x \in Items, NEW T
    PROVE  Only(Append(s, x), T) = IF x \in T THEN Append(Only(s, T), x) ELSE Only(s, T)
<1> DEFINE t == Append(s, x)
           S == {k \in Nat : k <= Len(s) => Upto(t, T)[k] = Upto(s, T)[k]}
<1>0. /\ Len(s) \in Nat /\ t \in Texts /\ Len(t) = Len(s) + 1
      /\ t[Len(t)] = x /\ \A i \in 1..Len(s) : t[i] = s[i]
  <2>1. /\ Len(s) \in Nat /\ Append(s, x) \in Texts /\ Len(Append(s, x)) = Len(s) + 1
        /\ Append(s, x)[Len(s) + 1] = x /\ \A i \in 1..Len(s) : Append(s, x)[i] = s[i]
    BY ZenonT(40), AppendText
  <2> HIDE DEF S
  <2> QED
    BY SMTT(40), <2>1
<1> HIDE DEF t
<1>1. 0 \in S
  BY <1>0, UptoExists
<1>2. ASSUME NEW k \in S PROVE k + 1 \in S
  <2> SUFFICES ASSUME k + 1 <= Len(s) PROVE Upto(t, T)[k + 1] = Upto(s, T)[k + 1]
    OBVIOUS
  <2>1. k \in Nat /\ k + 1 \in 1..Len(s) /\ k + 1 \in 1..Len(t) /\ Upto(t, T)[k] = Upto(s, T)[k]
    BY <1>0, <1>2
  <2>2. t[k + 1] = s[k + 1] /\ (k + 1) - 1 = k
    BY <1>0, <2>1
  <2>3. Upto(s, T)[k + 1] = IF s[k + 1] \in T THEN Append(Upto(s, T)[k], s[k + 1]) ELSE Upto(s, T)[k]
    BY <2>1, <2>2, UptoExists
  <2>4. Upto(t, T)[k + 1] = IF t[k + 1] \in T THEN Append(Upto(t, T)[k], t[k + 1]) ELSE Upto(t, T)[k]
    BY <1>0, <2>1, <2>2, UptoExists
  <2> QED
    BY <2>1, <2>2, <2>3, <2>4
<1> HIDE DEF S
<1>3. S = Nat
  <2>1. S \in SUBSET Nat
    BY DEF S
  <2> QED
    BY <1>1, <1>2, <2>1, Induct
<1>4. Upto(t, T)[Len(s)] = Upto(s, T)[Len(s)]
  BY <1>0, <1>3 DEF S
<1>5. Upto(t, T)[Len(t)] = IF t[Len(t)] \in T THEN Append(Upto(t, T)[Len(s)], t[Len(t)]) ELSE Upto(t, T)[Len(s)]
  <2>1. \A n \in 1..Len(t) : Upto(t, T)[n] = IF t[n] \in T THEN Append(Upto(t, T)[n - 1], t[n]) ELSE Upto(t, T)[n - 1]
    BY <1>0, UptoExists
  <2>2. Len(t) \in 1..Len(t) /\ Len(t) - 1 = Len(s)
    BY <1>0
  <2> QED
    BY <2>1, <2>2
<1> QED
  BY <1>0, <1>4, <1>5, OnlyIsUpto DEF t

LEMMA TextAssoc ==
    ASSUME NEW s \in Texts, NEW t \in Texts, NEW u \in Texts
    PROVE  (s \o t) \o u = s \o (t \o u)
BY ConcatAssociative DEF Texts

LEMMA TextJoin == ASSUME NEW s \in Texts, NEW t \in Texts PROVE s \o t \in Texts
BY ConcatProperties DEF Texts

LEMMA OnlyConcat ==
    ASSUME NEW s \in Texts, NEW t \in Texts, NEW T
    PROVE  Only(s \o t, T) = Only(s, T) \o Only(t, T)
<1> DEFINE S == {k \in Nat : \A u \in Texts : Len(u) = k => Only(s \o u, T) = Only(s, T) \o Only(u, T)}
<1>1. 0 \in S
  <2> SUFFICES ASSUME NEW u \in Texts, Len(u) = 0 PROVE Only(s \o u, T) = Only(s, T) \o Only(u, T)
    OBVIOUS
  <2>1. u = <<>>
    BY EmptySeq DEF Texts
  <2>2. Only(s, T) \in Texts
    BY OnlyType
  <2>3. s \o u = s /\ Only(s, T) \o <<>> = Only(s, T)
    BY <2>1, <2>2, ConcatEmptySeq DEF Texts
  <2> QED
    BY <2>1, <2>3, OnlyEmpty
<1>2. ASSUME NEW k \in S PROVE k + 1 \in S
  <2> SUFFICES ASSUME NEW u \in Texts, Len(u) = k + 1 PROVE Only(s \o u, T) = Only(s, T) \o Only(u, T)
    OBVIOUS
  <2>1. k \in Nat /\ \A v \in Texts : Len(v) = k => Only(s \o v, T) = Only(s, T) \o Only(v, T)
    BY <1>2
  <2>2. u # <<>>
    BY <2>1, EmptySeq
  <2>3. PICK v \in Texts, x \in Items : u = Append(v, x)
    BY <2>2, SequenceEmptyOrAppend DEF Texts
  <2>4. Len(v) = k
    BY <2>1, <2>3, AppendProperties DEF Texts
  <2>5. s \o u = Append(s \o v, x)
    <3>1. s \o v \in Texts /\ u = v \o <<x>> /\ Append(s \o v, x) = (s \o v) \o <<x>>
      BY <2>3, ConcatProperties, AppendIsConcat DEF Texts
    <3>2. <<x>> \in Texts
      BY <2>3, AppendText
    <3> QED
      BY <3>1, <3>2, ConcatAssociative DEF Texts
  <2>6. s \o v \in Texts /\ Only(s, T) \in Texts /\ Only(v, T) \in Texts
    BY OnlyType, ConcatProperties DEF Texts
  <2>7. Only(s \o v, T) = Only(s, T) \o Only(v, T)
    BY <2>1, <2>4
  <2>8. Only(s \o u, T) = IF x \in T THEN Append(Only(s \o v, T), x) ELSE Only(s \o v, T)
    <3> DEFINE w == s \o v
    <3>1. w \in Texts /\ x \in Items
      BY <2>3, <2>6
    <3> HIDE DEF w
    <3>2. Only(Append(w, x), T) = IF x \in T THEN Append(Only(w, T), x) ELSE Only(w, T)
      BY <3>1, OnlyAppend
    <3> QED
      BY <2>5, <3>2 DEF w
  <2>9. Only(u, T) = IF x \in T THEN Append(Only(v, T), x) ELSE Only(v, T)
    BY <2>3, OnlyAppend
  <2>10. Append(Only(s, T) \o Only(v, T), x) = Only(s, T) \o Append(Only(v, T), x)
    <3> DEFINE a == Only(s, T)
               b == Only(v, T)
               e == <<x>>
    <3>1. a \in Texts /\ b \in Texts /\ e \in Texts
      BY <2>3, <2>6, AppendText
    <3> HIDE DEF a, b, e
    <3>2. a \o b \in Texts /\ Append(b, x) = b \o e
      BY <2>3, <3>1, TextJoin, AppendText DEF e
    <3>3. Append(a \o b, x) = (a \o b) \o e
      BY <2>3, <3>2, AppendText DEF e
    <3>4. (a \o b) \o e = a \o (b \o e)
      BY SMTT(40), <3>1, TextAssoc
    <3>5. Append(a \o b, x) = a \o Append(b, x)
      BY <3>2, <3>3, <3>4
    <3> QED
      BY <3>5 DEF a, b
  <2> QED
    BY <2>7, <2>8, <2>9, <2>10
<1> HIDE DEF S
<1>3. S = Nat
  <2>1. S \in SUBSET Nat
    BY DEF S
  <2> QED
    BY <1>1, <1>2, <2>1, Induct
<1>4. Len(t) \in Nat
  BY DEF Texts
<1> QED
  BY <1>3, <1>4 DEF S

\* All items are selected, or none.
LEMMA OnlyAll ==
    ASSUME NEW s \in Texts, NEW T
    PROVE  /\ (\A i \in 1..Len(s) : s[i] \in T) => Only(s, T) = s
           /\ (\A i \in 1..Len(s) : s[i] \notin T) => Only(s, T) = <<>>
<1> DEFINE P(u) == /\ (\A i \in 1..Len(u) : u[i] \in T) => Only(u, T) = u
                   /\ (\A i \in 1..Len(u) : u[i] \notin T) => Only(u, T) = <<>>
           S == {k \in Nat : \A u \in Texts : Len(u) = k => P(u)}
<1>1. 0 \in S
  <2> SUFFICES ASSUME NEW u \in Texts, Len(u) = 0 PROVE P(u)
    OBVIOUS
  <2>1. u = <<>>
    BY EmptySeq DEF Texts
  <2> QED
    BY <2>1, OnlyEmpty
<1>2. ASSUME NEW k \in S PROVE k + 1 \in S
  <2> SUFFICES ASSUME NEW u \in Texts, Len(u) = k + 1 PROVE P(u)
    OBVIOUS
  <2>1. k \in Nat /\ \A v \in Texts : Len(v) = k => P(v)
    BY <1>2
  <2>2. u # <<>>
    BY <2>1, EmptySeq
  <2>3. PICK v \in Texts, x \in Items : u = Append(v, x)
    BY <2>2, SequenceEmptyOrAppend DEF Texts
  <2>4. Len(v) = k /\ \A i \in 1..k : u[i] = v[i]
    <3>1. Len(v) \in Nat /\ Len(u) = Len(v) + 1 /\ \A i \in 1..Len(v) : u[i] = v[i]
      BY <2>3, AppendText
    <3> QED
      BY <2>1, <3>1
  <2>5. u[k + 1] = x /\ k + 1 \in 1..Len(u) /\ 1..k \subseteq 1..Len(u)
    <3>1. Len(u) = Len(v) + 1 /\ u[Len(v) + 1] = x
      BY <2>3, AppendText
    <3> QED
      BY <2>1, <2>4, <3>1
  <2>6. P(v)
    BY <2>1, <2>4
  <2>7. Only(u, T) = IF x \in T THEN Append(Only(v, T), x) ELSE Only(v, T)
    BY <2>3, OnlyAppend
  <2> QED
    BY <2>3, <2>4, <2>5, <2>6, <2>7
<1> HIDE DEF S
<1>3. S = Nat
  <2>1. S \in SUBSET Nat
    BY DEF S
  <2> QED
    BY <1>1, <1>2, <2>1, Induct
<1>4. Len(s) \in Nat
  BY DEF Texts
<1> QED
  BY <1>3, <1>4 DEF S

\* Only what is to be selected is selected.
LEMMA OnlyRange == ASSUME NEW s \in Texts, NEW T PROVE \A i \in 1..Len(Only(s, T)) : Only(s, T)[i] \in T
<1> DEFINE P(u) == \A i \in 1..Len(Only(u, T)) : Only(u, T)[i] \in T
           S == {k \in Nat : \A u \in Texts : Len(u) = k => P(u)}
<1>1. 0 \in S
  <2> SUFFICES ASSUME NEW u \in Texts, Len(u) = 0 PROVE P(u)
    OBVIOUS
  <2>1. u = <<>>
    BY EmptySeq DEF Texts
  <2>2. Only(u, T) = <<>> /\ Len(<<>>) = 0
    BY <2>1, OnlyEmpty
  <2> QED
    BY <2>2
<1>2. ASSUME NEW k \in S PROVE k + 1 \in S
  <2> SUFFICES ASSUME NEW u \in Texts, Len(u) = k + 1 PROVE P(u)
    OBVIOUS
  <2>1. k \in Nat /\ \A v \in Texts : Len(v) = k => P(v)
    BY <1>2
  <2>2. u # <<>>
    BY <2>1, EmptySeq
  <2>3. PICK v \in Texts, x \in Items : u = Append(v, x)
    BY <2>2, SequenceEmptyOrAppend DEF Texts
  <2>4. Len(v) = k
    BY <2>1, <2>3, AppendText
  <2>5. P(v)
    BY <2>1, <2>4
  <2>6. Only(u, T) = IF x \in T THEN Append(Only(v, T), x) ELSE Only(v, T)
    BY <2>3, OnlyAppend
  <2>7. CASE x \in T
    <3> DEFINE o == Only(v, T)
    <3>1. o \in Texts /\ Only(u, T) = Append(o, x) /\ \A i \in 1..Len(o) : o[i] \in T
      BY <2>5, <2>6, <2>7, OnlyType
    <3> HIDE DEF o
    <3>2. /\ Len(o) \in Nat /\ Len(Append(o, x)) = Len(o) + 1 /\ Append(o, x)[Len(o) + 1] = x
          /\ \A i \in 1..Len(o) : Append(o, x)[i] = o[i]
      BY <2>3, <3>1, AppendText
    <3> SUFFICES ASSUME NEW i \in 1..(Len(o) + 1) PROVE Append(o, x)[i] \in T
      BY <3>1, <3>2
    <3>3. i \in 1..Len(o) \/ i = Len(o) + 1
      BY <3>2
    <3> QED
      BY <2>7, <3>1, <3>2, <3>3
  <2>8. CASE x \notin T
    BY <2>5, <2>6, <2>8
  <2> QED
    BY <2>7, <2>8
<1> HIDE DEF S
<1>3. S = Nat
  <2>1. S \in SUBSET Nat
    BY DEF S
  <2> QED
    BY <1>1, <1>2, <2>1, Induct
<1>4. Len(s) \in Nat
  BY DEF Texts
<1> QED
  BY <1>3, <1>4 DEF S

LEMMA OnlyOne ==
    ASSUME NEW x \in Items, NEW T
    PROVE  <<x>> \in Texts /\ Only(<<x>>, T) = IF x \in T THEN <<x>> ELSE <<>>
<1>1. <<>> \in Texts
  BY DEF Texts
<1>2. <<x>> \in Texts
  BY <1>1, AppendText
<1>3. Len(<<x>>) = 1 /\ \A i \in 1..1 : <<x>>[i] = x
  OBVIOUS
<1> QED
  BY <1>2, <1>3, OnlyAll

LEMMA TextSplit ==
    ASSUME NEW s \in Texts, NEW n \in 0..Len(s)
    PROVE  /\ SubSeq(s, 1, n) \in Texts /\ SubSeq(s, n + 1, Len(s)) \in Texts
           /\ SubSeq(s, 1, n) \o SubSeq(s, n + 1, Len(s)) = s
           /\ Len(SubSeq(s, 1, n)) = n /\ Len(SubSeq(s, n + 1, Len(s))) = Len(s) - n
           /\ \A i \in 1..n : SubSeq(s, 1, n)[i] = s[i]
           /\ \A i \in 1..(Len(s) - n) : SubSeq(s, n + 1, Len(s))[i] = s[n + i]
<1>1. Len(s) \in Nat /\ n \in Nat /\ n <= Len(s) /\ \A i \in 1..Len(s) : s[i] \in Items
  BY ElementOfSeq, LenProperties DEF Texts
<1>2. /\ SubSeq(s, 1, n) \in Texts /\ Len(SubSeq(s, 1, n)) = n
      /\ \A i \in 1..n : SubSeq(s, 1, n)[i] = s[i]
  BY <1>1, SubSeqProperties DEF Texts
<1>3. /\ SubSeq(s, n + 1, Len(s)) \in Texts /\ Len(SubSeq(s, n + 1, Len(s))) = Len(s) - n
      /\ \A i \in 1..(Len(s) - n) : SubSeq(s, n + 1, Len(s))[i] = s[n + i]
  BY <1>1, SubSeqProperties DEF Texts
<1>4. SubSeq(s, 1, n) \o SubSeq(s, n + 1, Len(s)) = s
  <2> DEFINE l == Len(s)
  <2>1. 1 \in 1..(l + 1) /\ n \in (1 - 1)..l /\ l \in n..l /\ s \in Seq(Items)
    BY <1>1 DEF Texts
  <2>2. SubSeq(s, 1, n) \o SubSeq(s, n + 1, l) = SubSeq(s, 1, l)
    BY <2>1, ConcatAdjacentSubSeq, Zenon
  <2> QED
    BY <2>1, <2>2, SubSeqFull, Zenon
<1> QED
  BY <1>2, <1>3, <1>4

LEMMA TextUnit == ASSUME NEW s \in Texts PROVE s \o <<>> = s /\ <<>> \o s = s /\ <<>> \in Texts
BY ConcatEmptySeq DEF Texts

LEMMA ToSetConcat ==
    ASSUME NEW S, NEW s \in Seq(S), NEW t \in Seq(S)
    PROVE  /\ s \o t \in Seq(S) /\ Len(s \o t) = Len(s) + Len(t)
           /\ ToSet(s \o t) = ToSet(s) \cup ToSet(t)
<1>1. /\ Len(s) \in Nat /\ DOMAIN s = 1..Len(s) /\ Len(t) \in Nat /\ DOMAIN t = 1..Len(t)
  BY LenProperties
<1>2. /\ s \o t \in Seq(S) /\ Len(s \o t) = Len(s) + Len(t)
      /\ \A i \in 1..(Len(s) + Len(t)) : (s \o t)[i] = IF i <= Len(s) THEN s[i] ELSE t[i - Len(s)]
  BY <1>1, ConcatProperties
<1>3. DOMAIN (s \o t) = 1..(Len(s) + Len(t))
  BY <1>2, LenProperties
<1>4. ASSUME NEW x, x \in ToSet(s \o t) PROVE x \in ToSet(s) \cup ToSet(t)
  <2>1. PICK i \in 1..(Len(s) + Len(t)) : x = (s \o t)[i]
    BY <1>3, <1>4 DEF ToSet
  <2>2. CASE i <= Len(s)
    <3>1. i \in DOMAIN s /\ x = s[i]
      BY <1>1, <1>2, <2>1, <2>2
    <3> QED
      BY <3>1 DEF ToSet
  <2>3. CASE ~(i <= Len(s))
    <3>1. i - Len(s) \in DOMAIN t /\ x = t[i - Len(s)]
      BY <1>1, <1>2, <2>1, <2>3
    <3> QED
      BY <3>1 DEF ToSet
  <2> QED
    BY <2>2, <2>3
<1>5. ASSUME NEW i \in DOMAIN s PROVE s[i] \in ToSet(s \o t)
  <2>1. i \in DOMAIN (s \o t) /\ (s \o t)[i] = s[i]
    BY <1>1, <1>2, <1>3
  <2> QED
    BY <2>1 DEF ToSet
<1>6. ASSUME NEW i \in DOMAIN t PROVE t[i] \in ToSet(s \o t)
  <2>1. i + Len(s) \in DOMAIN (s \o t) /\ (s \o t)[i + Len(s)] = t[i]
    BY <1>1, <1>2, <1>3
  <2> QED
    BY <2>1 DEF ToSet
<1>7. ToSet(s) \cup ToSet(t) \subseteq ToSet(s \o t)
  BY <1>5, <1>6 DEF ToSet
<1> QED
  BY <1>2, <1>4, <1>7

\* The lengths of queues.
LEMMA CountFacts ==
    /\ \A s \in Texts : Count(s) \in Nat
    /\ \A s, t \in Texts : Count(s \o t) = Count(s) + Count(t)
    /\ Count(<<>>) = 0
    /\ \A s \in Texts : NoData(s) \in Texts /\ Count(NoData(s)) = 0
<1> DEFINE T == Items \ {"HDR", "END"}
<1>1. \A s : Count(s) = Len(Only(s, T)) /\ NoData(s) = Only(s, {"HDR", "END"})
  BY DEF Count, Data, Without, NoData
<1> HIDE DEF T
<1>2. \A s \in Texts : Count(s) \in Nat
  BY <1>1, OnlyType DEF Texts
<1>3. \A s, t \in Texts : Count(s \o t) = Count(s) + Count(t)
  <2> SUFFICES ASSUME NEW s \in Texts, NEW t \in Texts PROVE Count(s \o t) = Count(s) + Count(t)
    OBVIOUS
  <2>1. Only(s \o t, T) = Only(s, T) \o Only(t, T)
    BY OnlyConcat
  <2>2. Only(s, T) \in Texts /\ Only(t, T) \in Texts
    BY OnlyType
  <2> QED
    BY <1>1, <2>1, <2>2, ToSetConcat DEF Texts
<1>4. Count(<<>>) = 0
  BY <1>1, OnlyEmpty, EmptySeq
<1>5. ASSUME NEW s \in Texts PROVE NoData(s) \in Texts /\ Count(NoData(s)) = 0
  <2> DEFINE o == Only(s, {"HDR", "END"})
  <2>1. o \in Texts /\ \A i \in 1..Len(o) : o[i] \in {"HDR", "END"}
    BY OnlyType, OnlyRange
  <2> HIDE DEF o
  <2>2. \A i \in 1..Len(o) : o[i] \notin T
    BY <2>1 DEF T
  <2>3. Only(o, T) = <<>>
    BY <2>1, <2>2, OnlyAll
  <2> QED
    BY <1>1, <2>1, <2>3, EmptySeq DEF o
<1> QED
  BY <1>2, <1>3, <1>4, <1>5

\* What clients see on an output.
Shown(ch) == IF ch = "err" THEN {"err"} ELSE Items \ {"err", "HDR", "END", "head", "part", "rest"}

LEMMA TextFacts ==
    ASSUME NEW ch
    PROVE  /\ \A s \in Texts : Text(s, ch) \in Texts
           /\ \A s, t \in Texts : Text(s \o t, ch) = Text(s, ch) \o Text(t, ch)
           /\ \A x \in Items : Text(<<x>>, ch) = IF x \in Shown(ch) THEN <<x>> ELSE <<>>
           /\ \A s \in Texts : (\A i \in 1..Len(s) : s[i] \notin Shown(ch)) => Text(s, ch) = <<>>
           /\ Text(<<>>, ch) = <<>>
<1>1. \A s : Text(s, ch) = Only(s, Shown(ch))
  BY DEF Text, Shown, Without
<1>2. \A s \in Texts : Text(s, ch) \in Texts
  BY <1>1, OnlyType
<1>3. \A s, t \in Texts : Text(s \o t, ch) = Text(s, ch) \o Text(t, ch)
  <2> SUFFICES ASSUME NEW s \in Texts, NEW t \in Texts PROVE Text(s \o t, ch) = Text(s, ch) \o Text(t, ch)
    OBVIOUS
  <2>1. Only(s \o t, Shown(ch)) = Only(s, Shown(ch)) \o Only(t, Shown(ch))
    BY OnlyConcat
  <2>2. Text(s \o t, ch) = Only(s \o t, Shown(ch))
    BY <1>1, Zenon
  <2>3. Text(s, ch) = Only(s, Shown(ch)) /\ Text(t, ch) = Only(t, Shown(ch))
    BY <1>1, Zenon
  <2> QED
    BY <2>1, <2>2, <2>3, Zenon
<1>4. \A x \in Items : Text(<<x>>, ch) = IF x \in Shown(ch) THEN <<x>> ELSE <<>>
  BY <1>1, OnlyOne
<1>5. \A s \in Texts : (\A i \in 1..Len(s) : s[i] \notin Shown(ch)) => Text(s, ch) = <<>>
  BY <1>1, OnlyAll
<1>6. Text(<<>>, ch) = <<>>
  BY <1>1, OnlyEmpty
<1> QED
  BY <1>2, <1>3, <1>4, <1>5, <1>6

-----------------------------------------------------------------------------
(* The inductive invariant.                                                   *)

States == {"content", "running", "finalized", "complete", "begin", "closed"}
Procs == {"none", "running", "exited", "reaped"}
Names == {"cgi", "write", "net"}
Tasks == {"serve", "disconnect", "pump", "run", "after", "read", "respond", "enable"}
Queues == [cgi : Texts, write : Texts, net : Texts]
Pipes == {p \in [Channels -> Texts] : \A ch \in Channels : Len(p[ch]) <= PipeMax}

ReqType ==
    [state : States, body : Nat, eof : BOOLEAN, gone : BOOLEAN, room : Nat, sent : Texts,
     watch : SUBSET {"r", "w"}, keep : BOOLEAN,
     error : BOOLEAN, fin : BOOLEAN, finOut : BOOLEAN, finConn : BOOLEAN,
     noBody : BOOLEAN, headers : BOOLEAN, blocked : BOOLEAN,
     todo : Seq(Tasks), q : Queues, sched : Seq(Names), susp : BOOLEAN,
     seen : BOOLEAN, held : Texts, location : BOOLEAN,
     pid : BOOLEAN, callback : BOOLEAN, channel : Channels \cup {"death"},
     fds : SUBSET Channels, on : SUBSET Channels,
     eofs : Nat, complete : BOOLEAN, listed : BOOLEAN,
     proc : Procs, script : Texts, wrote : Texts, closed : BOOLEAN, killed : BOOLEAN,
     pipe : Pipes]

\* The queue of the connector never holds more than twice the maximum.
Typed(c) == c \in ReqType /\ Count(c.q.net) <= 2 * QueueMax

\* Neither an error page nor a redirection.
Clean(c) == ~c.error /\ ~c.noBody

Silent == {"read", "close"}
NoWrites(c, ch) == \A i \in DOMAIN c.script : c.script[i] \in Silent \/ ChannelOf(c.script[i]) # ch
Drained(c, ch) == c.pipe[ch] = <<>> /\ NoWrites(c, ch)
OutputsClosed(c) == c.fds \cap Outputs = {}

\* The command: its outputs are closed when they are at their end, it is complete
\* when the program is reaped too, and only then the request is finalized.
ProgramFacts(c) ==
    /\ c.proc # "none"
    /\ c.pid <=> c.proc \in {"running", "exited"}
    /\ c.proc # "running" => c.script = <<>>
    /\ ~c.killed
    /\ c.closed => \A i \in DOMAIN c.script : c.script[i] \in Silent
    /\ \A i \in DOMAIN c.script : \A j \in 1..i : c.script[j] = "close" => c.script[i] \in Silent
    /\ \A ch \in Outputs \ c.fds : Drained(c, ch)
    /\ c.eofs >= 1 => ~(Outputs \subseteq c.fds)
    /\ c.eofs >= 2 => OutputsClosed(c)
    /\ c.on \subseteq c.fds
    /\ c.complete \/ c.fin => c.proc = "reaped" /\ OutputsClosed(c)

\* The end of the response is the last packet, and is there when it is finalized.
EndFacts(c) ==
    /\ c.finOut => c.fin
    /\ c.fin => c.finOut
    /\ c.state \in {"finalized", "complete", "begin", "closed"} => c.finConn
    /\ c.location => ~c.fin
    /\ LET s == c.q.net \o c.q.write
       IN  \A i \in DOMAIN s : s[i] = "END" => c.fin /\ i = Len(s)
    /\ c.finConn => c.fin /\ c.q.write = <<>> /\ c.q.net = <<"END">>

\* What was written before the header is complete.
Out(s) == Without(s, {"err"})
HasHeader(s) == \E j \in DOMAIN s : s[j] \in Headers
Ordered(s, others) ==
    \A i \in DOMAIN s : s[i] \in others \/ \E j \in 1..i : s[j] \in Headers

HeaderFacts(c) ==
    /\ \A i \in DOMAIN c.held : c.held[i] = "part"
    /\ c.location => c.seen
    /\ ~c.seen => Out(c.wrote) = c.held \o c.pipe["out"]
    /\ Ordered(Out(c.wrote), {"part"})
    /\ HasHeader(Out(c.wrote)) \/ Ordered(c.script, Silent \cup {"part", "err"})

\* Only outputs are read.
Reading(c) == "read" \in ToSet(c.todo) => c.channel \in Outputs

\* What is on its way to the client on an output, in order.
Way(c, ch) == ((c.sent \o c.q.net) \o c.q.write) \o c.pipe[ch]

OutputFacts(c) ==
    /\ \A i \in DOMAIN c.script : c.script[i] \notin {"HDR", "END"}
    /\ \A ch \in Outputs : \A i \in DOMAIN c.pipe[ch] :
          ChannelOf(c.pipe[ch][i]) = ch /\ c.pipe[ch][i] \notin {"HDR", "END"}
    /\ Reading(c)
    /\ ~c.location => \A ch \in Outputs : Text(Way(c, ch), ch) = Text(c.wrote, ch)

Facts(c) == ProgramFacts(c) /\ EndFacts(c) /\ HeaderFacts(c) /\ OutputFacts(c)

ReqInv(c) == Typed(c) /\ (Clean(c) => Facts(c))

CgiInv ==
    /\ req \in [Requests -> ReqType \cup {Idle}]
    /\ \A r \in Requests : req[r] = Idle \/ ReqInv(req[r])

-----------------------------------------------------------------------------
(* What changes nothing the invariant speaks of.                              *)

Rest(c, d) ==
    /\ d \in ReqType
    /\ d.error = c.error /\ d.noBody = c.noBody
    /\ d.fin = c.fin /\ d.finOut = c.finOut /\ d.finConn = c.finConn
    /\ d.proc = c.proc /\ d.pid = c.pid /\ d.script = c.script /\ d.killed = c.killed
    /\ d.fds = c.fds /\ d.eofs = c.eofs /\ d.complete = c.complete /\ d.closed = c.closed
    /\ d.location = c.location /\ d.seen = c.seen /\ d.held = c.held
    /\ d.pipe = c.pipe /\ d.wrote = c.wrote

Same(c, d) == Rest(c, d) /\ d.sent = c.sent /\ d.q.net = c.q.net /\ d.q.write = c.q.write

LEMMA SameChain ==
    ASSUME NEW c, NEW d, NEW e, Same(c, d), Same(d, e)
    PROVE  Same(c, e)
BY DEF Same, Rest

Open == {"content", "running"}

LEMMA Frame ==
    ASSUME NEW c, NEW d, ReqInv(c), Same(c, d), Reading(c) => Reading(d),
           d.on \subseteq c.on \cup c.fds,
           d.state \in Open \cup {c.state} \/ (d.finConn /\ Clean(c))
    PROVE  ReqInv(d)
<1>1. Typed(d)
  BY DEF ReqInv, Typed, Same, Rest
<1> SUFFICES ASSUME Clean(d) PROVE Facts(d)
  BY <1>1 DEF ReqInv
<1>2. Facts(c)
  BY DEF ReqInv, Clean, Same, Rest
<1>3. ProgramFacts(d)
  BY <1>2 DEF Facts, ProgramFacts, Same, Rest, Drained, NoWrites, OutputsClosed
<1>4. EndFacts(d)
  BY ZenonT(40), <1>2 DEF Facts, EndFacts, Same, Rest, Open
<1>5. HeaderFacts(d)
  BY <1>2 DEF Facts, HeaderFacts, Same, Rest
<1>6. OutputFacts(d)
  BY <1>2 DEF Facts, OutputFacts, Same, Rest, Way
<1> QED
  BY <1>3, <1>4, <1>5, <1>6 DEF Facts

\* The tasks of Do come first.
LEMMA DoTasks ==
    ASSUME NEW c \in ReqType, NEW t \in Seq(Tasks)
    PROVE  /\ Do(c, t) \in ReqType /\ Do(c, t) = [c EXCEPT !.todo = t \o c.todo]
           /\ t \o c.todo \in Seq(Tasks)
           /\ ToSet(t \o c.todo) = ToSet(t) \cup ToSet(c.todo)
<1>1. c.todo \in Seq(Tasks)
  BY DEF ReqType
<1> DEFINE u == t \o c.todo
<1>2. u \in Seq(Tasks) /\ ToSet(u) = ToSet(t) \cup ToSet(c.todo)
  BY <1>1, ToSetConcat
<1> HIDE DEF u
<1>3. Do(c, t) = [c EXCEPT !.todo = u]
  BY DEF Do, u
<1>4. [c EXCEPT !.todo = u] \in ReqType
  BY ZenonT(40), <1>2 DEF ReqType
<1> QED
  BY <1>2, <1>3, <1>4 DEF u

LEMMA DoSame ==
    ASSUME NEW c \in ReqType, NEW t \in Seq(Tasks), "read" \notin ToSet(t) \/ c.channel \in Outputs
    PROVE  /\ Do(c, t) \in ReqType /\ Same(c, Do(c, t)) /\ Do(c, t).state = c.state
           /\ Do(c, t).on = c.on /\ (Reading(c) => Reading(Do(c, t)))
<1> DEFINE u == t \o c.todo
<1>1. Do(c, t) \in ReqType /\ Do(c, t) = [c EXCEPT !.todo = u] /\ ToSet(u) = ToSet(t) \cup ToSet(c.todo)
  BY DoTasks
<1> HIDE DEF u
<1>2. Same(c, Do(c, t)) /\ Do(c, t).state = c.state /\ Do(c, t).on = c.on
  <2> DEFINE d == [c EXCEPT !.todo = u]
  <2>1. /\ d.error = c.error /\ d.noBody = c.noBody /\ d.fin = c.fin /\ d.finOut = c.finOut
        /\ d.finConn = c.finConn /\ d.proc = c.proc /\ d.pid = c.pid /\ d.script = c.script
        /\ d.killed = c.killed /\ d.fds = c.fds /\ d.eofs = c.eofs /\ d.complete = c.complete
        /\ d.closed = c.closed /\ d.location = c.location /\ d.seen = c.seen /\ d.held = c.held
        /\ d.pipe = c.pipe /\ d.wrote = c.wrote /\ d.sent = c.sent /\ d.q = c.q
        /\ d.state = c.state /\ d.on = c.on
    BY ZenonT(40) DEF ReqType
  <2> HIDE DEF d
  <2>2. d \in ReqType /\ Do(c, t) = d
    BY <1>1 DEF d
  <2> QED
    BY <2>1, <2>2 DEF Same, Rest
<1>3. Do(c, t).channel = c.channel /\ Do(c, t).todo = u
  BY <1>1 DEF ReqType
<1> QED
  BY <1>1, <1>2, <1>3 DEF Reading

LEMMA DoKeeps ==
    ASSUME NEW c, ReqInv(c), NEW t \in Seq(Tasks), "read" \notin ToSet(t) \/ c.channel \in Outputs
    PROVE  ReqInv(Do(c, t))
<1>1. c \in ReqType
  BY DEF ReqInv, Typed
<1> QED
  BY <1>1, DoSame, Frame

\* What leaves todo, channel, state and on alone as well.
Kept(c, d) ==
    /\ Rest(c, d)
    /\ d.todo = c.todo /\ d.channel = c.channel /\ d.state = c.state /\ d.on = c.on

Calm(c, d) == Kept(c, d) /\ Same(c, d)

LEMMA CalmKeeps == ASSUME NEW c, NEW d, ReqInv(c), Calm(c, d) PROVE ReqInv(d)
BY Frame DEF Calm, Kept, Reading

LEMMA ScheduleCalm ==
    ASSUME NEW c \in ReqType, NEW n \in Names
    PROVE  Schedule(c, n) \in ReqType /\ Calm(c, Schedule(c, n)) /\ Schedule(c, n).q = c.q
<1> DEFINE u == Append(c.sched, n)
<1>1. u \in Seq(Names)
  <2>1. c.sched \in Seq(Names)
    BY DEF ReqType
  <2> QED
    BY <2>1, AppendProperties
<1> HIDE DEF u
<1>2. Schedule(c, n) = c \/ Schedule(c, n) = [c EXCEPT !.sched = u]
  BY DEF Schedule, u
<1>3. [c EXCEPT !.sched = u] \in ReqType
  BY ZenonT(40), <1>1 DEF ReqType
<1>4. Calm(c, [c EXCEPT !.sched = u]) /\ [c EXCEPT !.sched = u].q = c.q
  BY ZenonT(40), <1>3 DEF Calm, Kept, Same, Rest, ReqType
<1>5. Calm(c, c)
  BY DEF Calm, Kept, Same, Rest
<1> QED
  BY <1>2, <1>3, <1>4, <1>5

LEMMA ResumeCalm ==
    ASSUME NEW c \in ReqType
    PROVE  Resume(c) \in ReqType /\ Calm(c, Resume(c))
<1> DEFINE d == [c EXCEPT !.susp = FALSE]
<1>1. d \in ReqType
  BY ZenonT(40) DEF ReqType
<1>2. Calm(c, d)
  BY ZenonT(40), <1>1 DEF Calm, Kept, Same, Rest, ReqType
<1>3. Resume(c) = Schedule(d, "write")
  BY DEF Resume
<1> HIDE DEF d
<1>4. Resume(c) \in ReqType /\ Calm(d, Resume(c))
  BY <1>1, <1>3, ScheduleCalm DEF Names
<1> QED
  BY <1>2, <1>4 DEF Calm, Kept, Same, Rest

LEMMA EventsKept ==
    ASSUME NEW c, ReqInv(c), NEW chs
    PROVE  ReqInv(Enable(c, chs)) /\ ReqInv(Disable(c, chs))
<1>1. c \in ReqType
  BY DEF ReqInv, Typed
<1>2. ASSUME NEW x \in SUBSET Channels, x \subseteq c.on \cup c.fds
      PROVE  ReqInv([c EXCEPT !.on = x])
  <2> DEFINE d == [c EXCEPT !.on = x]
  <2>1. d \in ReqType
    BY SMTT(40), <1>1 DEF ReqType
  <2>2. Same(c, d) /\ d.state = c.state /\ d.todo = c.todo /\ d.channel = c.channel /\ d.on = x
    BY ZenonT(40), <1>1, <2>1 DEF ReqType, Same, Rest
  <2> HIDE DEF d
  <2>3. ReqInv(d)
    BY <1>2, <2>2, Frame DEF Reading
  <2> QED
    BY <2>3 DEF d
<1>3. c.on \subseteq Channels /\ c.fds \subseteq Channels
  BY <1>1 DEF ReqType
<1>4. Enable(c, chs) = [c EXCEPT !.on = c.on \cup (chs \cap c.fds)]
  BY DEF Enable
<1>5. Disable(c, chs) = [c EXCEPT !.on = c.on \ chs]
  BY DEF Disable
<1> QED
  BY <1>2, <1>3, <1>4, <1>5

LEMMA EnableConnCalm ==
    ASSUME NEW c \in ReqType
    PROVE  EnableConn(c) \in ReqType /\ Calm(c, EnableConn(c))
<1> DEFINE w == (IF c.blocked \/ Count(c.q.net) > 0 THEN {"w"} ELSE {}) \cup (IF ~c.eof THEN {"r"} ELSE {})
           d == [c EXCEPT !.watch = w]
<1>1. w \in SUBSET {"r", "w"} /\ EnableConn(c) = d
  BY DEF EnableConn
<1> HIDE DEF w
<1>2. d \in ReqType
  BY ZenonT(40), <1>1 DEF ReqType
<1>3. Calm(c, d)
  BY ZenonT(40), <1>2 DEF Calm, Kept, Same, Rest, ReqType
<1> QED
  BY <1>1, <1>2, <1>3


LEMMA CalmChain ==
    ASSUME NEW c, NEW d, NEW e, Calm(c, d), Calm(d, e)
    PROVE  Calm(c, e)
BY DEF Calm, Kept, Same, Rest

-----------------------------------------------------------------------------
(* The queues to the client.                                                  *)

LEMMA QueuesKeep ==
    ASSUME NEW c, NEW d, ReqInv(c), Rest(c, d), Reading(c) => Reading(d),
           d.on \subseteq c.on \cup c.fds, Typed(d),
           Clean(c) => /\ EndFacts(d)
                       /\ \A ch \in Outputs : Text(Way(d, ch), ch) = Text(Way(c, ch), ch)
    PROVE  ReqInv(d)
<1> SUFFICES ASSUME Clean(d) PROVE Facts(d)
  BY DEF ReqInv
<1>1. Clean(c) /\ Facts(c)
  BY DEF ReqInv, Clean, Rest
<1>2. ProgramFacts(d)
  BY <1>1 DEF Facts, ProgramFacts, Rest, Drained, NoWrites, OutputsClosed
<1>3. HeaderFacts(d)
  BY <1>1 DEF Facts, HeaderFacts, Rest
<1>4. OutputFacts(d)
  <2>1. ~d.location => \A ch \in Outputs : Text(Way(d, ch), ch) = Text(d.wrote, ch)
    BY <1>1 DEF Facts, OutputFacts, Rest
  <2> QED
    BY <1>1, <2>1 DEF Facts, OutputFacts, Rest
<1> QED
  BY <1>1, <1>2, <1>3, <1>4 DEF Facts

LEMMA PutInput ==
    ASSUME NEW c \in ReqType, NEW items \in Texts
    PROVE  Put(c, "cgi", items) \in ReqType /\ Calm(c, Put(c, "cgi", items))
<1> DEFINE u == c.q.cgi \o items
           d == [c EXCEPT !.q.cgi = u]
<1>1. u \in Texts
  <2>1. c.q.cgi \in Texts
    BY DEF ReqType, Queues
  <2> QED
    BY <2>1, TextJoin
<1>2. Put(c, "cgi", items) = Schedule(d, "cgi")
  BY DEF Put
<1> HIDE DEF u
<1>3. d \in ReqType
  BY ZenonT(40), <1>1 DEF ReqType, Queues
<1>4. Calm(c, d)
  BY ZenonT(40), <1>3 DEF Calm, Kept, Same, Rest, ReqType, Queues
<1> HIDE DEF d
<1>5. Schedule(d, "cgi") \in ReqType /\ Calm(d, Schedule(d, "cgi"))
  BY <1>3, ScheduleCalm DEF Names
<1> QED
  BY <1>2, <1>4, <1>5, CalmChain

LEMMA PutOutput ==
    ASSUME NEW c \in ReqType, NEW items \in Texts
    PROVE  LET w == Put(c, "write", items)
               n == Put(c, "net", items)
           IN  /\ w \in ReqType /\ Kept(c, w) /\ w.sent = c.sent
               /\ w.q.write = c.q.write \o items /\ w.q.net = c.q.net
               /\ n \in ReqType /\ Kept(c, n) /\ n.sent = c.sent
               /\ n.q.write = c.q.write /\ n.q.net = c.q.net \o items
<1> DEFINE u == c.q.write \o items
           v == c.q.net \o items
           d == [c EXCEPT !.q.write = u]
           e == [c EXCEPT !.q.net = v]
<1>1. u \in Texts /\ v \in Texts
  <2>1. c.q.write \in Texts /\ c.q.net \in Texts
    BY DEF ReqType, Queues
  <2> QED
    BY <2>1, TextJoin
<1>2. Put(c, "write", items) = Schedule(d, "write") /\ Put(c, "net", items) = Schedule(e, "net")
  BY DEF Put
<1> HIDE DEF u, v
<1>3. d \in ReqType /\ e \in ReqType
  BY ZenonT(40), <1>1 DEF ReqType, Queues
<1>4. Kept(c, d) /\ d.sent = c.sent /\ d.q.write = u /\ d.q.net = c.q.net
  BY ZenonT(40), <1>3 DEF Kept, Rest, ReqType, Queues
<1>5. Kept(c, e) /\ e.sent = c.sent /\ e.q.net = v /\ e.q.write = c.q.write
  BY ZenonT(40), <1>3 DEF Kept, Rest, ReqType, Queues
<1> HIDE DEF d, e
<1>6. /\ Schedule(d, "write") \in ReqType /\ Calm(d, Schedule(d, "write"))
      /\ Schedule(e, "net") \in ReqType /\ Calm(e, Schedule(e, "net"))
  BY <1>3, ScheduleCalm DEF Names
<1> DEFINE w == Put(c, "write", items)
           n == Put(c, "net", items)
<1>7. /\ w \in ReqType /\ Kept(c, w) /\ w.sent = c.sent
      /\ w.q.write = c.q.write \o items /\ w.q.net = c.q.net
  BY <1>2, <1>4, <1>6 DEF Calm, Same, Kept, Rest, u
<1>8. /\ n \in ReqType /\ Kept(c, n) /\ n.sent = c.sent
      /\ n.q.write = c.q.write /\ n.q.net = c.q.net \o items
  BY <1>2, <1>5, <1>6 DEF Calm, Same, Kept, Rest, v
<1> QED
  BY <1>7, <1>8

\* As much as fits.
LEMMA MoveFits ==
    ASSUME NEW s \in Texts, NEW free \in Nat
    PROVE  LET fits(n) == Count(SubSeq(s, 1, n)) <= free
           IN  \E k \in 0..Len(s) : fits(k) /\ (k < Len(s) => ~fits(k + 1))
<1> DEFINE fits(n) == Count(SubSeq(s, 1, n)) <= free
           S == {k \in Nat : k <= Len(s) => fits(k)}
<1>0. Len(s) \in Nat
  BY DEF Texts
<1> SUFFICES ASSUME \A k \in 0..Len(s) : fits(k) => k < Len(s) /\ fits(k + 1) PROVE FALSE
  BY <1>0
<1>1. 0 \in S
  <2>1. SubSeq(s, 1, 0) = <<>>
    BY SubSeqEmpty
  <2>2. Count(SubSeq(s, 1, 0)) = 0
    BY <2>1, CountFacts, Zenon
  <2>3. fits(0)
    BY <2>2
  <2> HIDE DEF fits
  <2> QED
    BY <2>3
<1> HIDE DEF fits
<1>2. ASSUME NEW k \in S PROVE k + 1 \in S
  BY <1>0, <1>2
<1> HIDE DEF S
<1>3. S = Nat
  <2>1. S \in SUBSET Nat
    BY DEF S
  <2> QED
    BY <1>1, <1>2, <2>1, Induct
<1>4. fits(Len(s))
  BY <1>0, <1>3 DEF S
<1> QED
  BY <1>0, <1>4


LEMMA MoveFacts ==
    ASSUME NEW c, Typed(c)
    PROVE  \E a, b \in Texts :
              LET d == Move(c)
              IN  /\ d \in ReqType /\ Typed(d) /\ Kept(c, d) /\ d.sent = c.sent
                  /\ a \o b = c.q.write /\ d.q.write = b /\ d.q.net = c.q.net \o a
<1> DEFINE s == c.q.write
           free == 2 * QueueMax - Count(c.q.net)
           Fits(n) == Count(SubSeq(s, 1, n)) <= free
           n == CHOOSE k \in 0..Len(s) : Fits(k) /\ (k < Len(s) => ~Fits(k + 1))
           a == SubSeq(s, 1, n)
           b == SubSeq(s, n + 1, Len(s))
           p == Put(c, "net", a)
<1>1. c \in ReqType /\ s \in Texts /\ c.q.net \in Texts /\ Len(s) \in Nat
  BY DEF Typed, ReqType, Queues, Texts
<1>2. free \in Nat
  <2>1. Count(c.q.net) \in Nat /\ Count(c.q.net) <= 2 * QueueMax /\ QueueMax \in Nat
    BY <1>1, CountFacts, ConstantsAssumption DEF Typed, ConstantsAssumption
  <2> QED
    BY <2>1
<1>3. n \in 0..Len(s) /\ Fits(n)
  <2> HIDE DEF s, free
  <2>1. \E k \in 0..Len(s) : Fits(k) /\ (k < Len(s) => ~Fits(k + 1))
    BY <1>1, <1>2, MoveFits
  <2> HIDE DEF Fits
  <2> QED
    BY <2>1
<1>4. Move(c) = [p EXCEPT !.q.write = SubSeq(@, n + 1, Len(@)), !.susp = n < Len(s)]
  BY DEF Move
<1> HIDE DEF n
<1>5. a \in Texts /\ b \in Texts /\ a \o b = s
  BY <1>1, <1>3, TextSplit
<1>6. /\ p \in ReqType /\ Kept(c, p) /\ p.sent = c.sent
      /\ p.q.write = s /\ p.q.net = c.q.net \o a
  <2> HIDE DEF a
  <2> QED
    BY <1>1, <1>5, PutOutput
<1>7. Count(c.q.net \o a) <= 2 * QueueMax
  <2>1. Count(c.q.net \o a) = Count(c.q.net) + Count(a) /\ Count(c.q.net) \in Nat /\ Count(a) \in Nat
    BY <1>1, <1>5, CountFacts
  <2>2. Count(a) <= free
    BY <1>3
  <2>3. QueueMax \in Nat
    BY ConstantsAssumption DEF ConstantsAssumption
  <2> HIDE DEF a
  <2> QED
    BY <2>1, <2>2, <2>3
<1> DEFINE d == [p EXCEPT !.q.write = b, !.susp = n < Len(s)]
<1>8. Move(c) = d
  <2> HIDE DEF p, s
  <2> QED
    BY <1>4, <1>6
<1> HIDE DEF p, s, a, b
<1>9. (n < Len(s)) \in BOOLEAN
  OBVIOUS
<1>10. d \in ReqType
  BY ZenonT(40), <1>5, <1>6, <1>9 DEF ReqType, Queues
<1>11. Kept(p, d) /\ d.sent = p.sent /\ d.q.write = b /\ d.q.net = p.q.net
  BY ZenonT(40), <1>5, <1>6, <1>10 DEF Kept, Rest, ReqType, Queues
<1> HIDE DEF d
<1>12. Kept(c, d) /\ Typed(d)
  BY <1>6, <1>7, <1>10, <1>11 DEF Kept, Rest, Typed
<1> QED
  BY <1>5, <1>6, <1>8, <1>10, <1>11, <1>12 DEF s

\* Moving packets on changes nothing of what is under way.
LEMMA MoveKeeps == ASSUME NEW c, ReqInv(c) PROVE ReqInv(Move(c))
<1>1. Typed(c) /\ c \in ReqType
  BY DEF ReqInv, Typed
<1> DEFINE d == Move(c)
<1>2. PICK a \in Texts, b \in Texts :
        /\ d \in ReqType /\ Typed(d) /\ Kept(c, d) /\ d.sent = c.sent
        /\ a \o b = c.q.write /\ d.q.write = b /\ d.q.net = c.q.net \o a
  BY <1>1, MoveFacts
<1> HIDE DEF d
<1>3. c.q.net \in Texts /\ c.sent \in Texts
  BY <1>1 DEF ReqType, Queues
<1>4. d.q.net \o d.q.write = c.q.net \o c.q.write
  <2>1. (c.q.net \o a) \o b = c.q.net \o (a \o b)
    BY ZenonT(40), <1>3, TextAssoc
  <2> QED
    BY <1>2, <2>1
<1>5. \A ch \in Outputs : Way(d, ch) = Way(c, ch)
  <2>1. (d.sent \o d.q.net) \o d.q.write = (c.sent \o c.q.net) \o c.q.write
    <3> DEFINE n == d.q.net
               w == d.q.write
               m == c.q.net
               v == c.q.write
               s == c.sent
    <3>1. n \in Texts /\ w \in Texts /\ m \in Texts /\ v \in Texts /\ s \in Texts /\ n \o w = m \o v /\ d.sent = s
      BY <1>1, <1>2, <1>4 DEF ReqType, Queues
    <3> HIDE DEF n, w, m, v, s
    <3>2. (s \o n) \o w = s \o (n \o w)
      BY ZenonT(40), <3>1, TextAssoc
    <3>3. (s \o m) \o v = s \o (m \o v)
      BY ZenonT(40), <3>1, TextAssoc
    <3>4. (s \o n) \o w = (s \o m) \o v
      BY <3>1, <3>2, <3>3
    <3> QED
      BY <3>1, <3>4 DEF n, w, m, v, s
  <2>2. d.pipe = c.pipe
    BY <1>2 DEF Kept, Rest
  <2> QED
    BY <2>1, <2>2 DEF Way
<1>6. ASSUME Clean(c) PROVE EndFacts(d)
  <2>1. EndFacts(c)
    BY <1>6 DEF ReqInv, Facts
  <2>2. c.finConn => d.q.write = <<>> /\ d.q.net = <<"END">>
    <3> SUFFICES ASSUME c.finConn PROVE d.q.write = <<>> /\ d.q.net = <<"END">>
      OBVIOUS
    <3>1. c.q.write = <<>> /\ c.q.net = <<"END">>
      BY <2>1 DEF EndFacts
    <3>2. a = <<>> /\ b = <<>>
      BY <1>2, <3>1, ConcatEqualIffEmpty DEF Texts
    <3> QED
      BY <1>2, <1>3, <3>1, <3>2, TextUnit
  <2> QED
    BY <1>2, <1>4, <2>1, <2>2 DEF EndFacts, Kept, Rest
<1>7. Rest(c, d) /\ d.on = c.on /\ (Reading(c) => Reading(d))
  BY <1>2 DEF Kept, Reading
<1>8. ReqInv(d)
  BY <1>2, <1>5, <1>6, <1>7, QueuesKeep
<1> QED
  BY <1>8 DEF d


LEMMA SuspCalm ==
    ASSUME NEW c \in ReqType, NEW b \in BOOLEAN
    PROVE  LET d == [c EXCEPT !.susp = b]
           IN  d \in ReqType /\ Calm(c, d)
<1>1. [c EXCEPT !.susp = b] \in ReqType
  BY DEF ReqType
<1> QED
  BY ZenonT(40), <1>1 DEF Calm, Kept, Same, Rest, ReqType

LEMMA ToBrowserKeeps == ASSUME NEW c, ReqInv(c) PROVE ReqInv(cgiToBrowserService(c))
<1> DEFINE d == Move(c)
<1>1. ReqInv(d)
  BY MoveKeeps
<1>2. \/ cgiToBrowserService(c) = Enable(d, Outputs)
      \/ cgiToBrowserService(c) = [d EXCEPT !.susp = TRUE]
      \/ cgiToBrowserService(c) = d
  <2> HIDE DEF d
  <2> QED
    BY DEF cgiToBrowserService, d
<1> HIDE DEF d
<1>3. d \in ReqType
  BY <1>1 DEF ReqInv, Typed
<1>4. ReqInv(Enable(d, Outputs))
  BY <1>1, EventsKept
<1>5. ReqInv([d EXCEPT !.susp = TRUE])
  BY <1>1, <1>3, SuspCalm, CalmKeeps
<1> QED
  BY <1>1, <1>2, <1>4, <1>5

-----------------------------------------------------------------------------
(* Commands. *)

\* An output is closed at its end only.
LEMMA CloseKeeps ==
    ASSUME NEW c, ReqInv(c), NEW ch \in Channels,
           Clean(c) /\ ch \in c.fds \cap Outputs => Drained(c, ch)
    PROVE  ReqInv(CloseFd(c, ch))
<1> SUFFICES ASSUME ch \in c.fds PROVE ReqInv(CloseFd(c, ch))
  BY DEF CloseFd
<1> DEFINE n == c.eofs + (IF ch = "in" THEN 0 ELSE 1)
           m == c.complete \/ (ch # "in" /\ n >= 2 /\ ~c.pid)
           d == [c EXCEPT !.fds = c.fds \ {ch}, !.on = c.on \ {ch}, !.eofs = n, !.complete = m]
<1>1. c \in ReqType /\ Typed(c) /\ c.eofs \in Nat /\ c.fds \subseteq Channels /\ c.on \subseteq Channels
  BY DEF ReqInv, Typed, ReqType
<1>2. CloseFd(c, ch) = d
  BY DEF CloseFd
<1>3. n \in Nat /\ (ch = "in" => n = c.eofs) /\ (ch # "in" => n = c.eofs + 1)
  BY <1>1
<1>4. m \in BOOLEAN /\ (m => c.complete \/ (ch # "in" /\ n >= 2 /\ ~c.pid))
  OBVIOUS
<1> HIDE DEF n, m
<1>5. d \in ReqType
  BY ZenonT(40), <1>1, <1>3, <1>4 DEF ReqType
<1>6. /\ d.fds = c.fds \ {ch} /\ d.on = c.on \ {ch} /\ d.eofs = n /\ d.complete = m
      /\ d.error = c.error /\ d.noBody = c.noBody
      /\ d.fin = c.fin /\ d.finOut = c.finOut /\ d.finConn = c.finConn
      /\ d.proc = c.proc /\ d.pid = c.pid /\ d.script = c.script /\ d.killed = c.killed
      /\ d.closed = c.closed
      /\ d.location = c.location /\ d.seen = c.seen /\ d.held = c.held
      /\ d.pipe = c.pipe /\ d.wrote = c.wrote
      /\ d.sent = c.sent /\ d.q = c.q /\ d.todo = c.todo /\ d.channel = c.channel /\ d.state = c.state
  BY <1>1 DEF ReqType
<1> HIDE DEF d
<1>7. Typed(d)
  BY <1>1, <1>5, <1>6 DEF Typed
<1> SUFFICES ASSUME Clean(d) PROVE Facts(d)
  BY <1>2, <1>7 DEF ReqInv
<1>8. Clean(c) /\ Facts(c)
  BY <1>6 DEF ReqInv, Clean
<1>9. EndFacts(d) /\ HeaderFacts(d) /\ OutputFacts(d)
  <2>1. EndFacts(d)
    BY ZenonT(40), <1>6, <1>8 DEF Facts, EndFacts
  <2>2. HeaderFacts(d)
    BY <1>6, <1>8 DEF Facts, HeaderFacts
  <2>3. OutputFacts(d)
    BY <1>6, <1>8 DEF Facts, OutputFacts, Reading, Way
  <2> QED
    BY <2>1, <2>2, <2>3
<1>10. ProgramFacts(d)
  <2>1. ProgramFacts(c)
    BY <1>8 DEF Facts
  <2>2. \A o \in Outputs \ d.fds : Drained(d, o)
    BY <1>6, <1>8, <2>1 DEF ProgramFacts, Drained, NoWrites
  <2>3. d.eofs >= 1 => ~(Outputs \subseteq d.fds)
    BY <1>1, <1>3, <1>6, <2>1 DEF ProgramFacts, Channels
  <2>4. d.eofs >= 2 => OutputsClosed(d)
    <3>1. CASE ch = "in"
      BY <1>3, <1>6, <2>1, <3>1 DEF ProgramFacts, OutputsClosed, Outputs
    <3>2. CASE ch # "in"
      <4>1. d.eofs >= 2 => c.eofs >= 1
        BY <1>1, <1>3, <1>6, <3>2
      <4>2. ch \in Outputs
        BY <3>2 DEF Channels
      <4>3. c.eofs >= 1 => ~(Outputs \subseteq c.fds)
        BY <2>1 DEF ProgramFacts
      <4> QED
        BY <1>6, <4>1, <4>2, <4>3 DEF OutputsClosed, Outputs
    <3> QED
      BY <3>1, <3>2
  <2>5. d.complete \/ d.fin => d.proc = "reaped" /\ OutputsClosed(d)
    <3>1. c.complete \/ c.fin => c.proc = "reaped" /\ OutputsClosed(d)
      BY <1>6, <2>1 DEF ProgramFacts, OutputsClosed
    <3>2. CASE ch # "in" /\ n >= 2 /\ ~c.pid
      <4>1. c.proc = "reaped"
        BY <1>1, <2>1, <3>2 DEF ProgramFacts, ReqType, Procs
      <4> QED
        BY <1>6, <2>4, <3>2, <4>1
    <3> QED
      BY <1>4, <1>6, <3>1, <3>2
  <2> QED
    BY <1>6, <2>1, <2>2, <2>3, <2>4, <2>5 DEF ProgramFacts, NoWrites
<1> QED
  BY <1>9, <1>10 DEF Facts

-----------------------------------------------------------------------------
(* How a request ends. *)

LEMMA NotClean == ASSUME NEW c, Typed(c), c.error \/ c.noBody PROVE ReqInv(c)
BY DEF ReqInv, Clean

LEMMA DiscardTyped ==
    ASSUME NEW c, Typed(c)
    PROVE  Typed(Discard(c)) /\ Discard(c).error = c.error /\ Discard(c).noBody = c.noBody
<1> DEFINE u == NoData(c.q.write)
           v == NoData(c.q.net)
           d == [c EXCEPT !.q = [c.q EXCEPT !.write = u, !.net = v]]
<1>1. c \in ReqType /\ c.q.write \in Texts /\ c.q.net \in Texts
  BY DEF Typed, ReqType, Queues
<1>2. u \in Texts /\ v \in Texts /\ Count(v) = 0
  BY <1>1, CountFacts
<1>3. QueueMax \in Nat
  BY ConstantsAssumption DEF ConstantsAssumption
<1>4. Discard(c) = d
  <2> HIDE DEF u, v
  <2>1. Discard(c) = [c EXCEPT !.q.write = u, !.q.net = NoData(@)]
    BY DEF Discard, u
  <2>2. [c EXCEPT !.q.write = u, !.q.net = NoData(@)] = [c EXCEPT !.q.write = u, !.q.net = v]
    BY <1>1 DEF ReqType, Queues, v
  <2> QED
    BY ZenonT(40), <1>1, <2>1, <2>2 DEF ReqType, Queues
<1> HIDE DEF u, v
<1>5. d \in ReqType
  BY ZenonT(40), <1>1, <1>2 DEF ReqType, Queues
<1>6. d.q.net = v /\ d.error = c.error /\ d.noBody = c.noBody
  BY <1>1 DEF ReqType, Queues
<1> HIDE DEF d
<1> QED
  BY <1>2, <1>3, <1>4, <1>5, <1>6 DEF Typed

\* The request is finalized with the last packet.
LEMMA FinalizeForm ==
    ASSUME NEW c, Typed(c)
    PROVE  /\ Typed(Finalize(c))
           /\ Finalize(c).error = c.error /\ Finalize(c).noBody = c.noBody
           /\ Reading(c) => Reading(Finalize(c))
           /\ c.fin => Finalize(c) = c
           /\ ~c.fin /\ ~c.finOut =>
                LET d == [c EXCEPT !.fin = TRUE, !.finOut = TRUE]
                    e == Finalize(c)
                IN  /\ Rest(d, e) /\ e.on = c.on /\ e.state = c.state
                    /\ e.sent = c.sent /\ e.q.net = c.q.net /\ e.q.write = c.q.write \o <<"END">>
<1>1. c \in ReqType /\ <<"serve">> \in Seq(Tasks) /\ ToSet(<<"serve">>) = {"serve"}
  <2>1. <<"serve">> \in Seq(Tasks)
    BY DEF Tasks
  <2>2. ToSet(<<"serve">>) = {"serve"}
    BY DEF ToSet
  <2> QED
    BY <2>1, <2>2 DEF Typed
<1>2. CASE c.fin
  BY <1>2 DEF Finalize
<1>3. CASE ~c.fin /\ c.finOut
  <2> DEFINE d == [c EXCEPT !.fin = TRUE]
  <2>1. Finalize(c) = Do(d, <<"serve">>)
    BY <1>3 DEF Finalize
  <2>2. d \in ReqType /\ d.q = c.q /\ d.error = c.error /\ d.noBody = c.noBody
        /\ d.todo = c.todo /\ d.channel = c.channel
    BY ZenonT(40), <1>1 DEF ReqType
  <2> HIDE DEF d
  <2>3. Finalize(c) \in ReqType /\ Same(d, Finalize(c)) /\ (Reading(d) => Reading(Finalize(c)))
    BY <1>1, <2>1, <2>2, DoSame
  <2> QED
    BY <1>3, <2>2, <2>3 DEF Same, Rest, Typed, Reading
<1>4. CASE ~c.fin /\ ~c.finOut
  <2> DEFINE d == [c EXCEPT !.fin = TRUE, !.finOut = TRUE]
             p == Put(d, "write", <<"END">>)
             e == Finalize(c)
  <2>1. e = Do(p, <<"serve">>)
    BY <1>4 DEF Finalize
  <2>2. d \in ReqType /\ d.q = c.q /\ d.error = c.error /\ d.noBody = c.noBody
        /\ d.todo = c.todo /\ d.channel = c.channel /\ d.on = c.on /\ d.state = c.state /\ d.sent = c.sent
    BY ZenonT(40), <1>1 DEF ReqType
  <2>3. "END" \in Items
    BY DEF Items
  <2>4. <<"END">> \in Texts
    BY <2>3, OnlyOne
  <2> HIDE DEF d
  <2>5. /\ p \in ReqType /\ Kept(d, p) /\ p.sent = d.sent
        /\ p.q.write = d.q.write \o <<"END">> /\ p.q.net = d.q.net
    BY <2>2, <2>4, PutOutput
  <2> HIDE DEF p
  <2>6. e \in ReqType /\ Same(p, e) /\ e.state = p.state /\ e.on = p.on /\ (Reading(p) => Reading(e))
    BY ZenonT(40), <1>1, <2>1, <2>5, DoSame
  <2> HIDE DEF e
  <2>7. /\ Rest(d, e) /\ e.on = c.on /\ e.state = c.state
        /\ e.sent = c.sent /\ e.q.net = c.q.net /\ e.q.write = c.q.write \o <<"END">>
    BY <2>2, <2>5, <2>6 DEF Same, Rest, Kept
  <2>8. Typed(e) /\ e.error = c.error /\ e.noBody = c.noBody /\ (Reading(c) => Reading(e))
    BY <2>2, <2>5, <2>6, <2>7 DEF Same, Rest, Kept, Typed, Reading
  <2> QED
    BY <1>4, <2>7, <2>8 DEF d, e
<1> QED
  BY <1>2, <1>3, <1>4

LEMMA DisconnectTyped == ASSUME NEW c, Typed(c) PROVE Typed(Disconnect(c)) /\ Disconnect(c).error = TRUE
<1>1. c \in ReqType
  BY DEF Typed
<1>2. Disconnect(c) \in ReqType
  <2> DEFINE d == [c EXCEPT !.gone = TRUE, !.error = TRUE, !.keep = FALSE]
             e == [d EXCEPT !.eof = TRUE, !.fin = TRUE]
  <2>1. d \in ReqType
    BY ZenonT(60), <1>1 DEF ReqType
  <2>2. Disconnect(c) = [e EXCEPT !.finOut = TRUE, !.finConn = TRUE]
    BY DEF Disconnect
  <2> HIDE DEF d
  <2>3. e \in ReqType
    BY ZenonT(60), <2>1 DEF ReqType
  <2> HIDE DEF e
  <2>4. [e EXCEPT !.finOut = TRUE, !.finConn = TRUE] \in ReqType
    BY ZenonT(60), <2>3 DEF ReqType
  <2> QED
    BY <2>2, <2>4
<1>3. Disconnect(c).q = c.q /\ Disconnect(c).error = TRUE
  BY <1>1 DEF Disconnect, ReqType
<1> QED
  BY <1>2, <1>3 DEF Typed

LEMMA ErrorTyped ==
    ASSUME NEW c, Typed(c), NEW abort \in BOOLEAN
    PROVE  Typed(Error(c, abort)) /\ Error(c, abort).error = TRUE
<1> DEFINE first == [c EXCEPT !.error = TRUE, !.noBody = TRUE]
<1>1. c \in ReqType /\ <<"disconnect">> \in Seq(Tasks) /\ "read" \notin ToSet(<<"disconnect">>)
  BY DEF Typed, Tasks, ToSet
<1>2. first \in ReqType /\ first.q = c.q /\ first.error = TRUE
  BY ZenonT(40), <1>1 DEF ReqType
<1> DEFINE d == IF abort \/ (~c.error /\ c.headers) THEN Do(first, <<"disconnect">>) ELSE first
<1>3. Typed(d) /\ d.error = TRUE
  <2> HIDE DEF first
  <2>1. Typed(first)
    BY <1>2 DEF Typed
  <2>2. Do(first, <<"disconnect">>) \in ReqType /\ Same(first, Do(first, <<"disconnect">>))
    BY <1>1, <1>2, DoSame
  <2>3. Typed(Do(first, <<"disconnect">>)) /\ Do(first, <<"disconnect">>).error = TRUE
    BY <1>2, <2>1, <2>2 DEF Same, Rest, Typed
  <2> QED
    BY <1>2, <2>1, <2>3
<1>4. Error(c, abort) = IF c.error THEN d ELSE Finalize(IF c.headers THEN d ELSE Discard(d))
  BY DEF Error
<1> HIDE DEF d
<1>5. Typed(Discard(d)) /\ Discard(d).error = TRUE
  BY <1>3, DiscardTyped
<1>6. Typed(Finalize(d)) /\ Finalize(d).error = TRUE
  BY <1>3, FinalizeForm
<1>7. Typed(Finalize(Discard(d))) /\ Finalize(Discard(d)).error = TRUE
  <2> DEFINE e == Discard(d)
  <2> HIDE DEF e
  <2>1. Typed(e) /\ e.error = TRUE => Typed(Finalize(e)) /\ Finalize(e).error = TRUE
    BY FinalizeForm
  <2> QED
    BY <1>5, <2>1 DEF e
<1> QED
  BY <1>3, <1>4, <1>6, <1>7

LEMMA ErrorKeeps ==
    ASSUME NEW c, Typed(c), NEW abort \in BOOLEAN
    PROVE  ReqInv(Error(c, abort))
BY ErrorTyped, NotClean

LEMMA RedirectKeeps ==
    ASSUME NEW c, Typed(c), c.fin => c.error \/ c.noBody
    PROVE  ReqInv(Redirect(c))
<1> DEFINE d == [c EXCEPT !.noBody = TRUE]
           e == Discard(d)
<1>1. c \in ReqType /\ Typed(c)
  BY DEF Typed
<1>2. Typed(d) /\ d.noBody = TRUE
  <2>1. d \in ReqType /\ d.q = c.q /\ d.noBody = TRUE
    BY ZenonT(40), <1>1 DEF ReqType
  <2> HIDE DEF d
  <2> QED
    BY <1>1, <2>1 DEF Typed
<1>3. Redirect(c) = IF c.fin THEN c ELSE Finalize(e)
  BY DEF Redirect
<1> HIDE DEF d
<1>4. Typed(e) /\ e.noBody = TRUE
  BY <1>2, DiscardTyped
<1> HIDE DEF e
<1>5. Typed(Finalize(e)) /\ Finalize(e).noBody = TRUE
  BY <1>4, FinalizeForm
<1>6. ReqInv(Finalize(e))
  BY <1>5, NotClean
<1>7. c.fin => ReqInv(c)
  BY NotClean
<1> QED
  BY <1>3, <1>6, <1>7

\* The text of what is under way.
LEMMA WayText ==
    ASSUME NEW c \in ReqType, NEW ch \in Outputs
    PROVE  /\ c.sent \in Texts /\ c.q.net \in Texts /\ c.q.write \in Texts /\ c.pipe[ch] \in Texts
           /\ Way(c, ch) \in Texts
           /\ Text(Way(c, ch), ch) =
                ((Text(c.sent, ch) \o Text(c.q.net, ch)) \o Text(c.q.write, ch)) \o Text(c.pipe[ch], ch)
<1> DEFINE a == c.sent
           b == c.q.net
           e == c.q.write
           p == c.pipe[ch]
<1>1. a \in Texts /\ b \in Texts /\ e \in Texts /\ p \in Texts
  BY DEF ReqType, Queues, Pipes, Outputs, Channels
<1>2. Way(c, ch) = ((a \o b) \o e) \o p
  BY DEF Way
<1> HIDE DEF a, b, e, p
<1>3. a \o b \in Texts
  BY <1>1, TextJoin
<1>4. (a \o b) \o e \in Texts
  BY <1>1, <1>3, TextJoin
<1>5. ((a \o b) \o e) \o p \in Texts
  BY <1>1, <1>4, TextJoin
<1>6. Text(a \o b, ch) = Text(a, ch) \o Text(b, ch)
  BY <1>1, TextFacts
<1>7. Text((a \o b) \o e, ch) = Text(a \o b, ch) \o Text(e, ch)
  BY <1>1, <1>3, TextFacts
<1>8. Text(((a \o b) \o e) \o p, ch) = Text((a \o b) \o e, ch) \o Text(p, ch)
  BY <1>1, <1>4, TextFacts
<1> QED
  BY <1>1, <1>2, <1>5, <1>6, <1>7, <1>8 DEF a, b, e, p

\* The end is behind all that was there.
LEMMA EndLast ==
    ASSUME NEW s \in Texts, NEW t \in Texts,
           \A i \in DOMAIN (s \o t) : (s \o t)[i] # "END"
    PROVE  LET u == s \o (t \o <<"END">>)
           IN  u \in Texts /\ \A i \in DOMAIN u : u[i] = "END" => i = Len(u)
<1> DEFINE v == s \o t
           u == v \o <<"END">>
<1>1. "END" \in Items
  BY DEF Items
<1>2. <<"END">> \in Texts
  BY <1>1, OnlyOne
<1>3. v \in Texts /\ \A i \in DOMAIN v : v[i] # "END"
  BY TextJoin
<1>4. s \o (t \o <<"END">>) = u
  BY <1>2, TextAssoc
<1> HIDE DEF v
<1>5. u = Append(v, "END")
  BY <1>1, <1>3, AppendText
<1>6. /\ u \in Texts /\ Len(v) \in Nat /\ Len(u) = Len(v) + 1
      /\ \A i \in 1..Len(v) : u[i] = v[i]
  <2>1. /\ Append(v, "END") \in Texts /\ Len(v) \in Nat /\ Len(Append(v, "END")) = Len(v) + 1
        /\ \A i \in 1..Len(v) : Append(v, "END")[i] = v[i]
    BY <1>1, <1>3, AppendText
  <2> HIDE DEF u
  <2> QED
    BY <1>5, <2>1
<1>7. DOMAIN v = 1..Len(v) /\ DOMAIN u = 1..Len(u)
  BY <1>3, <1>6, LenProperties DEF Texts
<1> HIDE DEF u
<1>8. \A i \in DOMAIN u : u[i] = "END" => i = Len(u)
  BY <1>3, <1>6, <1>7
<1> QED
  BY <1>4, <1>6, <1>8

\* A request is finalized for its program when this has ended and been read.
LEMMA FinalizeKeeps ==
    ASSUME NEW c, ReqInv(c), Clean(c) => c.complete /\ ~c.location
    PROVE  ReqInv(Finalize(c))
<1> DEFINE d == [c EXCEPT !.fin = TRUE, !.finOut = TRUE]
           e == Finalize(c)
<1>1. c \in ReqType /\ Typed(c)
  BY DEF ReqInv, Typed
<1>2. Typed(e) /\ e.error = c.error /\ e.noBody = c.noBody /\ (Reading(c) => Reading(e))
      /\ (c.fin => e = c)
  BY <1>1, FinalizeForm
<1> SUFFICES ASSUME Clean(c), ~c.fin PROVE Facts(e)
  BY <1>2 DEF ReqInv, Clean
<1>3. Facts(c) /\ ~c.finOut /\ c.complete /\ ~c.location
  BY DEF ReqInv, Facts, EndFacts
<1>4. /\ Rest(d, e) /\ e.on = c.on /\ e.state = c.state
      /\ e.sent = c.sent /\ e.q.net = c.q.net /\ e.q.write = c.q.write \o <<"END">>
  BY <1>1, <1>3, FinalizeForm
<1> HIDE DEF e
<1>5. /\ e \in ReqType /\ e.fin = TRUE /\ e.finOut = TRUE /\ e.finConn = c.finConn
      /\ e.proc = c.proc /\ e.pid = c.pid /\ e.script = c.script /\ e.killed = c.killed
      /\ e.fds = c.fds /\ e.eofs = c.eofs /\ e.complete = c.complete /\ e.closed = c.closed
      /\ e.location = c.location /\ e.seen = c.seen /\ e.held = c.held
      /\ e.pipe = c.pipe /\ e.wrote = c.wrote
  BY <1>1, <1>4 DEF Rest, ReqType
<1>6. ProgramFacts(e)
  BY <1>3, <1>4, <1>5 DEF Facts, ProgramFacts, Drained, NoWrites, OutputsClosed
<1>7. c.q.net \in Texts /\ c.q.write \in Texts
  BY <1>1 DEF ReqType, Queues
<1>8. EndFacts(e)
  <2>1. EndFacts(c)
    BY <1>3 DEF Facts
  <2>2. \A i \in DOMAIN (c.q.net \o c.q.write) : (c.q.net \o c.q.write)[i] # "END"
    BY <2>1 DEF EndFacts
  <2>3. LET s == e.q.net \o e.q.write IN \A i \in DOMAIN s : s[i] = "END" => i = Len(s)
    BY <1>4, <1>7, <2>2, EndLast
  <2>4. ~c.finConn /\ c.state \notin {"finalized", "complete", "begin", "closed"}
    BY <2>1 DEF EndFacts
  <2> QED
    BY <1>3, <1>4, <1>5, <2>3, <2>4 DEF EndFacts
<1>9. HeaderFacts(e)
  BY <1>3, <1>5 DEF Facts, HeaderFacts
<1>10. ASSUME NEW ch \in Outputs PROVE Text(Way(e, ch), ch) = Text(Way(c, ch), ch)
  <2> DEFINE w == c.q.write
  <2>1. "END" \in Items /\ "END" \notin Shown(ch)
    BY DEF Items, Shown
  <2>2. <<"END">> \in Texts /\ Text(<<"END">>, ch) = <<>>
    BY <2>1, OnlyOne, TextFacts
  <2>3. Text(w \o <<"END">>, ch) = Text(w, ch) \o <<>>
    <3> DEFINE z == <<"END">>
    <3>1. z \in Texts /\ Text(z, ch) = <<>> /\ w \in Texts
      BY <1>7, <2>2
    <3> HIDE DEF z, w
    <3>2. Text(w \o z, ch) = Text(w, ch) \o Text(z, ch)
      BY <3>1, TextFacts
    <3> QED
      BY <3>1, <3>2 DEF z
  <2>4. Text(w, ch) \o <<>> = Text(w, ch)
    BY <1>7, TextFacts, TextUnit
  <2>5. Text(e.q.write, ch) = Text(w, ch)
    BY <1>4, <2>3, <2>4
  <2> HIDE DEF w
  <2>6. /\ Text(Way(e, ch), ch) = ((Text(e.sent, ch) \o Text(e.q.net, ch)) \o Text(e.q.write, ch)) \o Text(e.pipe[ch], ch)
        /\ Text(Way(c, ch), ch) = ((Text(c.sent, ch) \o Text(c.q.net, ch)) \o Text(c.q.write, ch)) \o Text(c.pipe[ch], ch)
    BY <1>1, <1>5, WayText
  <2> QED
    BY <1>4, <1>5, <2>5, <2>6 DEF w
<1>11. OutputFacts(e)
  <2>1. OutputFacts(c)
    BY <1>3 DEF Facts
  <2>2. ~e.location => \A ch \in Outputs : Text(Way(e, ch), ch) = Text(e.wrote, ch)
    BY <1>5, <1>10, <2>1 DEF OutputFacts
  <2> QED
    BY <1>2, <1>5, <2>1, <2>2 DEF OutputFacts
<1> QED
  BY <1>6, <1>8, <1>9, <1>11 DEF Facts

\* The command goes with its pipes.
LEMMA DestroyForm ==
    ASSUME NEW c, Typed(c), NEW b \in BOOLEAN
    PROVE  LET e == [c EXCEPT !.callback = b]
               d == mprDestroyCmd(e)
           IN  /\ Typed(d) /\ d.error = c.error /\ d.noBody = c.noBody
               /\ d.fin = c.fin /\ d.finOut = c.finOut /\ d.finConn = c.finConn
               /\ d.pid = FALSE /\ d.script = c.script /\ d.killed = (c.killed \/ c.pid)
               /\ d.proc = (IF c.pid /\ c.proc = "exited" THEN "reaped" ELSE c.proc)
               /\ d.fds = {} /\ d.on = {} /\ d.eofs = 0 /\ d.complete = FALSE /\ d.closed = c.closed
               /\ d.location = c.location /\ d.seen = c.seen /\ d.held = c.held
               /\ d.pipe = c.pipe /\ d.wrote = c.wrote /\ d.sent = c.sent /\ d.q = c.q
               /\ d.todo = c.todo /\ d.channel = c.channel /\ d.state = c.state
<1> DEFINE e == [c EXCEPT !.callback = b]
           d == mprDestroyCmd(e)
           k == c.killed \/ c.pid
           p == IF c.pid /\ c.proc = "exited" THEN "reaped" ELSE c.proc
<1>1. c \in ReqType /\ k \in BOOLEAN /\ p \in Procs
  BY DEF Typed, ReqType, Procs
<1>2. e \in ReqType /\ e.killed = c.killed /\ e.pid = c.pid /\ e.proc = c.proc
  BY <1>1 DEF ReqType
<1>3. mprDestroyCmd(e) =
        [e EXCEPT !.fds = {}, !.on = {}, !.eofs = 0, !.complete = FALSE,
                  !.pid = FALSE, !.listed = FALSE, !.killed = k, !.proc = p]
  <2> HIDE DEF e
  <2> QED
    BY <1>2 DEF mprDestroyCmd
<1> HIDE DEF k, p
<1>4. d \in ReqType
  <2> HIDE DEF e
  <2> DEFINE x == [e EXCEPT !.fds = {}, !.on = {}, !.eofs = 0, !.complete = FALSE]
  <2>1. x \in ReqType
    BY ZenonT(40), <1>2 DEF ReqType
  <2> HIDE DEF x
  <2> DEFINE y == [x EXCEPT !.pid = FALSE, !.listed = FALSE]
             z == [y EXCEPT !.proc = p]
  <2>2. y \in ReqType
    BY ZenonT(60), <2>1 DEF ReqType
  <2>3. d = [z EXCEPT !.killed = k]
    BY <1>2, <1>3 DEF ReqType, x
  <2> HIDE DEF y, d
  <2>4. z \in ReqType
    BY ZenonT(40), <1>1, <2>2 DEF ReqType
  <2> HIDE DEF z
  <2>5. [z EXCEPT !.killed = k] \in ReqType
    BY ZenonT(40), <1>1, <2>4 DEF ReqType
  <2> QED
    BY <2>3, <2>5
<1>5. /\ d.error = e.error /\ d.noBody = e.noBody
      /\ d.fin = e.fin /\ d.finOut = e.finOut /\ d.finConn = e.finConn
      /\ d.pid = FALSE /\ d.script = e.script /\ d.killed = k /\ d.proc = p
      /\ d.fds = {} /\ d.on = {} /\ d.eofs = 0 /\ d.complete = FALSE /\ d.closed = e.closed
      /\ d.location = e.location /\ d.seen = e.seen /\ d.held = e.held
      /\ d.pipe = e.pipe /\ d.wrote = e.wrote /\ d.sent = e.sent /\ d.q = e.q
      /\ d.todo = e.todo /\ d.channel = e.channel /\ d.state = e.state
  <2> HIDE DEF e
  <2> QED
    BY <1>2, <1>3 DEF ReqType
<1>6. /\ e.error = c.error /\ e.noBody = c.noBody
      /\ e.fin = c.fin /\ e.finOut = c.finOut /\ e.finConn = c.finConn
      /\ e.script = c.script /\ e.closed = c.closed
      /\ e.location = c.location /\ e.seen = c.seen /\ e.held = c.held
      /\ e.pipe = c.pipe /\ e.wrote = c.wrote /\ e.sent = c.sent /\ e.q = c.q
      /\ e.todo = c.todo /\ e.channel = c.channel /\ e.state = c.state
  BY <1>1 DEF ReqType
<1> HIDE DEF d
<1>7. Typed(d)
  <2> HIDE DEF e
  <2> QED
    BY <1>4, <1>5, <1>6 DEF Typed
<1> QED
  <2> HIDE DEF e
  <2>1. /\ d.error = c.error /\ d.noBody = c.noBody
        /\ d.fin = c.fin /\ d.finOut = c.finOut /\ d.finConn = c.finConn
        /\ d.pid = FALSE /\ d.script = c.script /\ d.killed = k /\ d.proc = p
        /\ d.fds = {} /\ d.on = {} /\ d.eofs = 0 /\ d.complete = FALSE /\ d.closed = c.closed
        /\ d.location = c.location /\ d.seen = c.seen /\ d.held = c.held
        /\ d.pipe = c.pipe /\ d.wrote = c.wrote /\ d.sent = c.sent /\ d.q = c.q
        /\ d.todo = c.todo /\ d.channel = c.channel /\ d.state = c.state
    BY <1>5, <1>6
  <2> QED
    BY <1>7, <2>1 DEF d, e, k, p

LEMMA CloseCgiTyped ==
    ASSUME NEW c, Typed(c)
    PROVE  Typed(closeCgi(c)) /\ closeCgi(c).error = c.error /\ closeCgi(c).noBody = c.noBody
BY DestroyForm DEF closeCgi

LEMMA StateForm ==
    ASSUME NEW c, Typed(c), NEW x \in States
    PROVE  LET d == [c EXCEPT !.state = x]
           IN  /\ Typed(d) /\ Same(c, d) /\ d.state = x
               /\ d.todo = c.todo /\ d.channel = c.channel /\ d.on = c.on
<1> DEFINE d == [c EXCEPT !.state = x]
<1>1. c \in ReqType
  BY DEF Typed
<1>2. d \in ReqType
  BY <1>1 DEF ReqType
<1>3. Same(c, d) /\ d.state = x /\ d.todo = c.todo /\ d.channel = c.channel /\ d.on = c.on
  BY ZenonT(40), <1>1, <1>2 DEF ReqType, Same, Rest
<1> HIDE DEF d
<1>4. Typed(d)
  BY <1>2, <1>3 DEF Typed, Same
<1> QED
  BY <1>3, <1>4 DEF d

\* processCompletion closes a command that has ended.
LEMMA CompleteKeeps ==
    ASSUME NEW c, ReqInv(c), Clean(c) => c.finConn
    PROVE  ReqInv(Complete(c))
<1> DEFINE d == closeCgi(c)
<1>1. Typed(c)
  BY DEF ReqInv
<1>2. /\ Typed(d) /\ d.error = c.error /\ d.noBody = c.noBody
      /\ d.fin = c.fin /\ d.finOut = c.finOut /\ d.finConn = c.finConn
      /\ d.pid = FALSE /\ d.script = c.script /\ d.killed = (c.killed \/ c.pid)
      /\ d.proc = (IF c.pid /\ c.proc = "exited" THEN "reaped" ELSE c.proc)
      /\ d.fds = {} /\ d.on = {} /\ d.eofs = 0 /\ d.complete = FALSE /\ d.closed = c.closed
      /\ d.location = c.location /\ d.seen = c.seen /\ d.held = c.held
      /\ d.pipe = c.pipe /\ d.wrote = c.wrote /\ d.sent = c.sent /\ d.q = c.q
      /\ d.todo = c.todo /\ d.channel = c.channel /\ d.state = c.state
  BY <1>1, DestroyForm DEF closeCgi
<1>3. Complete(c) = [d EXCEPT !.state = "complete"]
  BY DEF Complete
<1> HIDE DEF d
<1>4. ReqInv(d)
  <2> SUFFICES ASSUME Clean(d) PROVE Facts(d)
    BY <1>2 DEF ReqInv
  <2>1. Clean(c) /\ Facts(c)
    BY <1>2 DEF ReqInv, Clean
  <2>2. c.fin /\ c.proc = "reaped" /\ ~c.pid /\ OutputsClosed(c) /\ ~c.killed
    <3>1. c.fin
      BY <2>1 DEF Facts, EndFacts
    <3> QED
      BY <2>1, <3>1 DEF Facts, ProgramFacts
  <2>3. ProgramFacts(d)
    <3>1. \A ch \in Outputs \ d.fds : Drained(d, ch)
      BY <1>2, <2>1, <2>2 DEF Facts, ProgramFacts, Drained, NoWrites, OutputsClosed
    <3>2. ~(Outputs \subseteq d.fds) /\ OutputsClosed(d)
      BY <1>2 DEF Outputs, OutputsClosed
    <3> QED
      BY <1>2, <2>1, <2>2, <3>1, <3>2 DEF Facts, ProgramFacts
  <2>4. EndFacts(d)
    BY ZenonT(40), <1>2, <2>1 DEF Facts, EndFacts
  <2>5. HeaderFacts(d)
    BY <1>2, <2>1 DEF Facts, HeaderFacts
  <2>6. OutputFacts(d)
    BY <1>2, <2>1 DEF Facts, OutputFacts, Reading, Way
  <2> QED
    BY <2>3, <2>4, <2>5, <2>6 DEF Facts
<1> DEFINE e == [d EXCEPT !.state = "complete"]
<1>5. Same(d, e) /\ e.state = "complete" /\ e.todo = d.todo /\ e.channel = d.channel /\ e.on = d.on /\ Typed(e)
  BY ZenonT(40), <1>2, StateForm DEF States
<1> HIDE DEF e
<1>6. ReqInv(e)
  <2>1. Clean(d) => d.finConn
    BY <1>2 DEF Clean
  <2>2. CASE Clean(d)
    BY <1>4, <1>5, <2>1, <2>2, Frame DEF Reading, Same, Rest
  <2>3. CASE ~Clean(d)
    BY <1>5, <2>3, NotClean DEF Clean, Same, Rest
  <2> QED
    BY <2>2, <2>3
<1> QED
  BY <1>3, <1>6 DEF e

-----------------------------------------------------------------------------
(* The connector. *)

LEMMA LenBasics ==
    ASSUME NEW s \in Texts
    PROVE  Len(s) \in Nat /\ DOMAIN s = 1..Len(s) /\ \A i \in 1..Len(s) : s[i] \in Items
<1>1. s \in Seq(Items)
  BY DEF Texts
<1> QED
  BY <1>1, LenProperties, ElementOfSeq

\* What is written is the queue without its end.
LEMMA EndAway ==
    ASSUME NEW s \in Texts, \A i \in 1..Len(s) : s[i] = "END" => i = Len(s),
           NEW n \in 0..Len(Without(s, {"END"}))
    PROVE  n \in 0..Len(s) /\ SubSeq(Without(s, {"END"}), 1, n) = SubSeq(s, 1, n)
<1> DEFINE T == Items \ {"END"}
           all == Without(s, {"END"})
<1>1. all = Only(s, T)
  BY DEF Without
<1>2. Len(s) \in Nat /\ \A i \in 1..Len(s) : s[i] \in Items
  BY LenBasics
<1>3. all \in Texts
  BY <1>1, OnlyType
<1>4. Len(all) <= Len(s) /\ \A i \in 1..Len(all) : all[i] = s[i]
  <2>1. CASE s = <<>>
    <3>1. all = <<>>
      BY <1>1, <2>1, OnlyEmpty
    <3> QED
      BY <2>1, <3>1
  <2>2. CASE s # <<>> /\ s[Len(s)] = "END"
    <3>1. PICK v \in Texts, x \in Items : s = Append(v, x)
      BY <2>2, SequenceEmptyOrAppend DEF Texts
    <3>2. /\ Len(v) \in Nat /\ Len(s) = Len(v) + 1 /\ s[Len(v) + 1] = x
          /\ \A i \in 1..Len(v) : s[i] = v[i]
      BY <3>1, AppendText
    <3>3. x = "END"
      BY <2>2, <3>2
    <3>4. \A i \in 1..Len(v) : v[i] \in T
      <4> SUFFICES ASSUME NEW i \in 1..Len(v) PROVE v[i] \in T
        OBVIOUS
      <4>1. i \in 1..Len(s) /\ i # Len(s)
        BY <3>2
      <4>2. s[i] \in Items /\ s[i] # "END"
        BY <1>2, <4>1
      <4> QED
        BY <3>2, <4>2
    <3>5. Only(v, T) = v
      BY <3>4, OnlyAll
    <3>6. Only(s, T) = Only(v, T)
      BY <3>1, <3>3, OnlyAppend
    <3> HIDE DEF all, T
    <3> QED
      BY <1>1, <3>2, <3>5, <3>6
  <2>3. CASE s # <<>> /\ s[Len(s)] # "END"
    <3>1. \A i \in 1..Len(s) : s[i] \in T
      BY <1>2, <2>3
    <3>2. Only(s, T) = s
      BY <3>1, OnlyAll
    <3> HIDE DEF all, T
    <3> QED
      BY <1>1, <1>2, <3>2
  <2> QED
    BY <2>1, <2>2, <2>3
<1>5. n \in 0..Len(all)
  OBVIOUS
<1> HIDE DEF all
<1>6. Len(all) \in Nat
  BY <1>3, LenBasics
<1>7. n \in 0..Len(s)
  BY <1>2, <1>4, <1>5, <1>6
<1> DEFINE a == SubSeq(all, 1, n)
           b == SubSeq(s, 1, n)
<1>8. a \in Texts /\ Len(a) = n /\ \A i \in 1..n : a[i] = all[i]
  BY <1>3, <1>5, TextSplit
<1>9. b \in Texts /\ Len(b) = n /\ \A i \in 1..n : b[i] = s[i]
  BY <1>7, TextSplit
<1> HIDE DEF a, b
<1>10. a = b
  <2>1. \A i \in 1..Len(a) : a[i] = b[i]
    BY <1>4, <1>5, <1>6, <1>8, <1>9
  <2> QED
    BY <1>8, <1>9, <2>1, SeqEqual DEF Texts
<1> QED
  BY <1>7, <1>10 DEF a, b, all

\* What is left of the queue is shorter.
LEMMA LeftFits ==
    ASSUME NEW s \in Texts, NEW n \in Nat, NEW m \in Nat, Count(s) <= m
    PROVE  LET left == SubSeq(s, n + 1, Len(s))
           IN  left \in Texts /\ Count(left) <= m
<1> DEFINE l == Len(s)
           left == SubSeq(s, n + 1, l)
<1>1. l \in Nat
  BY LenBasics
<1>2. CASE n <= l
  <2> DEFINE a == SubSeq(s, 1, n)
  <2>0. n \in 0..Len(s)
    BY <1>1, <1>2
  <2>1. a \in Texts /\ left \in Texts /\ a \o left = s
    BY <2>0, TextSplit
  <2> HIDE DEF a, left
  <2>2. Count(s) = Count(a) + Count(left) /\ Count(a) \in Nat /\ Count(left) \in Nat /\ Count(s) \in Nat
    BY <2>1, CountFacts
  <2>3. Count(left) <= m
    BY <2>2
  <2> QED
    BY <2>1, <2>3 DEF left
<1>3. CASE ~(n <= l)
  <2>1. left = <<>>
    BY <1>1, <1>3, SubSeqEmpty
  <2>2. left \in Texts /\ Count(left) = 0
    <3> HIDE DEF left
    <3> QED
      BY <2>1, CountFacts, TextUnit
  <2> QED
    BY <2>2
<1> QED
  BY <1>2, <1>3

LEMMA FinalizeConnectorForm ==
    ASSUME NEW c, Typed(c)
    PROVE  LET d == FinalizeConnector(c)
               e == [c EXCEPT !.finConn = TRUE, !.finOut = TRUE]
           IN  /\ Typed(d) /\ Same(e, d) /\ d.todo = c.todo /\ d.channel = c.channel /\ d.on = c.on
               /\ d.state \in {c.state, "finalized"}
<1> DEFINE e == [c EXCEPT !.finConn = TRUE, !.finOut = TRUE]
           x == IF c.fin /\ c.eof THEN "finalized" ELSE c.state
           d == [e EXCEPT !.state = x]
<1>1. c \in ReqType /\ x \in States
  BY DEF Typed, ReqType, States
<1>2. e \in ReqType /\ e.q = c.q /\ e.todo = c.todo /\ e.channel = c.channel /\ e.on = c.on
  BY ZenonT(40), <1>1 DEF ReqType
<1>3. FinalizeConnector(c) = d
  BY <1>1 DEF FinalizeConnector, ReqType
<1> HIDE DEF e
<1>4. Typed(e)
  BY <1>2 DEF Typed
<1>5. x \in {c.state, "finalized"}
  OBVIOUS
<1> HIDE DEF x
<1>6. Typed(d) /\ Same(e, d) /\ d.state = x /\ d.todo = e.todo /\ d.channel = e.channel /\ d.on = e.on
  BY <1>1, <1>4, StateForm
<1> HIDE DEF d
<1> QED
  BY <1>2, <1>3, <1>5, <1>6 DEF e


\* What netOutgoingService does when it may write.
ServiceForm(c, d, a, left) ==
    LET e == [c EXCEPT !.sent = c.sent \o a, !.q = [c.q EXCEPT !.net = left]]
        f == IF left # <<>> /\ left[1] = "END" THEN FinalizeConnector(d) ELSE d
    IN  ServiceNet(c) = f /\ Calm(e, d)

LEMMA ServiceTyped ==
    ASSUME NEW c, Typed(c)
    PROVE  /\ Typed(ServiceNet(c))
           /\ c.error => ServiceNet(c).error
           /\ c.noBody => ServiceNet(c).noBody
           /\ \/ ServiceNet(c) = c
              \/ ServiceNet(c).error
              \/ c.noBody
              \/ /\ ~c.finConn
                 /\ \E n \in 0..Len(Without(c.q.net, {"END"})) : \E d :
                       ServiceForm(c, d, SubSeq(Without(c.q.net, {"END"}), 1, n),
                                   SubSeq(c.q.net, n + 1, Len(c.q.net)))
<1> DEFINE v == NoData(c.q.net)
           d == IF c.noBody THEN [c EXCEPT !.q = [c.q EXCEPT !.net = v]] ELSE c
           net == d.q.net
           all == Without(net, {"END"})
           n == IF Len(all) < d.room THEN Len(all) ELSE d.room
           a == SubSeq(all, 1, n)
           left == SubSeq(net, n + 1, Len(net))
           h == d.headers \/ Contains(all, "HDR")
           bl == d.blocked \/ n < Len(all)
           e == [d EXCEPT !.headers = h, !.sent = d.sent \o a, !.room = d.room - n,
                          !.q = [d.q EXCEPT !.net = left], !.blocked = bl]
           f == IF n > 0 /\ Count(left) < 1 /\ c.susp THEN Resume(e) ELSE e
           r == IF left # <<>> /\ left[1] = "END" THEN FinalizeConnector(f) ELSE f
<1>1. c \in ReqType /\ c.q.net \in Texts /\ QueueMax \in Nat
  BY ConstantsAssumption DEF Typed, ReqType, Queues, ConstantsAssumption
<1>2. v \in Texts /\ Count(v) = 0
  BY <1>1, CountFacts
<1>3. (c.noBody => d.q.net = v) /\ (~c.noBody => d = c) /\ d \in ReqType
      /\ d.error = c.error /\ d.noBody = c.noBody
  <2>1. CASE c.noBody
    <3> DEFINE w == [c EXCEPT !.q = [c.q EXCEPT !.net = v]]
    <3>1. d = w
      BY <2>1
    <3> HIDE DEF v, d
    <3>2. w \in ReqType /\ w.q.net = v
      BY ZenonT(40), <1>1, <1>2 DEF ReqType, Queues
    <3>3. w.error = c.error /\ w.noBody = c.noBody
      BY <1>1 DEF ReqType
    <3> QED
      BY <2>1, <3>1, <3>2, <3>3
  <2>2. CASE ~c.noBody
    <3>1. d = c
      BY <2>2
    <3> HIDE DEF d
    <3> QED
      BY <1>1, <2>2, <3>1
  <2> QED
    BY <2>1, <2>2
<1>4. d.q.net \in Texts /\ Typed(d) /\ d.sent \in Texts /\ d.room \in Nat
  <2> HIDE DEF d, v
  <2>1. d.q.net \in Texts /\ d.sent \in Texts /\ d.room \in Nat
    BY <1>3 DEF ReqType, Queues
  <2>2. Count(d.q.net) <= 2 * QueueMax
    BY <1>1, <1>2, <1>3 DEF Typed
  <2> QED
    BY <1>3, <2>1, <2>2 DEF Typed
<1>5. [c EXCEPT !.q.net = NoData(@)] = [c EXCEPT !.q = [c.q EXCEPT !.net = v]]
  BY <1>1 DEF ReqType, Queues
<1>6. ServiceNet(c) =
        CASE c.finConn -> c
          [] ~c.finConn /\ c.gone /\ all # <<>> -> FinalizeConnector(Disconnect(d))
          [] ~c.finConn /\ ~(c.gone /\ all # <<>>) -> r
  <2>1. d = IF c.noBody THEN [c EXCEPT !.q.net = NoData(@)] ELSE c
    BY <1>5
  <2>2. [d EXCEPT !.headers = @ \/ Contains(all, "HDR"),
                  !.sent = @ \o SubSeq(all, 1, n), !.room = @ - n, !.q.net = left,
                  !.blocked = @ \/ n < Len(all)] = e
    <3> HIDE DEF d, n, all, left
    <3> QED
      BY <1>3 DEF ReqType, Queues
  <2> HIDE DEF d, e
  <2> QED
    BY <2>1, <2>2 DEF ServiceNet
<1> HIDE DEF d, v
<1>7. all \in Texts /\ Len(all) \in Nat
  BY <1>4, OnlyType, LenBasics DEF Without
<1>8. n \in 0..Len(all) /\ n \in Nat /\ n <= d.room
  <2> HIDE DEF all
  <2> QED
    BY <1>4, <1>7
<1>9. a \in Texts
  <2> HIDE DEF n, all
  <2> QED
    BY <1>7, <1>8, TextSplit
<1>10. left \in Texts /\ Count(left) <= 2 * QueueMax
  <2> HIDE DEF n
  <2> QED
    BY <1>1, <1>4, <1>8, LeftFits DEF Typed
<1>11. d.room - n \in Nat
  BY <1>4, <1>8
<1>12. h \in BOOLEAN /\ bl \in BOOLEAN
  OBVIOUS
<1>13. d.sent \o a \in Texts
  <2> HIDE DEF a
  <2> QED
    BY <1>4, <1>9, TextJoin
<1> DEFINE e1 == [d EXCEPT !.sent = d.sent \o a, !.q = [d.q EXCEPT !.net = left]]
<1> HIDE DEF n, all, left, a, h, bl
<1>14. e1 \in ReqType /\ e1.q.net = left
  BY ZenonT(40), <1>3, <1>10, <1>13 DEF ReqType, Queues
<1>15. e = [e1 EXCEPT !.headers = h, !.room = d.room - n, !.blocked = bl]
  BY ZenonT(40), <1>3 DEF ReqType, Queues
<1>16. e1.error = d.error /\ e1.noBody = d.noBody
  BY <1>3 DEF ReqType
<1> HIDE DEF e1, e
<1>17. e \in ReqType
  <2> DEFINE e2 == [e1 EXCEPT !.headers = h]
             e3 == [e2 EXCEPT !.room = d.room - n]
             e4 == [e3 EXCEPT !.blocked = bl]
  <2>1. e2 \in ReqType
    BY SMTT(40), <1>12, <1>14 DEF ReqType
  <2>2. e = e4
    BY <1>14, <1>15 DEF ReqType
  <2> HIDE DEF e2
  <2>3. e3 \in ReqType
    BY ZenonT(40), <1>11, <2>1 DEF ReqType
  <2> HIDE DEF e3
  <2>4. e4 \in ReqType
    BY SMTT(40), <1>12, <2>3 DEF ReqType
  <2> QED
    BY <2>2, <2>4
<1>18. Calm(e1, e)
  BY <1>14, <1>15, <1>17 DEF ReqType, Calm, Kept, Same, Rest
<1>19. Calm(e1, f) /\ f \in ReqType
  <2>1. Resume(e) \in ReqType /\ Calm(e, Resume(e))
    BY <1>17, ResumeCalm
  <2> QED
    BY <1>17, <1>18, <2>1, CalmChain
<1> HIDE DEF f
<1>20. Typed(f) /\ f.error = c.error /\ f.noBody = c.noBody
  BY <1>3, <1>10, <1>14, <1>16, <1>19 DEF Typed, Calm, Same, Rest
<1>21. Typed(r) /\ r.error = c.error /\ r.noBody = c.noBody
  <2> DEFINE g == FinalizeConnector(f)
             k == [f EXCEPT !.finConn = TRUE, !.finOut = TRUE]
  <2>1. Typed(g) /\ Same(k, g)
    BY <1>20, FinalizeConnectorForm
  <2>2. k.error = f.error /\ k.noBody = f.noBody
    BY <1>19 DEF ReqType
  <2> HIDE DEF g, k
  <2>3. Typed(g) /\ g.error = f.error /\ g.noBody = f.noBody
    BY <2>1, <2>2 DEF Same, Rest
  <2> QED
    BY <1>20, <2>3 DEF g
<1> DEFINE z == FinalizeConnector(Disconnect(d))
<1>22. Typed(z) /\ z.error = TRUE /\ (c.noBody => z.noBody)
  <2> DEFINE y == Disconnect(d)
             k == [y EXCEPT !.finConn = TRUE, !.finOut = TRUE]
  <2>1. Typed(y) /\ y.error = TRUE
    BY <1>4, DisconnectTyped
  <2>2. y.noBody = d.noBody
    BY <1>3 DEF Disconnect, ReqType
  <2> HIDE DEF y
  <2>3. Typed(FinalizeConnector(y)) /\ Same(k, FinalizeConnector(y))
    BY <2>1, FinalizeConnectorForm
  <2>4. k.error = y.error /\ k.noBody = y.noBody
    BY <2>1 DEF ReqType, Typed
  <2> HIDE DEF k
  <2> QED
    BY <1>3, <2>1, <2>2, <2>3, <2>4 DEF Same, Rest, y
<1> HIDE DEF z
<1>23. CASE c.finConn
  BY <1>6, <1>23
<1>24. CASE ~c.finConn /\ c.gone /\ all # <<>>
  <2>1. ServiceNet(c) = z
    BY <1>6, <1>24 DEF z
  <2> QED
    BY <1>22, <2>1
<1>25. CASE ~c.finConn /\ ~(c.gone /\ all # <<>>)
  <2>1. ServiceNet(c) = r
    BY <1>6, <1>25
  <2>2. ASSUME ~c.noBody
        PROVE  \E m \in 0..Len(Without(c.q.net, {"END"})) : \E b :
                  ServiceForm(c, b, SubSeq(Without(c.q.net, {"END"}), 1, m),
                              SubSeq(c.q.net, m + 1, Len(c.q.net)))
    <3>1. d = c
      BY <1>3, <2>2
    <3>2. ServiceForm(c, f, a, left)
      BY <1>19, <2>1, <3>1 DEF ServiceForm, e1
    <3>3. n \in 0..Len(Without(c.q.net, {"END"}))
      BY <1>8, <3>1 DEF all
    <3> QED
      BY <3>1, <3>2, <3>3 DEF a, left, all
  <2> HIDE DEF r
  <2> QED
    BY <1>21, <1>25, <2>1, <2>2
<1> QED
  BY <1>23, <1>24, <1>25

\* The connector is finalized when the end is all that is left.
LEMMA ConnectorKeeps ==
    ASSUME NEW c, ReqInv(c), Clean(c) => c.fin /\ c.q.write = <<>> /\ c.q.net = <<"END">>
    PROVE  ReqInv(FinalizeConnector(c))
<1> DEFINE d == FinalizeConnector(c)
           e == [c EXCEPT !.finConn = TRUE, !.finOut = TRUE]
<1>1. c \in ReqType /\ Typed(c)
  BY DEF ReqInv, Typed
<1>2. /\ Typed(d) /\ Same(e, d) /\ d.todo = c.todo /\ d.channel = c.channel /\ d.on = c.on
      /\ d.state \in {c.state, "finalized"}
  BY <1>1, FinalizeConnectorForm
<1> HIDE DEF d
<1>3. /\ e.error = c.error /\ e.noBody = c.noBody
      /\ e.fin = c.fin /\ e.finOut = TRUE /\ e.finConn = TRUE
      /\ e.proc = c.proc /\ e.pid = c.pid /\ e.script = c.script /\ e.killed = c.killed
      /\ e.fds = c.fds /\ e.eofs = c.eofs /\ e.complete = c.complete /\ e.closed = c.closed
      /\ e.location = c.location /\ e.seen = c.seen /\ e.held = c.held
      /\ e.pipe = c.pipe /\ e.wrote = c.wrote /\ e.sent = c.sent /\ e.q = c.q
  BY <1>1 DEF ReqType
<1> HIDE DEF e
<1> SUFFICES ASSUME Clean(d) PROVE Facts(d)
  BY <1>2 DEF ReqInv, d
<1>4. Clean(c) /\ Facts(c)
  BY <1>2, <1>3 DEF ReqInv, Clean, Same, Rest
<1>5. ProgramFacts(d)
  BY <1>2, <1>3, <1>4 DEF Facts, ProgramFacts, Same, Rest, Drained, NoWrites, OutputsClosed
<1>6. EndFacts(d)
  <2>1. /\ d.q.net = c.q.net /\ d.q.write = c.q.write /\ d.location = c.location
        /\ d.fin = c.fin /\ d.finOut = TRUE /\ d.finConn = TRUE
    BY <1>2, <1>3 DEF Same, Rest
  <2>2. EndFacts(c) /\ c.fin /\ c.q.write = <<>> /\ c.q.net = <<"END">>
    BY <1>4 DEF Facts
  <2>3. LET s == d.q.net \o d.q.write
        IN  \A i \in DOMAIN s : s[i] = "END" => d.fin /\ i = Len(s)
    BY <2>1, <2>2 DEF EndFacts
  <2> QED
    BY <2>1, <2>2, <2>3 DEF EndFacts
<1>7. HeaderFacts(d)
  <2>1. /\ d.held = c.held /\ d.location = c.location /\ d.seen = c.seen
        /\ d.wrote = c.wrote /\ d.pipe = c.pipe /\ d.script = c.script
    BY <1>2, <1>3 DEF Same, Rest
  <2> QED
    BY <1>4, <2>1 DEF Facts, HeaderFacts
<1>8. OutputFacts(d)
  BY <1>2, <1>3, <1>4 DEF Facts, OutputFacts, Same, Rest, Way, Reading
<1> QED
  BY <1>5, <1>6, <1>7, <1>8 DEF Facts

\* An item of a sequence that starts with another one.
LEMMA ConcatItem ==
    ASSUME NEW s \in Texts, NEW t \in Texts
    PROVE  /\ s \o t \in Texts /\ Len(s \o t) = Len(s) + Len(t)
           /\ Len(s) \in Nat /\ Len(t) \in Nat
           /\ DOMAIN s = 1..Len(s) /\ DOMAIN t = 1..Len(t) /\ DOMAIN (s \o t) = 1..(Len(s) + Len(t))
           /\ \A i \in 1..Len(s) : (s \o t)[i] = s[i]
           /\ \A i \in 1..Len(t) : (s \o t)[Len(s) + i] = t[i]
<1>1. Len(s) \in Nat /\ Len(t) \in Nat /\ DOMAIN s = 1..Len(s) /\ DOMAIN t = 1..Len(t)
  BY LenBasics
<1>2. /\ s \o t \in Texts /\ Len(s \o t) = Len(s) + Len(t)
      /\ \A i \in 1..(Len(s) + Len(t)) : (s \o t)[i] = IF i <= Len(s) THEN s[i] ELSE t[i - Len(s)]
  BY ConcatProperties DEF Texts
<1> DEFINE u == s \o t
<1> HIDE DEF u
<1>3. DOMAIN u = 1..(Len(s) + Len(t))
  BY <1>2, LenBasics DEF u
<1>4. \A i \in 1..Len(s) : u[i] = s[i]
  BY <1>1, <1>2 DEF u
<1>5. ASSUME NEW i \in 1..Len(t) PROVE u[Len(s) + i] = t[i]
  <2> DEFINE j == Len(s) + i
  <2>1. j \in 1..(Len(s) + Len(t)) /\ ~(j <= Len(s)) /\ j - Len(s) = i
    BY <1>1
  <2> HIDE DEF j
  <2> QED
    BY <1>2, <2>1 DEF u, j
<1> QED
  BY <1>1, <1>2, <1>3, <1>4, <1>5 DEF u

\* The connector sends what it takes from its queue, and sees the end.
LEMMA ServiceKeeps == ASSUME NEW c, ReqInv(c) PROVE ReqInv(ServiceNet(c))
<1> DEFINE z == ServiceNet(c)
           net == c.q.net
           write == c.q.write
<1>1. c \in ReqType /\ Typed(c) /\ c.sent \in Texts /\ net \in Texts /\ write \in Texts
  BY DEF ReqInv, Typed, ReqType, Queues
<1>2. /\ Typed(z) /\ (c.error => z.error) /\ (c.noBody => z.noBody)
      /\ \/ z = c \/ z.error \/ c.noBody
         \/ /\ ~c.finConn
            /\ \E n \in 0..Len(Without(net, {"END"})) : \E d :
                  ServiceForm(c, d, SubSeq(Without(net, {"END"}), 1, n),
                              SubSeq(net, n + 1, Len(net)))
  BY <1>1, ServiceTyped
<1> HIDE DEF z
<1> SUFFICES ASSUME z # c, ~z.error, ~z.noBody PROVE ReqInv(z)
  BY <1>2, NotClean DEF z
<1>3. Clean(c) /\ Facts(c) /\ ~c.finConn
  BY <1>2 DEF Clean, ReqInv
<1>3a. PICK n \in 0..Len(Without(net, {"END"})) : \E d :
        ServiceForm(c, d, SubSeq(Without(net, {"END"}), 1, n), SubSeq(net, n + 1, Len(net)))
  BY <1>2
<1>4. PICK d :
        ServiceForm(c, d, SubSeq(Without(net, {"END"}), 1, n), SubSeq(net, n + 1, Len(net)))
  BY <1>3a
<1>5. LET s == net \o write
      IN  \A i \in DOMAIN s : s[i] = "END" => c.fin /\ i = Len(s)
  BY <1>3 DEF Facts, EndFacts
<1> DEFINE s == net \o write
           a == SubSeq(net, 1, n)
           left == SubSeq(net, n + 1, Len(net))
           e == [c EXCEPT !.sent = c.sent \o a, !.q = [c.q EXCEPT !.net = left]]
<1>6. /\ s \in Texts /\ Len(s) = Len(net) + Len(write) /\ Len(net) \in Nat /\ Len(write) \in Nat
      /\ DOMAIN s = 1..(Len(net) + Len(write)) /\ \A i \in 1..Len(net) : s[i] = net[i]
  <2> HIDE DEF net, write
  <2> QED
    BY <1>1, ConcatItem
<1>7. \A i \in 1..Len(net) : net[i] = "END" => i = Len(net)
  <2> HIDE DEF s, net, write
  <2>1. \A i \in DOMAIN s : s[i] = "END" => c.fin /\ i = Len(s)
    BY <1>5 DEF s
  <2> QED
    BY <1>6, <2>1
<1> HIDE DEF net, write
<1>8. n \in 0..Len(net) /\ SubSeq(Without(net, {"END"}), 1, n) = a
  BY <1>1, <1>7, EndAway
<1>9. a \in Texts /\ left \in Texts /\ a \o left = net /\ Len(a) = n /\ n \in Nat
  <2>1. a \in Texts /\ left \in Texts /\ a \o left = net /\ Len(a) = n
    BY <1>1, <1>8, TextSplit
  <2>2. n \in Nat
    BY <1>6, <1>8
  <2> QED
    BY <2>1, <2>2
<1>10. ServiceForm(c, d, a, left)
  BY <1>4, <1>8
<1> HIDE DEF a, left
<1>11. c.sent \o a \in Texts
  BY <1>1, <1>9, TextJoin
<1>12. /\ Calm(e, d)
       /\ z = IF left # <<>> /\ left[1] = "END" THEN FinalizeConnector(d) ELSE d
  BY <1>10 DEF ServiceForm, z
<1>13. Rest(c, e) /\ e.sent = c.sent \o a /\ e.q.net = left /\ e.q.write = write
       /\ e.todo = c.todo /\ e.channel = c.channel /\ e.state = c.state /\ e.on = c.on
  <2>1. e \in ReqType
    BY ZenonT(40), <1>1, <1>9, <1>11 DEF ReqType, Queues
  <2>2. e.sent = c.sent \o a /\ e.q.net = left /\ e.q.write = write
    BY <1>1, <1>9, <1>11 DEF ReqType, Queues, write
  <2> QED
    BY SMTT(40), <1>1, <2>1, <2>2 DEF ReqType, Rest
<1> HIDE DEF e
<1>14. Rest(c, d) /\ d.sent = c.sent \o a /\ d.q.net = left /\ d.q.write = write
       /\ d.todo = c.todo /\ d.channel = c.channel /\ d.state = c.state /\ d.on = c.on
  BY <1>12, <1>13 DEF Calm, Kept, Same, Rest
<1> DEFINE t == left \o write
<1>15. /\ t \in Texts /\ Len(t) = Len(left) + Len(write) /\ Len(left) \in Nat
       /\ DOMAIN t = 1..Len(t) /\ \A i \in 1..Len(left) : t[i] = left[i]
  BY <1>1, <1>9, ConcatItem
<1>16. s = a \o t
  <2>1. a \in Texts /\ left \in Texts /\ write \in Texts /\ s = (a \o left) \o write
    BY <1>1, <1>9
  <2> HIDE DEF s
  <2>2. (a \o left) \o write = a \o (left \o write)
    BY ZenonT(40), <2>1, TextAssoc
  <2> QED
    BY <2>1, <2>2
<1> HIDE DEF s, t
<1>17. Len(s) = n + Len(t) /\ DOMAIN s = 1..Len(s) /\ \A i \in 1..Len(t) : s[n + i] = t[i]
  <2>1. /\ Len(a \o t) = Len(a) + Len(t)
        /\ DOMAIN (a \o t) = 1..(Len(a) + Len(t))
        /\ \A i \in 1..Len(t) : (a \o t)[Len(a) + i] = t[i]
    BY ZenonT(40), <1>9, <1>15, ConcatItem
  <2>2. Len(a) = n
    BY <1>9
  <2> QED
    BY <1>16, <2>1, <2>2
<1>18. \A i \in DOMAIN t : t[i] = "END" => c.fin /\ i = Len(t)
  <2>1. \A i \in DOMAIN s : s[i] = "END" => c.fin /\ i = Len(s)
    BY <1>5 DEF s, net, write
  <2> SUFFICES ASSUME NEW i \in DOMAIN t, t[i] = "END" PROVE c.fin /\ i = Len(t)
    OBVIOUS
  <2>2. n + i \in DOMAIN s /\ s[n + i] = "END" /\ i \in Nat /\ Len(t) \in Nat
    BY <1>9, <1>15, <1>17, <1>1
  <2>3. c.fin /\ n + i = Len(s)
    BY <2>1, <2>2
  <2> QED
    BY <1>9, <1>17, <2>2, <2>3
<1>19. EndFacts(d)
  BY <1>3, <1>14, <1>18 DEF Facts, EndFacts, Rest, t
<1>20. ASSUME NEW ch \in Outputs PROVE Way(d, ch) = Way(c, ch)
  <2>1. (c.sent \o a) \o left = c.sent \o net
    <3> DEFINE x == c.sent
    <3>1. x \in Texts
      BY <1>1
    <3> HIDE DEF x
    <3>2. (x \o a) \o left = x \o (a \o left)
      BY <1>9, <3>1, TextAssoc
    <3> QED
      BY <1>9, <3>2 DEF x
  <2> QED
    BY <1>14, <2>1 DEF Way, Rest, net, write
<1>21. Typed(d)
  <2>1. Count(net) <= 2 * QueueMax /\ QueueMax \in Nat
    BY <1>1, ConstantsAssumption DEF Typed, ConstantsAssumption, net
  <2>2. Count(net) = Count(a) + Count(left) /\ Count(a) \in Nat /\ Count(left) \in Nat
    BY <1>9, CountFacts
  <2>3. Count(left) <= 2 * QueueMax
    BY <2>1, <2>2
  <2> QED
    BY <1>14, <2>3 DEF Typed, Rest
<1>22. ReqInv(d)
  BY <1>14, <1>19, <1>20, <1>21, QueuesKeep DEF Reading
<1>23. ASSUME left # <<>>, left[1] = "END" PROVE d.fin /\ d.q.write = <<>> /\ d.q.net = <<"END">>
  <2>1. Len(left) > 0
    BY <1>9, <1>15, <1>23, EmptySeq DEF Texts
  <2>2. 1 \in 1..Len(left) /\ 1 \in DOMAIN t /\ t[1] = left[1]
    BY <1>15, <1>6, <2>1
  <2>3. c.fin /\ 1 = Len(t)
    BY <1>18, <1>23, <2>2
  <2>4. Len(left) = 1 /\ Len(write) = 0
    <3> DEFINE k == Len(left)
               l == Len(write)
               m == Len(t)
    <3>1. k \in Nat /\ l \in Nat /\ m = k + l /\ k > 0 /\ 1 = m
      BY <1>15, <1>6, <2>1, <2>3
    <3> HIDE DEF k, l, m
    <3>2. k = 1 /\ l = 0
      BY <3>1
    <3> QED
      BY <3>2 DEF k, l
  <2>5. write = <<>>
    BY <1>1, <2>4, EmptySeq DEF Texts
  <2>6. left = <<"END">>
    <3>1. left \in Seq(Items) /\ DOMAIN left = 1..1
      BY <1>9, <2>4, LenProperties DEF Texts
    <3> DEFINE y == <<"END">>
    <3>2. "END" \in Items
      BY DEF Items
    <3>3. y \in Texts /\ Len(y) = 1 /\ y[1] = "END"
      BY <3>2, OnlyOne
    <3> HIDE DEF y
    <3>4. left = y
      BY <1>9, <1>23, <2>4, <3>3, SeqEqual DEF Texts
    <3> QED
      BY <3>4 DEF y
  <2> QED
    BY <1>14, <2>3, <2>5, <2>6 DEF Rest
<1>24. CASE left # <<>> /\ left[1] = "END"
  BY <1>12, <1>22, <1>23, <1>24, ConnectorKeeps
<1>25. CASE ~(left # <<>> /\ left[1] = "END")
  BY <1>12, <1>22, <1>25
<1> QED
  BY <1>24, <1>25

-----------------------------------------------------------------------------
(* The input of the program. *)

LEMMA InputKeeps ==
    ASSUME NEW c, ReqInv(c), NEW x \in Texts, NEW y \in Texts, Len(y) <= PipeMax
    PROVE  ReqInv([c EXCEPT !.q.cgi = x, !.pipe["in"] = y])
<1> DEFINE q == [c.q EXCEPT !.cgi = x]
           p == [c.pipe EXCEPT !["in"] = y]
           d == [c EXCEPT !.q = q, !.pipe = p]
<1>1. c \in ReqType /\ Typed(c) /\ c.q \in Queues /\ c.pipe \in Pipes
  BY DEF ReqInv, Typed, ReqType
<1>2. [c EXCEPT !.q.cgi = x, !.pipe["in"] = y] = d
  BY <1>1 DEF ReqType
<1>3. q \in Queues /\ q.net = c.q.net /\ q.write = c.q.write
  BY <1>1 DEF Queues
<1>4. p \in Pipes /\ \A ch \in Outputs : p[ch] = c.pipe[ch]
  BY <1>1 DEF Pipes, Channels, Outputs
<1> HIDE DEF q, p
<1>5. d \in ReqType
  BY ZenonT(40), <1>1, <1>3, <1>4 DEF ReqType
<1>6. /\ d.fds = c.fds /\ d.on = c.on /\ d.eofs = c.eofs /\ d.complete = c.complete
      /\ d.error = c.error /\ d.noBody = c.noBody
      /\ d.fin = c.fin /\ d.finOut = c.finOut /\ d.finConn = c.finConn
      /\ d.proc = c.proc /\ d.pid = c.pid /\ d.script = c.script /\ d.killed = c.killed
      /\ d.closed = c.closed
      /\ d.location = c.location /\ d.seen = c.seen /\ d.held = c.held
      /\ d.pipe = p /\ d.wrote = c.wrote
      /\ d.sent = c.sent /\ d.q = q /\ d.todo = c.todo /\ d.channel = c.channel /\ d.state = c.state
  BY <1>1 DEF ReqType
<1> HIDE DEF d
<1>7. \A ch \in Outputs : d.pipe[ch] = c.pipe[ch]
  BY <1>4, <1>6
<1>8. Typed(d)
  BY <1>1, <1>3, <1>5, <1>6 DEF Typed
<1> SUFFICES ASSUME Clean(d) PROVE Facts(d)
  BY <1>2, <1>8 DEF ReqInv
<1>9. Clean(c) /\ Facts(c)
  BY <1>6 DEF ReqInv, Clean
<1>10. ProgramFacts(d)
  BY <1>6, <1>7, <1>9 DEF Facts, ProgramFacts, Drained, NoWrites, OutputsClosed
<1>11. EndFacts(d)
  BY ZenonT(40), <1>3, <1>6, <1>9 DEF Facts, EndFacts
<1>12. HeaderFacts(d)
  <2>1. "out" \in Outputs
    BY DEF Outputs
  <2>2. d.pipe["out"] = c.pipe["out"]
    BY <1>7, <2>1
  <2> QED
    BY <1>6, <1>9, <2>2 DEF Facts, HeaderFacts
<1>13. OutputFacts(d)
  BY <1>3, <1>6, <1>7, <1>9 DEF Facts, OutputFacts, Reading, Way
<1> QED
  BY <1>10, <1>11, <1>12, <1>13 DEF Facts

LEMMA CgiQueueTyped ==
    ASSUME NEW c, Typed(c), NEW x \in Texts
    PROVE  Typed([c EXCEPT !.q.cgi = x])
<1> DEFINE q == [c.q EXCEPT !.cgi = x]
           d == [c EXCEPT !.q = q]
<1>1. c \in ReqType /\ c.q \in Queues
  BY DEF Typed, ReqType
<1>2. q \in Queues /\ q.net = c.q.net
  BY <1>1 DEF Queues
<1>3. [c EXCEPT !.q.cgi = x] = d
  BY <1>1 DEF ReqType
<1> HIDE DEF q
<1>4. d \in ReqType /\ d.q = q
  BY ZenonT(40), <1>1, <1>2 DEF ReqType
<1> HIDE DEF d
<1> QED
  BY <1>2, <1>3, <1>4 DEF Typed

\* Without a reader the request becomes an error page; otherwise the input moves on.
LEMMA FromBrowserKeeps == ASSUME NEW c, ReqInv(c) PROVE ReqInv(browserToCgiService(c))
<1> DEFINE body == Data(c.q.cgi)
           free == PipeMax - Len(c.pipe["in"])
           n == IF Len(body) < free THEN Len(body) ELSE free
           a == SubSeq(body, 1, n)
           left == SubSeq(body, n + 1, Len(body))
           z == CloseFd(c, "in")
           y == [z EXCEPT !.q.cgi = <<>>]
           w == [c EXCEPT !.q.cgi = left, !.pipe["in"] = c.pipe["in"] \o a]
           broken == body # <<>> /\ ("in" \notin c.fds \/ c.proc # "running")
           d == IF broken THEN Error(y, FALSE) ELSE w
<1>1. c \in ReqType /\ c.q.cgi \in Texts /\ c.pipe["in"] \in Texts /\ PipeMax \in Nat
      /\ Len(c.pipe["in"]) <= PipeMax /\ Len(c.pipe["in"]) \in Nat
  <2>1. c \in ReqType /\ c.q.cgi \in Texts /\ c.pipe \in Pipes
    BY DEF ReqInv, Typed, ReqType, Queues
  <2>2. c.pipe["in"] \in Texts /\ Len(c.pipe["in"]) <= PipeMax
    BY <2>1 DEF Pipes, Channels
  <2> QED
    BY <2>1, <2>2, LenBasics, ConstantsAssumption DEF ConstantsAssumption
<1>2. body \in Texts /\ Len(body) \in Nat
  BY <1>1, OnlyType, LenBasics DEF Data, Without
<1>3. browserToCgiService(c) =
        CASE d.q.cgi # <<>> -> Enable(d, {"in"})
          [] d.q.cgi = <<>> /\ d.eof -> CloseFd(d, "in")
          [] d.q.cgi = <<>> /\ ~d.eof -> Disable(d, {"in"})
  <2>1. [c EXCEPT !.q.cgi = left, !.pipe["in"] = @ \o a] = w
    <3> HIDE DEF left, a
    <3> QED
      BY <1>1 DEF ReqType
  <2> HIDE DEF w
  <2> QED
    BY <2>1 DEF browserToCgiService
<1>4. free \in Nat /\ n \in 0..Len(body) /\ n <= free
  <2> HIDE DEF body
  <2>1. free \in Nat
    BY <1>1
  <2> HIDE DEF free
  <2> QED
    BY <1>2, <2>1
<1> HIDE DEF body, n
<1>5. a \in Texts /\ left \in Texts /\ Len(a) = n
  BY <1>2, <1>4, TextSplit
<1> HIDE DEF a, left
<1>6. c.pipe["in"] \o a \in Texts /\ Len(c.pipe["in"] \o a) <= PipeMax
  <2> DEFINE p == c.pipe["in"]
  <2>1. p \in Texts /\ Len(p) \in Nat /\ n <= PipeMax - Len(p) /\ n \in Nat
    BY <1>1, <1>2, <1>4
  <2> HIDE DEF p
  <2>2. p \o a \in Texts /\ Len(p \o a) = Len(p) + Len(a)
    BY <1>5, <2>1, ConcatItem
  <2>3. Len(p \o a) <= PipeMax
    BY <1>1, <1>5, <2>1, <2>2
  <2> QED
    BY <2>2, <2>3 DEF p
<1>7. ReqInv(w)
  BY <1>5, <1>6, InputKeeps
<1>8. ReqInv(z)
  BY CloseKeeps DEF Channels, Outputs
<1> HIDE DEF z
<1>9. Typed(y)
  <2>1. <<>> \in Texts
    BY <1>2, TextUnit
  <2> QED
    BY <1>8, <2>1, CgiQueueTyped DEF ReqInv
<1> HIDE DEF y
<1>10. ReqInv(Error(y, FALSE))
  BY <1>9, ErrorKeeps
<1> HIDE DEF w, broken
<1>11. ReqInv(d)
  BY <1>7, <1>10
<1> HIDE DEF d
<1>12. ReqInv(Enable(d, {"in"})) /\ ReqInv(Disable(d, {"in"}))
  BY <1>11, EventsKept
<1>13. ReqInv(CloseFd(d, "in"))
  BY <1>11, CloseKeeps DEF Channels, Outputs
<1>14. \/ d.q.cgi # <<>> \/ (d.q.cgi = <<>> /\ d.eof) \/ (d.q.cgi = <<>> /\ ~d.eof)
  OBVIOUS
<1> QED
  BY <1>3, <1>12, <1>13, <1>14

LEMMA EndInputKeeps == ASSUME NEW c, ReqInv(c) PROVE ReqInv(EndInput(c))
<1> DEFINE k == mprDestroyCmd(c)
           d == IF c.body > 0 THEN Error(k, FALSE) ELSE c
<1>1. c \in ReqType /\ Typed(c)
  BY DEF ReqInv, Typed
<1>2. Typed(k)
  <2> DEFINE b == c.callback
             e == [c EXCEPT !.callback = b]
  <2>1. b \in BOOLEAN /\ e = c
    BY <1>1 DEF ReqType
  <2> HIDE DEF b
  <2>2. Typed(mprDestroyCmd(e))
    BY <1>1, <2>1, DestroyForm
  <2> QED
    BY <2>1, <2>2
<1> HIDE DEF k
<1>3. ReqInv(Error(k, FALSE))
  BY <1>2, ErrorKeeps
<1>4. ReqInv(d)
  BY <1>3
<1>5. EndInput(c) = Put(d, "cgi", <<"END">>)
  BY DEF EndInput, k
<1> HIDE DEF d
<1>6. "END" \in Items
  BY DEF Items
<1>7. <<"END">> \in Texts
  BY <1>6, OnlyOne
<1>8. Calm(d, Put(d, "cgi", <<"END">>))
  <2> DEFINE x == <<"END">>
  <2> HIDE DEF x
  <2>1. x \in Texts /\ d \in ReqType
    BY <1>4, <1>7 DEF x, ReqInv, Typed
  <2>2. Calm(d, Put(d, "cgi", x))
    BY <2>1, PutInput
  <2> QED
    BY <2>2 DEF x
<1> QED
  BY <1>4, <1>5, <1>8, CalmKeeps

-----------------------------------------------------------------------------
(* The output of the program. *)

LEMMA TextHead ==
    ASSUME NEW s \in Texts, s # <<>>
    PROVE  /\ Head(s) \in Items /\ Tail(s) \in Texts /\ Len(Tail(s)) = Len(s) - 1
           /\ s = <<Head(s)>> \o Tail(s)
           /\ Head(s) = s[1] /\ 1 \in DOMAIN s
           /\ \A i \in DOMAIN Tail(s) : i + 1 \in DOMAIN s /\ Tail(s)[i] = s[i + 1]
<1>1. Len(s) \in Nat /\ DOMAIN s = 1..Len(s) /\ s \in Seq(Items)
  BY LenBasics DEF Texts
<1>2. /\ Head(s) \in Items /\ Tail(s) \in Texts /\ Len(Tail(s)) = Len(s) - 1
      /\ \A i \in 1..Len(Tail(s)) : Tail(s)[i] = s[i + 1]
  BY <1>1, HeadTailProperties DEF Texts
<1>3. Len(s) > 0
  BY <1>1, EmptySeq
<1>4. Head(s) = s[1]
  OBVIOUS
<1> DEFINE h == <<Head(s)>>
           t == Tail(s)
<1>5. h \in Texts /\ Len(h) = 1 /\ h[1] = s[1]
  BY <1>2, <1>4, OnlyOne
<1> HIDE DEF h
<1>6. DOMAIN t = 1..(Len(s) - 1)
  BY <1>2, LenBasics
<1>7. ASSUME NEW i \in DOMAIN t PROVE i + 1 \in DOMAIN s /\ t[i] = s[i + 1]
  BY <1>1, <1>2, <1>6, <1>7
<1> HIDE DEF t
<1>8. s = h \o t
  <2> DEFINE u == h \o t
  <2>1. /\ u \in Texts /\ Len(u) = Len(h) + Len(t)
        /\ \A i \in 1..Len(h) : u[i] = h[i]
        /\ \A i \in 1..Len(t) : u[Len(h) + i] = t[i]
    BY <1>2, <1>5, ConcatItem DEF t
  <2> HIDE DEF u
  <2>2. Len(t) = Len(s) - 1
    BY <1>2 DEF t
  <2>3. Len(u) = Len(s)
    BY <1>1, <1>5, <2>1, <2>2
  <2>4. ASSUME NEW i \in 1..Len(s) PROVE u[i] = s[i]
    <3>1. CASE i = 1
      BY <1>5, <2>1, <3>1
    <3>2. CASE i # 1
      <4> DEFINE j == i - 1
      <4>1. j \in 1..Len(t) /\ j + 1 = i /\ 1 + j = i /\ j \in DOMAIN t
        BY <1>1, <1>6, <2>2, <3>2
      <4> HIDE DEF j
      <4>2. u[1 + j] = t[j]
        BY <1>5, <2>1, <4>1
      <4>3. t[j] = s[j + 1]
        BY <1>7, <4>1
      <4> QED
        BY <4>1, <4>2, <4>3
    <3> QED
      BY <3>1, <3>2
  <2>5. u = s
    BY <1>1, <2>1, <2>3, <2>4, SeqEqual DEF Texts
  <2> QED
    BY <2>5 DEF u
<1> QED
  BY <1>1, <1>2, <1>3, <1>4, <1>7, <1>8 DEF h, t

LEMMA TailTasks ==
    ASSUME NEW t \in Seq(Tasks), t # <<>>
    PROVE  Tail(t) \in Seq(Tasks) /\ ToSet(Tail(t)) \subseteq ToSet(t)
<1> DEFINE u == Tail(t)
<1>1. u \in Seq(Tasks) /\ Len(u) = Len(t) - 1 /\ \A i \in 1..Len(u) : u[i] = t[i + 1]
  BY HeadTailProperties
<1>2. DOMAIN u = 1..Len(u) /\ DOMAIN t = 1..Len(t) /\ Len(t) \in Nat
  BY <1>1, LenProperties
<1> HIDE DEF u
<1>3. ASSUME NEW i \in DOMAIN u PROVE u[i] \in ToSet(t)
  <2>1. i + 1 \in DOMAIN t /\ u[i] = t[i + 1]
    BY <1>1, <1>2
  <2> QED
    BY <2>1 DEF ToSet
<1> QED
  BY <1>1, <1>3 DEF ToSet, u

\* The next task begins.
LEMMA DoneKeeps ==
    ASSUME NEW c, ReqInv(c), c.todo # <<>>
    PROVE  LET d == [c EXCEPT !.todo = Tail(@)]
           IN  /\ ReqInv(d) /\ Same(c, d) /\ d.state = c.state /\ d.channel = c.channel /\ d.on = c.on
               /\ (Reading(c) => Reading(d))
               /\ Head(c.todo) = "read" /\ Clean(c) => c.channel \in Outputs
<1> DEFINE t == Tail(c.todo)
           d == [c EXCEPT !.todo = t]
<1>1. c \in ReqType /\ c.todo \in Seq(Tasks)
  BY DEF ReqInv, Typed, ReqType
<1>2. t \in Seq(Tasks) /\ ToSet(t) \subseteq ToSet(c.todo)
  BY <1>1, TailTasks
<1>3. Head(c.todo) \in ToSet(c.todo)
  <2>1. 1 \in DOMAIN c.todo /\ Head(c.todo) = c.todo[1]
    <3>1. Len(c.todo) \in Nat /\ Len(c.todo) # 0 /\ DOMAIN c.todo = 1..Len(c.todo)
      BY <1>1, LenProperties, EmptySeq
    <3> QED
      BY <3>1
  <2> QED
    BY <2>1 DEF ToSet
<1> HIDE DEF t
<1>4. d \in ReqType
  BY ZenonT(40), <1>1, <1>2 DEF ReqType
<1>5. Same(c, d) /\ d.state = c.state /\ d.channel = c.channel /\ d.on = c.on /\ d.todo = t
  BY ZenonT(40), <1>1, <1>4 DEF ReqType, Same, Rest
<1>6. d = [c EXCEPT !.todo = Tail(@)]
  BY DEF t
<1> HIDE DEF d
<1>7. Reading(c) => Reading(d)
  BY <1>2, <1>5 DEF Reading
<1>8. ReqInv(d)
  BY <1>5, <1>7, Frame
<1>9. Head(c.todo) = "read" /\ Clean(c) => c.channel \in Outputs
  BY <1>3 DEF ReqInv, Facts, OutputFacts, Reading
<1> QED
  BY <1>5, <1>6, <1>7, <1>8, <1>9

\* An item of a pipe is read, and text is written to the client.
Taken(c, d, ch, text) ==
    /\ Typed(d)
    /\ d.error = c.error /\ d.noBody = c.noBody
    /\ d.fin = c.fin /\ d.finOut = c.finOut /\ d.finConn = c.finConn
    /\ d.proc = c.proc /\ d.pid = c.pid /\ d.script = c.script /\ d.killed = c.killed
    /\ d.fds = c.fds /\ d.eofs = c.eofs /\ d.complete = c.complete /\ d.closed = c.closed
    /\ d.on = c.on /\ d.channel = c.channel /\ d.state = c.state
    /\ d.wrote = c.wrote /\ d.sent = c.sent
    /\ d.pipe = [c.pipe EXCEPT ![ch] = Tail(@)]
    /\ d.q.net = c.q.net /\ d.q.write = c.q.write \o text
    /\ (Reading(c) => Reading(d))

LEMMA TakenKeeps ==
    ASSUME NEW c, NEW d, NEW ch, NEW text \in Texts, ReqInv(c), Clean(c),
           ~c.fin, ch \in Outputs \cap c.fds, c.pipe[ch] # <<>>,
           Taken(c, d, ch, text), HeaderFacts(d),
           \A i \in DOMAIN text : text[i] # "END",
           ~d.location => ~c.location /\ \A o \in Outputs :
              Text(text, o) = IF o = ch THEN Text(<<Head(c.pipe[ch])>>, o) ELSE <<>>
    PROVE  ReqInv(d)
<1>1. Facts(c) /\ c \in ReqType /\ d \in ReqType /\ Typed(d)
  BY DEF ReqInv, Taken, Typed
<1> SUFFICES Facts(d)
  BY <1>1 DEF ReqInv
<1>2. c.pipe \in Pipes /\ ch \in Channels /\ c.q.net \in Texts /\ c.q.write \in Texts
  BY <1>1 DEF ReqType, Queues, Channels
<1>3. c.pipe[ch] \in Texts
  BY <1>2 DEF Pipes
<1>4. d.pipe[ch] = Tail(c.pipe[ch]) /\ \A o \in Outputs \ {ch} : d.pipe[o] = c.pipe[o]
  BY <1>2 DEF Taken, Pipes, Outputs, Channels
<1>5. ProgramFacts(d)
  <2>1. \A o \in Outputs \ d.fds : Drained(d, o)
    BY <1>1, <1>4 DEF Facts, ProgramFacts, Taken, Drained, NoWrites
  <2> QED
    BY <1>1, <2>1 DEF Facts, ProgramFacts, Taken, OutputsClosed
<1>6. EndFacts(d)
  <2> DEFINE s == c.q.net \o c.q.write
             t == d.q.net \o d.q.write
  <2>1. \A i \in DOMAIN s : s[i] # "END"
    BY <1>1 DEF Facts, EndFacts
  <2>2. t = s \o text
    <3> DEFINE n == c.q.net
               w == c.q.write
    <3>1. n \in Texts /\ w \in Texts /\ t = n \o (w \o text)
      BY <1>2 DEF Taken
    <3> HIDE DEF n, w, t
    <3>2. n \o (w \o text) = (n \o w) \o text
      BY <3>1, TextAssoc
    <3> QED
      BY <3>1, <3>2 DEF n, w
  <2>3. s \in Texts
    BY <1>2, TextJoin
  <2> HIDE DEF s, t
  <2>4. \A i \in DOMAIN t : t[i] # "END"
    <3>1. /\ Len(s) \in Nat /\ Len(text) \in Nat
          /\ DOMAIN s = 1..Len(s) /\ DOMAIN text = 1..Len(text) /\ DOMAIN t = 1..(Len(s) + Len(text))
          /\ \A i \in 1..Len(s) : t[i] = s[i]
          /\ \A i \in 1..Len(text) : t[Len(s) + i] = text[i]
      BY <2>2, <2>3, ConcatItem
    <3> SUFFICES ASSUME NEW i \in DOMAIN t PROVE t[i] # "END"
      OBVIOUS
    <3>2. CASE i \in 1..Len(s)
      BY <2>1, <3>1, <3>2
    <3>3. CASE i \notin 1..Len(s)
      <4> DEFINE j == i - Len(s)
      <4>1. j \in 1..Len(text) /\ i = Len(s) + j
        BY <3>1, <3>3
      <4> HIDE DEF j
      <4> QED
        BY <3>1, <4>1
    <3> QED
      BY <3>2, <3>3
  <2>5. EndFacts(c)
    BY <1>1 DEF Facts
  <2>6. ~c.finConn /\ ~c.finOut
    BY <2>5 DEF EndFacts
  <2> QED
    BY <2>4, <2>5, <2>6 DEF EndFacts, Taken, t
<1>7. OutputFacts(d)
  <2>1. OutputFacts(c)
    BY <1>1 DEF Facts
  <2>2. ASSUME NEW o \in Outputs, NEW i \in DOMAIN d.pipe[o]
        PROVE  ChannelOf(d.pipe[o][i]) = o /\ d.pipe[o][i] \notin {"HDR", "END"}
    <3>1. CASE o = ch
      <4> DEFINE t == Tail(c.pipe[ch])
      <4>1. d.pipe[o] = t
        BY <1>4, <3>1
      <4>2. i + 1 \in DOMAIN c.pipe[ch] /\ t[i] = c.pipe[ch][i + 1]
        BY <1>3, <2>2, <4>1, TextHead
      <4> HIDE DEF t
      <4> QED
        BY <2>1, <3>1, <4>1, <4>2 DEF OutputFacts
    <3>2. CASE o # ch
      BY <1>4, <2>1, <2>2, <3>2 DEF OutputFacts
    <3> QED
      BY <3>1, <3>2
  <2>3. ASSUME NEW o \in Outputs, ~d.location PROVE Text(Way(d, o), o) = Text(Way(c, o), o)
    <3> DEFINE a == Text(c.sent, o)
               b == Text(c.q.net, o)
               w == Text(c.q.write, o)
               v == Text(d.q.write, o)
               p == Text(c.pipe[o], o)
               x == Text(d.pipe[o], o)
               y == Text(text, o)
    <3>1. Text(Way(c, o), o) = ((a \o b) \o w) \o p /\ c.sent \in Texts /\ c.pipe[o] \in Texts
      BY <1>1, WayText
    <3>2. Text(Way(d, o), o) = ((a \o b) \o v) \o x /\ d.pipe[o] \in Texts
      BY ZenonT(40), <1>1, WayText DEF Taken
    <3>3. a \in Texts /\ b \in Texts /\ w \in Texts /\ p \in Texts /\ x \in Texts /\ y \in Texts
      BY <1>2, <3>1, <3>2, TextFacts
    <3>4. v = w \o y
      <4> DEFINE k == c.q.write
      <4>1. k \in Texts /\ d.q.write = k \o text
        BY <1>2 DEF Taken
      <4> HIDE DEF k
      <4>2. Text(k \o text, o) = Text(k, o) \o Text(text, o)
        BY <4>1, TextFacts
      <4> QED
        BY <4>1, <4>2 DEF k
    <3>5. p = y \o x
      <4>1. CASE o = ch
        <5> DEFINE h == <<Head(c.pipe[ch])>>
                   t == Tail(c.pipe[ch])
        <5>1. c.pipe[ch] = h \o t /\ h \in Texts /\ t \in Texts
          BY <1>3, TextHead, OnlyOne
        <5>2. y = Text(h, o) /\ x = Text(t, o)
          BY <1>4, <2>3, <4>1
        <5> HIDE DEF h, t, x, y
        <5>3. Text(h \o t, o) = Text(h, o) \o Text(t, o)
          BY <5>1, TextFacts
        <5> QED
          BY <4>1, <5>1, <5>2, <5>3
      <4>2. CASE o # ch
        <5>1. y = <<>> /\ x = p
          BY <1>4, <2>3, <4>2
        <5> HIDE DEF x, p, y
        <5> QED
          BY <3>3, <5>1, TextUnit
      <4> QED
        BY <4>1, <4>2
    <3> HIDE DEF a, b, w, v, p, x, y
    <3> DEFINE ab == a \o b
    <3>6. ab \in Texts /\ y \o x \in Texts
      BY <3>3, TextJoin
    <3> HIDE DEF ab
    <3>7. (ab \o (w \o y)) \o x = (ab \o w) \o (y \o x)
      <4>1. (ab \o w) \o y = ab \o (w \o y)
        <5>1. ab \in Texts /\ w \in Texts /\ y \in Texts
          BY <3>3, <3>6
        <5> QED
          BY ZenonT(40), <5>1, TextAssoc
      <4> DEFINE k == ab \o w
      <4> HIDE DEF k
      <4>2. (k \o y) \o x = k \o (y \o x)
        <5>1. k \in Texts
          BY <3>3, <3>6, TextJoin DEF k
        <5>2. y \in Texts /\ x \in Texts
          BY <3>3
        <5> QED
          BY ZenonT(40), <5>1, <5>2, TextAssoc
      <4> QED
        BY <4>1, <4>2 DEF k
    <3> QED
      BY <3>1, <3>2, <3>4, <3>5, <3>7 DEF ab
  <2>4. ~d.location => \A o \in Outputs : Text(Way(d, o), o) = Text(d.wrote, o)
    BY <2>1, <2>3 DEF OutputFacts, Taken
  <2> QED
    BY <2>1, <2>2, <2>4 DEF OutputFacts, Taken
<1> QED
  BY <1>5, <1>6, <1>7 DEF Facts


TakenAs(c, ch, held, seen, location, todo) ==
    [c EXCEPT !.pipe[ch] = Tail(@), !.held = held, !.seen = seen, !.location = location,
              !.todo = todo]

LEMMA TakenForm ==
    ASSUME NEW c, Typed(c), NEW ch \in Channels, c.pipe[ch] # <<>>,
           NEW x \in Texts, NEW b \in BOOLEAN, NEW l \in BOOLEAN,
           NEW t \in Seq(Tasks), ToSet(t) \subseteq ToSet(c.todo)
    PROVE  LET e == TakenAs(c, ch, x, b, l, t)
           IN  /\ Taken(c, e, ch, <<>>) /\ Typed(e)
               /\ e.held = x /\ e.seen = b /\ e.location = l
<1> DEFINE p == [c.pipe EXCEPT ![ch] = Tail(@)]
           e1 == [c EXCEPT !.pipe = p, !.held = x]
           e2 == [e1 EXCEPT !.seen = b]
           e3 == [e2 EXCEPT !.location = l]
           e == [e3 EXCEPT !.todo = t]
<1>1. c \in ReqType /\ c.pipe \in Pipes /\ c.q.write \in Texts /\ PipeMax \in Nat
  BY ConstantsAssumption DEF Typed, ReqType, Queues, ConstantsAssumption
<1>2. c.pipe[ch] \in Texts /\ Len(c.pipe[ch]) <= PipeMax
  BY <1>1 DEF Pipes
<1>3. Tail(c.pipe[ch]) \in Texts /\ Len(Tail(c.pipe[ch])) <= PipeMax
  <2>1. Tail(c.pipe[ch]) \in Texts /\ Len(Tail(c.pipe[ch])) = Len(c.pipe[ch]) - 1
    BY <1>2, TextHead
  <2>2. Len(c.pipe[ch]) \in Nat
    BY <1>2, LenBasics
  <2> QED
    BY <1>1, <1>2, <2>1, <2>2
<1>4. p \in Pipes
  BY <1>1, <1>3 DEF Pipes
<1>5. e = TakenAs(c, ch, x, b, l, t)
  BY <1>1 DEF ReqType, TakenAs
<1>6. e1 \in ReqType
  <2> HIDE DEF p
  <2> QED
    BY ZenonT(40), <1>1, <1>4 DEF ReqType
<1>7. e2 \in ReqType
  <2> HIDE DEF e1
  <2> QED
    BY ZenonT(40), <1>6 DEF ReqType
<1>8. e3 \in ReqType
  <2> HIDE DEF e2
  <2> QED
    BY ZenonT(40), <1>7 DEF ReqType
<1>9. e \in ReqType
  <2> HIDE DEF e3
  <2> QED
    BY ZenonT(40), <1>8 DEF ReqType
<1>10. c.q.write \o <<>> = c.q.write
  BY <1>1, TextUnit
<1>11. /\ e.error = c.error /\ e.noBody = c.noBody
       /\ e.fin = c.fin /\ e.finOut = c.finOut /\ e.finConn = c.finConn
       /\ e.proc = c.proc /\ e.pid = c.pid /\ e.script = c.script /\ e.killed = c.killed
       /\ e.fds = c.fds /\ e.eofs = c.eofs /\ e.complete = c.complete /\ e.closed = c.closed
       /\ e.on = c.on /\ e.channel = c.channel /\ e.state = c.state
       /\ e.wrote = c.wrote /\ e.sent = c.sent /\ e.pipe = p /\ e.q = c.q
       /\ e.held = x /\ e.seen = b /\ e.location = l /\ e.todo = t
  <2> HIDE DEF p
  <2> QED
    BY <1>1 DEF ReqType
<1> HIDE DEF e
<1>12. Typed(e) /\ (Reading(c) => Reading(e))
  BY <1>9, <1>11 DEF Typed, Reading
<1>13. Taken(c, e, ch, <<>>)
  BY <1>10, <1>11, <1>12 DEF Taken
<1> QED
  BY <1>5, <1>11, <1>12, <1>13

\* What was held back and what is read are text for the client.
LEMMA HeldText ==
    ASSUME NEW s \in Texts, NEW i \in Items, \A k \in DOMAIN s : s[k] = "part",
           NEW ch \in Outputs, ChannelOf(i) = ch, i \notin {"HDR", "END"}
    PROVE  /\ Append(s, i) \in Texts
           /\ \A k \in DOMAIN Append(s, i) : Append(s, i)[k] # "END"
           /\ \A o \in Outputs : Text(Append(s, i), o) = IF o = ch THEN Text(<<i>>, o) ELSE <<>>
<1> DEFINE t == Append(s, i)
           h == <<i>>
<1>1. /\ Len(s) \in Nat /\ t \in Texts /\ h \in Texts /\ t = s \o h
      /\ Len(t) = Len(s) + 1 /\ t[Len(s) + 1] = i /\ \A k \in 1..Len(s) : t[k] = s[k]
  BY AppendText
<1>2. DOMAIN s = 1..Len(s)
  BY LenBasics
<1>3. \A o : Text(h, o) = IF i \in Shown(o) THEN h ELSE <<>>
  BY TextFacts
<1> HIDE DEF t, h
<1>4. DOMAIN t = 1..Len(t)
  BY <1>1, LenBasics
<1>5. ASSUME NEW k \in DOMAIN t PROVE t[k] # "END"
  <2>1. k \in 1..Len(s) \/ k = Len(s) + 1
    BY <1>1, <1>4
  <2> QED
    BY <1>1, <1>2, <2>1
<1>6. ASSUME NEW o \in Outputs PROVE Text(t, o) = IF o = ch THEN Text(h, o) ELSE <<>>
  <2>1. Text(s, o) = <<>>
    <3>1. \A k \in 1..Len(s) : s[k] \notin Shown(o)
      BY <1>2 DEF Shown
    <3> QED
      BY <3>1, TextFacts
  <2>2. Text(t, o) = Text(s, o) \o Text(h, o)
    BY <1>1, TextFacts
  <2>3. Text(h, o) \in Texts
    BY <1>1, TextFacts
  <2>4. Text(t, o) = Text(h, o)
    <3> DEFINE y == Text(h, o)
    <3> HIDE DEF y
    <3>1. <<>> \o y = y
      BY <2>3, TextUnit DEF y
    <3> QED
      BY <2>1, <2>2, <3>1 DEF y
  <2>5. o # ch => i \notin Shown(o)
    BY DEF Shown, ChannelOf, Outputs
  <2> QED
    BY <1>3, <2>4, <2>5
<1> QED
  BY <1>1, <1>5, <1>6 DEF t, h

\* Before the header is complete only parts of it are in what was written.
LEMMA BeforeHeader ==
    ASSUME NEW s \in Texts, NEW p \in Texts, p # <<>>,
           \A k \in DOMAIN s : s[k] = "part", Ordered(s \o p, {"part"})
    PROVE  /\ Head(p) \in Headers \cup {"part"}
           /\ Append(s, Head(p)) \o Tail(p) = s \o p
<1> DEFINE i == Head(p)
           h == <<i>>
           t == Tail(p)
           u == s \o p
<1>1. /\ i \in Items /\ t \in Texts /\ p = h \o t /\ i = p[1] /\ h \in Texts
  BY TextHead, OnlyOne
<1>2. /\ Len(s) \in Nat /\ Len(p) \in Nat /\ DOMAIN s = 1..Len(s) /\ DOMAIN u = 1..(Len(s) + Len(p))
      /\ \A k \in 1..Len(s) : u[k] = s[k]
      /\ \A k \in 1..Len(p) : u[Len(s) + k] = p[k]
  BY ConcatItem
<1>3. Len(p) >= 1
  BY <1>2, EmptySeq DEF Texts
<1> DEFINE k == Len(s) + 1
<1>4. \A j \in DOMAIN u : u[j] \in {"part"} \/ \E m \in 1..j : u[m] \in Headers
  BY DEF Ordered
<1>5. Append(s, i) \o t = s \o p
  <2>1. Append(s, i) = s \o h
    BY <1>1, AppendText
  <2> HIDE DEF h, t, i
  <2>2. (s \o h) \o t = s \o (h \o t)
    BY ZenonT(40), <1>1, TextAssoc
  <2> QED
    BY <1>1, <2>1, <2>2
<1> HIDE DEF u, i
<1>6. k \in DOMAIN u /\ u[k] = i
  BY <1>1, <1>2, <1>3
<1>7. ASSUME i # "part" PROVE i \in Headers
  <2>1. PICK m \in 1..k : u[m] \in Headers
    BY <1>4, <1>6, <1>7
  <2>2. CASE m \in 1..Len(s)
    <3>1. u[m] = "part"
      BY <1>2, <2>2
    <3> QED
      BY <2>1, <3>1 DEF Headers
  <2>3. CASE m \notin 1..Len(s)
    <3>1. m = k
      BY <1>2, <2>1, <2>3
    <3> QED
      BY <1>6, <2>1, <3>1
  <2> QED
    BY <2>2, <2>3
<1> QED
  BY <1>5, <1>7 DEF i

\* One item is read.
LEMMA ReadsKeeps ==
    ASSUME NEW c, ReqInv(c), c.todo # <<>>, NEW ch \in Channels, c.pipe[ch] # <<>>, ~c.fin,
           Clean(c) => ch \in Outputs \cap c.fds
    PROVE  ReqInv(Reads(c, ch))
<1> DEFINE i == Head(c.pipe[ch])
           text == Append(c.held, i)
           tail == Tail(c.todo)
           d == [c EXCEPT !.pipe[ch] = Tail(@)]
           done == [d EXCEPT !.todo = Tail(@)]
           z == Reads(c, ch)
           bad == TakenAs(c, ch, text, c.seen, c.location, tail)
           all == TakenAs(c, ch, <<>>, TRUE, i = "loc", c.todo)
           sees == TakenAs(c, ch, c.held, TRUE, c.location, c.todo)
<1>1. c \in ReqType /\ Typed(c) /\ c.held \in Texts /\ c.todo \in Seq(Tasks) /\ c.seen \in BOOLEAN
      /\ c.location \in BOOLEAN /\ c.pipe \in Pipes /\ c.pipe[ch] \in Texts
  BY DEF ReqInv, Typed, ReqType, Pipes
<1>2. i \in Items /\ text \in Texts /\ tail \in Seq(Tasks) /\ ToSet(tail) \subseteq ToSet(c.todo)
  BY <1>1, TextHead, AppendText, TailTasks
<1>3. <<>> \in Texts /\ (i = "loc") \in BOOLEAN
  BY <1>1, TextUnit
<1>4. z = CASE ~c.seen /\ i = "bad" -> Error(bad, FALSE)
            [] ~c.seen /\ i \notin {"bad", "err"} /\ ~parseCgiHeaders(text) -> bad
            [] ~c.seen /\ i # "bad" /\ parseCgiHeaders(text) -> all
            [] OTHER -> IF c.finOut THEN sees ELSE Put(sees, "write", text)
  <2>1. [done EXCEPT !.held = text] = bad
    BY ZenonT(40), <1>1 DEF ReqType, TakenAs
  <2>2. [d EXCEPT !.held = <<>>, !.seen = TRUE, !.location = i = "loc"] = all
    BY ZenonT(40), <1>1 DEF ReqType, TakenAs
  <2>3. [d EXCEPT !.seen = TRUE] = sees
    BY <1>1 DEF ReqType, TakenAs
  <2> HIDE DEF bad, all, sees
  <2> QED
    BY <2>1, <2>2, <2>3 DEF Reads
<1> HIDE DEF i, text, tail
<1>5. /\ Taken(c, bad, ch, <<>>) /\ Typed(bad)
      /\ bad.held = text /\ bad.seen = c.seen /\ bad.location = c.location
  <2> DEFINE b == c.seen
             l == c.location
  <2>1. b \in BOOLEAN /\ l \in BOOLEAN
    BY <1>1
  <2> HIDE DEF b, l
  <2>2. /\ Taken(c, TakenAs(c, ch, text, b, l, tail), ch, <<>>) /\ Typed(TakenAs(c, ch, text, b, l, tail))
        /\ TakenAs(c, ch, text, b, l, tail).held = text /\ TakenAs(c, ch, text, b, l, tail).seen = b
        /\ TakenAs(c, ch, text, b, l, tail).location = l
    BY <1>1, <1>2, <2>1, TakenForm
  <2> QED
    BY <2>2 DEF b, l
<1>6. /\ Taken(c, all, ch, <<>>) /\ Typed(all)
      /\ all.held = <<>> /\ all.seen = TRUE /\ all.location = (i = "loc")
  <2> DEFINE x == <<>>
             b == TRUE
             l == i = "loc"
             t == c.todo
  <2>1. x \in Texts /\ b \in BOOLEAN /\ l \in BOOLEAN /\ t \in Seq(Tasks) /\ ToSet(t) \subseteq ToSet(c.todo)
    BY <1>1, <1>3
  <2>2. all = TakenAs(c, ch, x, b, l, t)
    OBVIOUS
  <2> HIDE DEF x, b, l, t, all
  <2>3. /\ Taken(c, all, ch, <<>>) /\ Typed(all)
        /\ all.held = x /\ all.seen = b /\ all.location = l
    BY <1>1, <2>1, <2>2, TakenForm
  <2> QED
    BY <2>3 DEF x, b, l
<1>7. /\ Taken(c, sees, ch, <<>>) /\ Typed(sees)
      /\ sees.held = c.held /\ sees.seen = TRUE /\ sees.location = c.location
  <2> DEFINE x == c.held
             b == TRUE
             l == c.location
             t == c.todo
  <2>1. x \in Texts /\ b \in BOOLEAN /\ l \in BOOLEAN /\ t \in Seq(Tasks) /\ ToSet(t) \subseteq ToSet(c.todo)
    BY <1>1
  <2>2. sees = TakenAs(c, ch, x, b, l, t)
    OBVIOUS
  <2> HIDE DEF x, b, l, t, sees
  <2>3. /\ Taken(c, sees, ch, <<>>) /\ Typed(sees)
        /\ sees.held = x /\ sees.seen = b /\ sees.location = l
    BY <1>1, <2>1, <2>2, TakenForm
  <2> QED
    BY <2>3 DEF x, b, l
<1> HIDE DEF bad, all, sees
<1> DEFINE put == Put(sees, "write", text)
<1>8. /\ put \in ReqType /\ Kept(sees, put) /\ put.sent = sees.sent
      /\ put.q.write = sees.q.write \o text /\ put.q.net = sees.q.net
  BY <1>2, <1>7, PutOutput DEF Typed
<1> HIDE DEF put
<1>9. Typed(put)
  BY <1>7, <1>8 DEF Typed
<1>10. Taken(c, put, ch, text)
  <2>1. sees.q.write = c.q.write
    BY <1>1, <1>7, TextUnit DEF Taken, ReqType, Queues
  <2> QED
    BY <1>7, <1>8, <1>9, <2>1 DEF Taken, Kept, Rest, Reading
<1>11. /\ put.held = c.held /\ put.seen = TRUE /\ put.location = c.location
  BY <1>7, <1>8 DEF Kept, Rest
<1>12. ReqInv(Error(bad, FALSE))
  BY <1>5, ErrorKeeps
<1>13. CASE ~Clean(c)
  <2>1. ReqInv(bad) /\ ReqInv(all) /\ ReqInv(sees) /\ ReqInv(put)
    BY <1>5, <1>6, <1>7, <1>9, <1>10, <1>13, NotClean DEF Taken, Clean
  <2> QED
    BY <1>4, <1>12, <2>1 DEF put
<1>14. CASE Clean(c)
  <2>1. Facts(c) /\ ch \in Outputs /\ ch \in c.fds
    BY <1>14 DEF ReqInv
  <2>2. /\ \A k \in DOMAIN c.held : c.held[k] = "part"
        /\ c.location => c.seen
        /\ ~c.seen => Out(c.wrote) = c.held \o c.pipe["out"]
        /\ Ordered(Out(c.wrote), {"part"})
        /\ HasHeader(Out(c.wrote)) \/ Ordered(c.script, Silent \cup {"part", "err"})
    BY <2>1 DEF Facts, HeaderFacts
  <2>3. ChannelOf(i) = ch /\ i \notin {"HDR", "END"}
    <3>1. 1 \in DOMAIN c.pipe[ch] /\ i = c.pipe[ch][1]
      BY <1>1, TextHead DEF i
    <3> QED
      BY <2>1, <3>1 DEF Facts, OutputFacts
  <2>4. /\ \A k \in DOMAIN text : text[k] # "END"
        /\ \A o \in Outputs : Text(text, o) = IF o = ch THEN Text(<<i>>, o) ELSE <<>>
    BY <1>1, <1>2, <2>1, <2>2, <2>3, HeldText DEF text
  <2>5. ASSUME ~c.seen, i # "err"
        PROVE  /\ ch = "out" /\ i \in Headers \cup {"part"}
               /\ text \o Tail(c.pipe[ch]) = Out(c.wrote)
    <3>1. ch = "out"
      BY <2>3, <2>5 DEF ChannelOf
    <3> DEFINE s == c.held
               p == c.pipe[ch]
    <3>2. s \in Texts /\ p \in Texts /\ p # <<>> /\ (\A k \in DOMAIN s : s[k] = "part") /\ Ordered(s \o p, {"part"})
          /\ Out(c.wrote) = s \o p
      BY <1>1, <2>2, <2>5, <3>1
    <3> HIDE DEF s, p
    <3>3. Head(p) \in Headers \cup {"part"} /\ Append(s, Head(p)) \o Tail(p) = s \o p
      BY <3>2, BeforeHeader
    <3> QED
      BY <3>1, <3>2, <3>3 DEF s, p, i, text
  <2>6. CASE ~c.seen /\ i = "bad"
    BY <1>4, <1>12, <2>6
  <2>7. CASE ~c.seen /\ i \notin {"bad", "err"} /\ ~parseCgiHeaders(text)
    <3>1. z = bad
      BY <1>4, <2>7
    <3>2. i = "part"
      <4>1. text[Len(c.held) + 1] = i /\ Len(text) = Len(c.held) + 1 /\ Len(c.held) \in Nat
        BY <1>1, <1>2, AppendText DEF text
      <4>2. Contains(text, i)
        BY <4>1 DEF Contains
      <4> QED
        BY <2>5, <2>7, <4>2 DEF parseCgiHeaders, Headers
    <3>3. \A k \in DOMAIN text : text[k] = "part"
      <4>1. /\ Len(c.held) \in Nat /\ Len(text) = Len(c.held) + 1 /\ text[Len(c.held) + 1] = i
            /\ \A k \in 1..Len(c.held) : text[k] = c.held[k]
        BY <1>1, <1>2, AppendText DEF text
      <4>2. DOMAIN c.held = 1..Len(c.held) /\ DOMAIN text = 1..Len(text)
        BY <1>1, <1>2, LenBasics
      <4> SUFFICES ASSUME NEW k \in DOMAIN text PROVE text[k] = "part"
        OBVIOUS
      <4>3. k \in 1..Len(c.held) \/ k = Len(c.held) + 1
        BY <4>1, <4>2
      <4> QED
        BY <2>2, <3>2, <4>1, <4>2, <4>3
    <3>4. bad.pipe["out"] = Tail(c.pipe["out"]) /\ bad.wrote = c.wrote /\ bad.script = c.script
      BY <1>1, <1>5, <2>5, <2>7 DEF Taken, Pipes
    <3>5. HeaderFacts(bad)
      BY <1>5, <2>2, <2>5, <2>7, <3>3, <3>4 DEF HeaderFacts
    <3>6. ~c.location
      BY <2>2, <2>7
    <3>7. \A o \in Outputs : Text(<<>>, o) = IF o = ch THEN Text(<<i>>, o) ELSE <<>>
      <4>1. ch = "out" /\ i \notin Shown(ch)
        BY <2>5, <2>7, <3>2 DEF Shown
      <4>2. Text(<<i>>, ch) = <<>>
        BY <1>2, <4>1, TextFacts
      <4> QED
        BY <4>2, TextFacts
    <3>8. \A k \in DOMAIN <<>> : <<>>[k] # "END"
      OBVIOUS
    <3>9. ReqInv(bad)
      BY <1>3, <1>5, <1>14, <2>1, <3>5, <3>6, <3>7, <3>8, TakenKeeps DEF i
    <3> QED
      BY <3>1, <3>9
  <2>8. CASE ~c.seen /\ i # "bad" /\ parseCgiHeaders(text)
    <3>1. z = all
      BY <1>4, <2>8
    <3>2. i \in {"head", "rest", "loc"}
      <4>1. PICK h \in {"head", "rest", "loc"} : Contains(text, h)
        BY <2>8 DEF parseCgiHeaders
      <4>2. /\ Len(c.held) \in Nat /\ Len(text) = Len(c.held) + 1 /\ text[Len(c.held) + 1] = i
            /\ \A k \in 1..Len(c.held) : text[k] = c.held[k]
        BY <1>1, <1>2, AppendText DEF text
      <4>3. DOMAIN c.held = 1..Len(c.held)
        BY <1>1, LenBasics
      <4>4. PICK k \in 1..Len(text) : text[k] = h
        BY <4>1 DEF Contains
      <4>5. k \notin 1..Len(c.held)
        BY <2>2, <4>1, <4>2, <4>3, <4>4
      <4>6. k = Len(c.held) + 1
        BY <4>2, <4>4, <4>5
      <4> QED
        BY <4>1, <4>2, <4>4, <4>6
    <3>3. all.wrote = c.wrote /\ all.script = c.script
      BY <1>6 DEF Taken
    <3>4. HeaderFacts(all)
      <4>1. DOMAIN <<>> = {}
        OBVIOUS
      <4> QED
        BY <1>6, <2>2, <3>3, <4>1 DEF HeaderFacts
    <3>5. ~c.location
      BY <2>2, <2>8
    <3>6. ASSUME i # "loc" PROVE \A o \in Outputs : Text(<<>>, o) = IF o = ch THEN Text(<<i>>, o) ELSE <<>>
      <4>1. ch = "out" /\ i \notin Shown(ch)
        BY <2>5, <2>8, <3>2, <3>6 DEF Shown
      <4>2. Text(<<i>>, ch) = <<>>
        BY <1>2, <4>1, TextFacts
      <4> QED
        BY <4>2, TextFacts
    <3>7. \A k \in DOMAIN <<>> : <<>>[k] # "END"
      OBVIOUS
    <3>8. ReqInv(all)
      BY <1>3, <1>6, <1>14, <2>1, <3>4, <3>5, <3>6, <3>7, TakenKeeps DEF i
    <3> QED
      BY <3>1, <3>8
  <2>9. CASE ~(~c.seen /\ i = "bad") /\ ~(~c.seen /\ i \notin {"bad", "err"} /\ ~parseCgiHeaders(text))
             /\ ~(~c.seen /\ i # "bad" /\ parseCgiHeaders(text))
    <3>1. ~c.finOut
      BY <2>1 DEF Facts, EndFacts
    <3>2. z = put
      BY <1>4, <2>9, <3>1 DEF put
    <3>3. ~c.location \/ c.location
      OBVIOUS
    <3>4. put.wrote = c.wrote /\ put.script = c.script
      BY <1>10 DEF Taken
    <3>5. HeaderFacts(put)
      BY <1>11, <2>2, <3>4 DEF HeaderFacts
    <3>6. ~put.location => ~c.location /\ \A o \in Outputs :
              Text(text, o) = IF o = ch THEN Text(<<Head(c.pipe[ch])>>, o) ELSE <<>>
      BY <1>11, <2>4 DEF i
    <3>7. ReqInv(put)
      BY <1>2, <1>10, <1>14, <2>1, <2>4, <3>5, <3>6, TakenKeeps
    <3> QED
      BY <3>2, <3>7
  <2> QED
    BY <2>6, <2>7, <2>8, <2>9
<1> QED
  BY <1>13, <1>14

-----------------------------------------------------------------------------
(* The steps of an event. *)

\* The sequences of tasks that are begun.
LEMMA TaskLists ==
    /\ <<"serve">> \in Seq(Tasks) /\ "read" \notin ToSet(<<"serve">>)
    /\ <<"pump">> \in Seq(Tasks) /\ "read" \notin ToSet(<<"pump">>)
    /\ <<"respond">> \in Seq(Tasks) /\ "read" \notin ToSet(<<"respond">>)
    /\ <<"serve", "run">> \in Seq(Tasks) /\ "read" \notin ToSet(<<"serve", "run">>)
    /\ <<"serve", "enable">> \in Seq(Tasks) /\ "read" \notin ToSet(<<"serve", "enable">>)
    /\ <<"pump", "after">> \in Seq(Tasks) /\ "read" \notin ToSet(<<"pump", "after">>)
    /\ <<"serve", "pump", "after">> \in Seq(Tasks) /\ "read" \notin ToSet(<<"serve", "pump", "after">>)
    /\ <<"read", "respond">> \in Seq(Tasks)
<1>1. /\ <<"serve">> \in Seq(Tasks) /\ <<"pump">> \in Seq(Tasks) /\ <<"respond">> \in Seq(Tasks)
      /\ <<"serve", "run">> \in Seq(Tasks) /\ <<"serve", "enable">> \in Seq(Tasks)
      /\ <<"pump", "after">> \in Seq(Tasks) /\ <<"serve", "pump", "after">> \in Seq(Tasks)
      /\ <<"read", "respond">> \in Seq(Tasks)
  BY DEF Tasks
<1>2. "read" \notin ToSet(<<"serve">>) /\ "read" \notin ToSet(<<"pump">>) /\ "read" \notin ToSet(<<"respond">>)
  BY DEF ToSet
<1>3. "read" \notin ToSet(<<"serve", "run">>)
  BY DEF ToSet
<1>4. "read" \notin ToSet(<<"serve", "enable">>)
  BY DEF ToSet
<1>5. "read" \notin ToSet(<<"pump", "after">>)
  BY DEF ToSet
<1>6. "read" \notin ToSet(<<"serve", "pump", "after">>)
  BY DEF ToSet
<1> QED
  BY <1>1, <1>2, <1>3, <1>4, <1>5, <1>6

\* More tasks.
LEMMA TasksKeep ==
    ASSUME NEW c, ReqInv(c)
    PROVE  /\ ReqInv(Do(c, <<"serve">>)) /\ ReqInv(Do(c, <<"pump">>)) /\ ReqInv(Do(c, <<"respond">>))
           /\ ReqInv(Do(c, <<"serve", "run">>)) /\ ReqInv(Do(c, <<"serve", "enable">>))
           /\ ReqInv(Do(c, <<"serve", "pump", "after">>))
           /\ c.channel \in Outputs => ReqInv(Do(c, <<"read", "respond">>))
BY DoKeeps, TaskLists

\* A new state.
LEMMA StateKeeps ==
    ASSUME NEW c, ReqInv(c), NEW x \in States, Clean(c) => x \in Open \/ c.finConn
    PROVE  ReqInv([c EXCEPT !.state = x])
<1> DEFINE d == [c EXCEPT !.state = x]
<1>1. /\ Typed(d) /\ Same(c, d) /\ d.state = x
      /\ d.todo = c.todo /\ d.channel = c.channel /\ d.on = c.on
  BY StateForm DEF ReqInv
<1> HIDE DEF d
<1>2. CASE Clean(c)
  <2>1. d.state \in Open \cup {c.state} \/ (d.finConn /\ Clean(c))
    BY <1>1, <1>2 DEF Same, Rest
  <2>2. ReqInv(d)
    BY <1>1, <2>1, Frame DEF Reading
  <2> QED
    BY <2>2 DEF d
<1>3. CASE ~Clean(c)
  <2>1. ReqInv(d)
    BY <1>1, <1>3, NotClean DEF Same, Rest, Clean
  <2> QED
    BY <2>1 DEF d
<1> QED
  BY <1>2, <1>3

LEMMA ServeKeeps ==
    ASSUME NEW c, ReqInv(c), c.sched # <<>>
    PROVE  LET n == Head(c.sched)
               d == [c EXCEPT !.sched = Tail(@)]
           IN  ReqInv(CASE n = "cgi" -> browserToCgiService(d)
                        [] n = "write" -> IF d.susp THEN d ELSE cgiToBrowserService(d)
                        [] n = "net" -> ServiceNet(d))
<1> DEFINE t == Tail(c.sched)
           d == [c EXCEPT !.sched = t]
<1>1. c \in ReqType /\ c.sched \in Seq(Names)
  BY DEF ReqInv, Typed, ReqType
<1>2. Head(c.sched) \in Names /\ t \in Seq(Names)
  BY <1>1, HeadTailProperties
<1>3. d = [c EXCEPT !.sched = Tail(@)]
  OBVIOUS
<1> HIDE DEF t
<1>4. d \in ReqType
  BY ZenonT(40), <1>1, <1>2 DEF ReqType
<1>5. Calm(c, d)
  BY ZenonT(40), <1>1, <1>4 DEF Calm, Kept, Same, Rest, ReqType
<1> HIDE DEF d
<1>6. ReqInv(d)
  BY <1>5, CalmKeeps
<1>7. ReqInv(browserToCgiService(d)) /\ ReqInv(cgiToBrowserService(d)) /\ ReqInv(ServiceNet(d))
  BY <1>6, FromBrowserKeeps, ToBrowserKeeps, ServiceKeeps
<1>8. Head(c.sched) = "cgi" \/ Head(c.sched) = "write" \/ Head(c.sched) = "net"
  BY <1>2 DEF Names
<1> QED
  BY <1>3, <1>6, <1>7, <1>8

LEMMA PumpKeeps ==
    ASSUME NEW c, ReqInv(c)
    PROVE  ReqInv(CASE c.state = "content" /\ ~c.eof -> Do(c, <<"serve">>)
                    [] c.state = "content" /\ c.eof ->
                          EndInput(Do([c EXCEPT !.state = "running"], <<"serve", "run">>))
                    [] c.state = "running" -> Do(c, <<"serve", "run">>)
                    [] c.state = "finalized" -> Complete(c)
                    [] OTHER -> c)
<1>1. ReqInv(Do(c, <<"serve">>)) /\ ReqInv(Do(c, <<"serve", "run">>))
  BY TasksKeep
<1>2. ReqInv(EndInput(Do([c EXCEPT !.state = "running"], <<"serve", "run">>)))
  <2> DEFINE d == [c EXCEPT !.state = "running"]
  <2>1. ReqInv(d)
    BY StateKeeps DEF States, Open
  <2> HIDE DEF d
  <2>2. ReqInv(Do(d, <<"serve", "run">>))
    BY <2>1, TasksKeep
  <2>3. ReqInv(EndInput(Do(d, <<"serve", "run">>)))
    BY <2>2, EndInputKeeps
  <2> QED
    BY <2>3 DEF d
<1>3. c.state = "finalized" => ReqInv(Complete(c))
  <2>1. c.state = "finalized" /\ Clean(c) => c.finConn
    BY DEF ReqInv, Facts, EndFacts
  <2> QED
    BY <2>1, CompleteKeeps
<1> QED
  BY <1>1, <1>2, <1>3, Zenon

LEMMA RunKeeps ==
    ASSUME NEW c, ReqInv(c)
    PROVE  ReqInv(CASE c.state = "finalized" \/ (c.fin /\ c.finConn) -> Complete(c)
                    [] c.state = "running" /\ c.fin /\ ~c.finConn ->
                          EnableConn([c EXCEPT !.blocked = TRUE, !.susp = TRUE])
                    [] OTHER -> c)
<1>1. c \in ReqType
  BY DEF ReqInv, Typed
<1>2. ReqInv(EnableConn([c EXCEPT !.blocked = TRUE, !.susp = TRUE]))
  <2> DEFINE e == [c EXCEPT !.blocked = TRUE]
             d == [e EXCEPT !.susp = TRUE]
  <2>1. d = [c EXCEPT !.blocked = TRUE, !.susp = TRUE]
    BY <1>1 DEF ReqType
  <2>2. e \in ReqType
    BY ZenonT(40), <1>1 DEF ReqType
  <2>3. Calm(c, e)
    BY ZenonT(40), <1>1, <2>2 DEF Calm, Kept, Same, Rest, ReqType
  <2> HIDE DEF e
  <2>4. ReqInv(e)
    BY <2>3, CalmKeeps
  <2>5. d \in ReqType /\ Calm(e, d)
    BY <2>2, SuspCalm
  <2> HIDE DEF d
  <2>6. ReqInv(d)
    BY <2>4, <2>5, CalmKeeps
  <2>7. ReqInv(EnableConn(d))
    BY <2>5, <2>6, EnableConnCalm, CalmKeeps
  <2> QED
    BY <2>1, <2>7
<1>3. c.state = "finalized" \/ (c.fin /\ c.finConn) => ReqInv(Complete(c))
  <2>1. c.state = "finalized" /\ Clean(c) => c.finConn
    BY DEF ReqInv, Facts, EndFacts
  <2> QED
    BY <2>1, CompleteKeeps
<1> QED
  BY <1>2, <1>3, Zenon

LEMMA AfterKeeps ==
    ASSUME NEW c, ReqInv(c)
    PROVE  ReqInv(CASE c.state = "complete" /\ c.keep -> [c EXCEPT !.state = "begin"]
                    [] c.state = "complete" /\ ~c.keep -> [c EXCEPT !.state = "closed"]
                    [] OTHER -> EnableConn(c))
<1>1. c \in ReqType
  BY DEF ReqInv, Typed
<1>2. ReqInv(EnableConn(c))
  BY <1>1, EnableConnCalm, CalmKeeps
<1>3. c.state = "complete" => ReqInv([c EXCEPT !.state = "begin"]) /\ ReqInv([c EXCEPT !.state = "closed"])
  <2>1. c.state = "complete" /\ Clean(c) => c.finConn
    BY DEF ReqInv, Facts, EndFacts
  <2> QED
    BY <2>1, StateKeeps DEF States
<1> QED
  BY <1>2, <1>3, Zenon

LEMMA EnableKeeps ==
    ASSUME NEW c, ReqInv(c), NEW b \in BOOLEAN
    PROVE  LET e == IF b THEN EnableConn(c) ELSE c
               d == IF e.susp THEN Disable(e, Outputs) ELSE Enable(e, Outputs)
           IN  ReqInv(IF d.state = "finalized" THEN Do(d, <<"pump">>) ELSE d)
<1> DEFINE e == IF b THEN EnableConn(c) ELSE c
           d == IF e.susp THEN Disable(e, Outputs) ELSE Enable(e, Outputs)
<1>1. c \in ReqType
  BY DEF ReqInv, Typed
<1>2. ReqInv(EnableConn(c))
  BY <1>1, EnableConnCalm, CalmKeeps
<1>3. ReqInv(e)
  BY <1>2
<1> HIDE DEF e
<1>4. ReqInv(Disable(e, Outputs)) /\ ReqInv(Enable(e, Outputs))
  BY <1>3, EventsKept
<1>5. ReqInv(d)
  BY <1>4
<1> HIDE DEF d
<1>6. ReqInv(Do(d, <<"pump">>))
  BY <1>5, TasksKeep
<1>7. ReqInv(IF d.state = "finalized" THEN Do(d, <<"pump">>) ELSE d)
  BY <1>5, <1>6
<1> QED
  BY <1>7 DEF d, e

\* The end of a program's output on a channel.
LEMMA EndedDrained ==
    ASSUME NEW c, ReqInv(c), Clean(c), NEW ch \in Outputs, Ended(c, ch), c.pipe[ch] = <<>>
    PROVE  Drained(c, ch)
<1>1. ProgramFacts(c)
  BY DEF ReqInv, Facts
<1>2. CASE c.proc # "running"
  BY <1>1, <1>2 DEF ProgramFacts, Drained, NoWrites
<1>3. CASE c.closed
  BY <1>1, <1>3 DEF ProgramFacts, Drained, NoWrites
<1> QED
  BY <1>2, <1>3 DEF Ended

LEMMA ReadKeeps ==
    ASSUME NEW c, ReqInv(c), c.todo # <<>>, Head(c.todo) = "read"
    PROVE  LET ch == c.channel
               d == [c EXCEPT !.todo = Tail(@)]
           IN  ReqInv(IF ch \notin c.fds \/ c.fin \/ Count(c.q.write) >= QueueMax THEN d
                      ELSE IF c.pipe[ch] # <<>> THEN Reads(c, ch)
                      ELSE IF Ended(c, ch) THEN CloseFd(d, ch) ELSE d)
<1> DEFINE ch == c.channel
           d == [c EXCEPT !.todo = Tail(@)]
<1>1. c \in ReqType /\ c.fds \subseteq Channels
  BY DEF ReqInv, Typed, ReqType
<1>2. /\ ReqInv(d) /\ Same(c, d) /\ d.state = c.state /\ d.channel = c.channel /\ d.on = c.on
      /\ Clean(c) => ch \in Outputs
  BY DoneKeeps
<1> HIDE DEF d
<1>3. CASE ch \in c.fds /\ ~c.fin /\ c.pipe[ch] # <<>>
  <2>1. ReqInv(Reads(c, ch))
    <3> HIDE DEF ch
    <3> QED
      BY <1>1, <1>2, <1>3, ReadsKeeps
  <2> QED
    BY <1>2, <1>3, <2>1 DEF d
<1>4. CASE ch \in c.fds /\ c.pipe[ch] = <<>> /\ Ended(c, ch)
  <2>1. Clean(d) => Drained(d, ch)
    <3>1. Clean(c) => Drained(c, ch)
      BY <1>2, <1>4, EndedDrained
    <3> QED
      BY <1>2, <3>1 DEF Same, Rest, Clean, Drained, NoWrites
  <2>2. ReqInv(CloseFd(d, ch))
    <3> HIDE DEF ch
    <3>1. ch \in Channels
      BY <1>1, <1>4
    <3> QED
      BY <1>2, <2>1, <3>1, CloseKeeps
  <2> QED
    BY <1>2, <1>4, <2>2 DEF d
<1> QED
  BY <1>2, <1>3, <1>4 DEF d

LEMMA RespondKeeps ==
    ASSUME NEW c, ReqInv(c), c.complete \/ c.location
    PROVE  LET d == [Do(c, <<"serve", "pump", "after">>) EXCEPT !.location = FALSE]
           IN  ReqInv(IF c.location THEN Redirect(d) ELSE Finalize(d))
<1> DEFINE e == Do(c, <<"serve", "pump", "after">>)
           d == [e EXCEPT !.location = FALSE]
<1>1. c \in ReqType
  BY DEF ReqInv, Typed
<1>2. ReqInv(e) /\ Same(c, e)
  BY <1>1, DoSame, TaskLists, TasksKeep
<1>3. e \in ReqType
  BY <1>2 DEF ReqInv, Typed
<1> HIDE DEF e
<1>4. CASE c.location
  <2>1. d \in ReqType
    BY ZenonT(40), <1>3 DEF ReqType
  <2>2. d.q = e.q /\ d.fin = e.fin /\ d.error = e.error /\ d.noBody = e.noBody
    BY <1>3 DEF ReqType
  <2> HIDE DEF d
  <2>3. Typed(d)
    BY <1>2, <2>1, <2>2 DEF ReqInv, Typed
  <2>4. d.fin => d.error \/ d.noBody
    <3>1. Clean(e) => ~e.fin
      BY <1>2, <1>4 DEF ReqInv, Facts, EndFacts, Same, Rest
    <3> QED
      BY <2>2, <3>1 DEF Clean
  <2>5. ReqInv(Redirect(d))
    BY <2>3, <2>4, RedirectKeeps
  <2> QED
    BY <1>4, <2>5 DEF d, e
<1>5. CASE ~c.location
  <2>1. e.location = FALSE
    BY <1>2, <1>5, <1>1 DEF Same, Rest, ReqType
  <2>2. d = e
    BY <1>3, <2>1 DEF ReqType
  <2>3. Clean(e) => e.complete /\ ~e.location
    BY <1>2, <1>5, <2>1 DEF Same, Rest
  <2>4. ReqInv(Finalize(e))
    BY <1>2, <2>3, FinalizeKeeps
  <2> QED
    BY <1>5, <2>2, <2>4 DEF d, e
<1> QED
  BY <1>4, <1>5

-----------------------------------------------------------------------------
(* The events of a connection, and the death of the program. *)

\* No event runs.
LEMMA NotReading == ASSUME NEW c, c.todo = <<>> PROVE ~("read" \in ToSet(c.todo))
BY DEF ToSet

LEMMA IoKeeps ==
    ASSUME NEW c, ReqInv(c), NEW ch \in Channels, c.todo = <<>>, ch \in c.on
    PROVE  LET d == [Disable(c, {ch}) EXCEPT !.channel = ch]
           IN  ReqInv(IF ch = "in" THEN Do(Schedule(d, "cgi"), <<"respond">>)
                      ELSE Do(IF d.fin THEN CloseFd(d, ch) ELSE d, <<"read", "respond">>))
<1> DEFINE e == Disable(c, {ch})
           d == [e EXCEPT !.channel = ch]
           x == IF d.fin THEN CloseFd(d, ch) ELSE d
<1>1. c \in ReqType /\ c.on \subseteq Channels
  BY DEF ReqInv, Typed, ReqType
<1>2. ReqInv(e)
  BY EventsKept
<1>3. e.todo = c.todo /\ e.fds = c.fds /\ e.fin = c.fin /\ e.error = c.error /\ e.noBody = c.noBody
  BY <1>1 DEF Disable, ReqType
<1> HIDE DEF e
<1>4. e \in ReqType
  BY <1>2 DEF ReqInv, Typed
<1>5. d \in ReqType
  BY ZenonT(40), <1>4 DEF ReqType
<1>6. Same(e, d) /\ d.state = e.state /\ d.on = e.on /\ d.todo = e.todo /\ d.channel = ch
  BY ZenonT(40), <1>4, <1>5 DEF Same, Rest, ReqType
<1> HIDE DEF d
<1>7. "read" \notin ToSet(d.todo)
  BY <1>3, <1>6, NotReading
<1>8. ReqInv(d)
  BY <1>2, <1>6, <1>7, Frame DEF Reading
<1>9. CASE ch = "in"
  <2> DEFINE s == Schedule(d, "cgi")
  <2>1. ReqInv(s)
    BY <1>5, <1>8, ScheduleCalm, CalmKeeps DEF Names
  <2> HIDE DEF s
  <2>2. ReqInv(Do(s, <<"respond">>))
    BY <2>1, TasksKeep
  <2> QED
    BY <1>9, <2>2 DEF s, d, e
<1>10. CASE ch # "in"
  <2>1. ch \in Outputs
    BY <1>10 DEF Channels
  <2>2. d.fin => ~Clean(d)
    <3>1. Clean(d) /\ d.fin => OutputsClosed(c) /\ c.on \subseteq c.fds
      BY <1>3, <1>6 DEF ReqInv, Facts, ProgramFacts, Same, Rest, Clean
    <3>2. Clean(d) /\ d.fin => FALSE
      BY <2>1, <3>1 DEF OutputsClosed
    <3> QED
      BY <3>2
  <2>3. d.fin => ReqInv(CloseFd(d, ch)) /\ CloseFd(d, ch).channel = ch
    <3>1. d.fin => ReqInv(CloseFd(d, ch))
      BY <1>8, <2>2, CloseKeeps
    <3>2. CloseFd(d, ch).channel = d.channel
      BY <1>5 DEF CloseFd, ReqType
    <3> QED
      BY <1>6, <3>1, <3>2
  <2>4. ReqInv(x) /\ x.channel \in Outputs
    BY <1>6, <1>8, <2>1, <2>3
  <2> HIDE DEF x
  <2>5. ReqInv(Do(x, <<"read", "respond">>))
    BY <2>4, TasksKeep
  <2> QED
    BY <1>10, <2>5 DEF x, d, e
<1> QED
  BY <1>9, <1>10

\* The program is reaped; its command is complete when its outputs are closed.
LEMMA ReapKeeps == ASSUME NEW c, ReqInv(c), c.todo = <<>> PROVE ReqInv(reapCmd(c))
<1> DEFINE m == c.complete \/ c.eofs >= 2
           d == [c EXCEPT !.pid = FALSE, !.listed = FALSE, !.proc = "reaped", !.complete = m]
           e == [d EXCEPT !.channel = "death"]
<1>1. c \in ReqType /\ Typed(c) /\ m \in BOOLEAN
  BY DEF ReqInv, Typed, ReqType
<1>2. reapCmd(c) = IF ~(c.pid /\ c.proc = "exited") THEN c
                   ELSE IF c.callback THEN Do(e, <<"respond">>) ELSE d
  BY DEF reapCmd
<1> SUFFICES ASSUME c.pid, c.proc = "exited" PROVE ReqInv(reapCmd(c))
  BY <1>2
<1>3. m => c.complete \/ c.eofs >= 2
  OBVIOUS
<1> HIDE DEF m
<1>4. d \in ReqType
  <2> DEFINE y == [c EXCEPT !.pid = FALSE, !.listed = FALSE]
             x == [y EXCEPT !.proc = "reaped"]
  <2>1. x \in ReqType
    <3>1. y \in ReqType
      BY ZenonT(60), <1>1 DEF ReqType
    <3> HIDE DEF y
    <3> QED
      BY ZenonT(60), <3>1 DEF ReqType, Procs
  <2>2. d = [x EXCEPT !.complete = m]
    BY <1>1 DEF ReqType
  <2> HIDE DEF x, d
  <2>3. [x EXCEPT !.complete = m] \in ReqType
    BY ZenonT(40), <1>1, <2>1 DEF ReqType
  <2> QED
    BY <2>2, <2>3
<1>5. /\ d.fds = c.fds /\ d.on = c.on /\ d.eofs = c.eofs /\ d.complete = m
      /\ d.error = c.error /\ d.noBody = c.noBody
      /\ d.fin = c.fin /\ d.finOut = c.finOut /\ d.finConn = c.finConn
      /\ d.proc = "reaped" /\ d.pid = FALSE /\ d.script = c.script /\ d.killed = c.killed
      /\ d.closed = c.closed
      /\ d.location = c.location /\ d.seen = c.seen /\ d.held = c.held
      /\ d.pipe = c.pipe /\ d.wrote = c.wrote
      /\ d.sent = c.sent /\ d.q = c.q /\ d.todo = c.todo /\ d.channel = c.channel /\ d.state = c.state
  BY <1>1 DEF ReqType
<1> HIDE DEF d
<1>6. Typed(d)
  BY <1>1, <1>4, <1>5 DEF Typed
<1>7. ReqInv(d)
  <2> SUFFICES ASSUME Clean(d) PROVE Facts(d)
    BY <1>6 DEF ReqInv
  <2>1. Clean(c) /\ Facts(c)
    BY <1>5 DEF ReqInv, Clean
  <2>2. ProgramFacts(d)
    <3>1. ProgramFacts(c)
      BY <2>1 DEF Facts
    <3>2. c.script = <<>>
      BY <3>1 DEF ProgramFacts
    <3>3. c.eofs >= 2 => OutputsClosed(c)
      BY <3>1 DEF ProgramFacts
    <3>4. c.complete \/ c.fin => OutputsClosed(c)
      BY <3>1 DEF ProgramFacts
    <3>5. d.complete \/ d.fin => d.proc = "reaped" /\ OutputsClosed(d)
      BY <1>3, <1>5, <3>3, <3>4 DEF OutputsClosed
    <3> QED
      BY <1>5, <3>1, <3>2, <3>5 DEF ProgramFacts, Drained, NoWrites, OutputsClosed
  <2>3. EndFacts(d)
    BY ZenonT(40), <1>5, <2>1 DEF Facts, EndFacts
  <2>4. HeaderFacts(d)
    BY ZenonT(40), <1>5, <2>1 DEF Facts, HeaderFacts
  <2>5. OutputFacts(d)
    BY <1>5, <2>1 DEF Facts, OutputFacts, Reading, Way
  <2> QED
    BY <2>2, <2>3, <2>4, <2>5 DEF Facts
<1>8. ReqInv(e)
  <2>1. e \in ReqType
    BY ZenonT(40), <1>4 DEF ReqType
  <2>2. Same(d, e) /\ e.state = d.state /\ e.on = d.on /\ e.todo = d.todo
    BY ZenonT(40), <1>4, <2>1 DEF Same, Rest, ReqType
  <2> HIDE DEF e
  <2>3. "read" \notin ToSet(e.todo)
    BY <1>5, <2>2, NotReading
  <2> QED
    BY <1>7, <2>2, <2>3, Frame DEF Reading
<1> HIDE DEF e
<1>9. ReqInv(Do(e, <<"respond">>))
  BY <1>8, TasksKeep
<1> QED
  BY <1>2, <1>7, <1>9

\* The body of the request arrives.
LEMMA BodyKeeps ==
    ASSUME NEW c, ReqInv(c), c.body > 0
    PROVE  LET d == [c EXCEPT !.watch = {}, !.body = @ - 1, !.eof = c.body = 1,
                              !.todo = <<"pump", "after">>]
           IN  ReqInv(IF c.fin THEN d ELSE Put(d, "cgi", <<"b">>))
<1> DEFINE n == c.body - 1
           b == c.body = 1
           t == <<"pump", "after">>
           d == [c EXCEPT !.watch = {}, !.body = n, !.eof = b, !.todo = t]
<1>1. c \in ReqType /\ n \in Nat /\ b \in BOOLEAN /\ t \in Seq(Tasks) /\ "read" \notin ToSet(t)
  <2>1. c \in ReqType /\ c.body \in Nat
    BY DEF ReqInv, Typed, ReqType
  <2> QED
    BY <2>1, TaskLists
<1> HIDE DEF n, b, t
<1>2. d \in ReqType
  <2> DEFINE x == [c EXCEPT !.watch = {}, !.body = n, !.todo = t]
  <2>1. x \in ReqType
    BY ZenonT(40), <1>1 DEF ReqType
  <2>2. d = [x EXCEPT !.eof = b]
    BY <1>1 DEF ReqType
  <2> HIDE DEF x, d
  <2>3. [x EXCEPT !.eof = b] \in ReqType
    BY ZenonT(40), <1>1, <2>1 DEF ReqType
  <2> QED
    BY <2>2, <2>3
<1>3. Same(c, d) /\ d.state = c.state /\ d.on = c.on /\ d.todo = t
  BY <1>1, <1>2 DEF Same, Rest, ReqType
<1>4. d = [c EXCEPT !.watch = {}, !.body = @ - 1, !.eof = c.body = 1, !.todo = <<"pump", "after">>]
  BY DEF n, b, t
<1> HIDE DEF d
<1>5. ReqInv(d)
  BY <1>1, <1>3, Frame DEF Reading
<1>6. ReqInv(Put(d, "cgi", <<"b">>))
  <2> DEFINE x == <<"b">>
  <2>1. "b" \in Items
    BY DEF Items
  <2>2. x \in Texts
    BY <2>1, OnlyOne
  <2> HIDE DEF x
  <2>3. ReqInv(Put(d, "cgi", x))
    BY <1>2, <1>5, <2>2, PutInput, CalmKeeps
  <2> QED
    BY <2>3 DEF x
<1> QED
  BY <1>4, <1>5, <1>6

LEMMA EofKeeps ==
    ASSUME NEW c, ReqInv(c)
    PROVE  ReqInv(Error([c EXCEPT !.watch = {}, !.keep = FALSE, !.eof = TRUE,
                                  !.todo = <<"pump", "after">>], TRUE))
<1> DEFINE t == <<"pump", "after">>
           d == [c EXCEPT !.watch = {}, !.keep = FALSE, !.eof = TRUE, !.todo = t]
<1>1. c \in ReqType /\ Typed(c) /\ t \in Seq(Tasks)
  BY TaskLists DEF ReqInv, Typed
<1> HIDE DEF t
<1>2. d \in ReqType /\ d.q = c.q
  <2> DEFINE e == [c EXCEPT !.watch = {}, !.keep = FALSE]
  <2>1. e \in ReqType /\ e.q = c.q
    BY ZenonT(60), <1>1 DEF ReqType
  <2>2. d = [e EXCEPT !.eof = TRUE, !.todo = t]
    OBVIOUS
  <2> HIDE DEF d, e
  <2> QED
    BY ZenonT(60), <1>1, <2>1, <2>2 DEF ReqType
<1>3. d = [c EXCEPT !.watch = {}, !.keep = FALSE, !.eof = TRUE, !.todo = <<"pump", "after">>]
  BY DEF t
<1> HIDE DEF d
<1>4. Typed(d)
  BY <1>1, <1>2 DEF Typed
<1>5. ReqInv(Error(d, TRUE))
  BY <1>4, ErrorKeeps
<1> QED
  BY <1>3, <1>5

LEMMA WritableKeeps ==
    ASSUME NEW c, ReqInv(c)
    PROVE  ReqInv(Schedule([c EXCEPT !.watch = {}, !.blocked = FALSE,
                                     !.todo = <<"serve", "pump", "after">>], "net"))
<1> DEFINE t == <<"serve", "pump", "after">>
           d == [c EXCEPT !.watch = {}, !.blocked = FALSE, !.todo = t]
<1>1. c \in ReqType /\ t \in Seq(Tasks) /\ "read" \notin ToSet(t)
  BY TaskLists DEF ReqInv, Typed
<1> HIDE DEF t
<1>2. d \in ReqType
  BY ZenonT(40), <1>1 DEF ReqType
<1>3. Same(c, d) /\ d.state = c.state /\ d.on = c.on /\ d.todo = t
  BY <1>1, <1>2 DEF Same, Rest, ReqType
<1>4. d = [c EXCEPT !.watch = {}, !.blocked = FALSE, !.todo = <<"serve", "pump", "after">>]
  BY DEF t
<1> HIDE DEF d
<1>5. ReqInv(d)
  BY <1>1, <1>3, Frame DEF Reading
<1>6. ReqInv(Schedule(d, "net"))
  BY <1>2, <1>5, ScheduleCalm, CalmKeeps DEF Names
<1> QED
  BY <1>4, <1>6

LEMMA TimeoutKeeps ==
    ASSUME NEW c, ReqInv(c)
    PROVE  ReqInv([closeCgi(c) EXCEPT !.error = TRUE, !.state = "closed"])
<1> DEFINE k == closeCgi(c)
           d == [k EXCEPT !.error = TRUE, !.state = "closed"]
<1>1. Typed(k)
  BY CloseCgiTyped DEF ReqInv
<1> HIDE DEF k
<1>2. d \in ReqType /\ d.q = k.q /\ d.error = TRUE
  BY ZenonT(40), <1>1 DEF Typed, ReqType, States
<1> HIDE DEF d
<1>3. Typed(d)
  BY <1>1, <1>2 DEF Typed
<1>4. ReqInv(d)
  BY <1>2, <1>3, NotClean
<1> QED
  BY <1>4 DEF d, k

\* The client.
LEMMA ClientKeeps ==
    ASSUME NEW c, ReqInv(c)
    PROVE  ReqInv([c EXCEPT !.room = @ + 1]) /\ ReqInv([c EXCEPT !.gone = TRUE])
<1> DEFINE d == [c EXCEPT !.room = @ + 1]
           e == [c EXCEPT !.gone = TRUE]
<1>1. c \in ReqType /\ c.room + 1 \in Nat
  BY DEF ReqInv, Typed, ReqType
<1>2. d \in ReqType
  BY ZenonT(40), <1>1 DEF ReqType
<1>3. Calm(c, d)
  BY ZenonT(40), <1>1, <1>2 DEF Calm, Kept, Same, Rest, ReqType
<1>4. e \in ReqType
  BY ZenonT(40), <1>1 DEF ReqType
<1>5. Calm(c, e)
  BY ZenonT(40), <1>1, <1>4 DEF Calm, Kept, Same, Rest, ReqType
<1> HIDE DEF d, e
<1>6. ReqInv(d) /\ ReqInv(e)
  BY <1>3, <1>5, CalmKeeps
<1> QED
  BY <1>6 DEF d, e

-----------------------------------------------------------------------------
(* The program. *)

\* A new process state, script or end of the outputs.
Went(c, d) ==
    /\ Typed(d)
    /\ d.error = c.error /\ d.noBody = c.noBody
    /\ d.fin = c.fin /\ d.finOut = c.finOut /\ d.finConn = c.finConn
    /\ d.pid = c.pid /\ d.killed = c.killed
    /\ d.fds = c.fds /\ d.on = c.on /\ d.eofs = c.eofs /\ d.complete = c.complete
    /\ d.channel = c.channel /\ d.state = c.state /\ d.todo = c.todo
    /\ d.location = c.location /\ d.seen = c.seen /\ d.held = c.held
    /\ d.pipe = c.pipe /\ d.wrote = c.wrote /\ d.sent = c.sent /\ d.q = c.q

LEMMA WentKeeps ==
    ASSUME NEW c, NEW d, ReqInv(c), Went(c, d),
           Clean(c) =>
              /\ ProgramFacts(d)
              /\ HasHeader(Out(c.wrote)) \/ Ordered(d.script, Silent \cup {"part", "err"})
              /\ \A i \in DOMAIN d.script : d.script[i] \notin {"HDR", "END"}
    PROVE  ReqInv(d)
<1> SUFFICES ASSUME Clean(d) PROVE Facts(d)
  BY DEF ReqInv, Went
<1>1. Clean(c) /\ Facts(c)
  BY DEF ReqInv, Went, Clean
<1>2. EndFacts(d)
  BY ZenonT(40), <1>1 DEF Facts, EndFacts, Went
<1>3. HeaderFacts(d)
  BY <1>1 DEF Facts, HeaderFacts, Went
<1>4. OutputFacts(d)
  BY <1>1 DEF Facts, OutputFacts, Went, Reading, Way
<1> QED
  BY <1>1, <1>2, <1>3, <1>4 DEF Facts

\* A program that has no reader, or nothing more to do, exits.
LEMMA ExitKeeps ==
    ASSUME NEW c, ReqInv(c), c.proc = "running",
           Clean(c) => c.script = <<>>
    PROVE  ReqInv([c EXCEPT !.proc = "exited"])
<1> DEFINE d == [c EXCEPT !.proc = "exited"]
<1>1. c \in ReqType /\ Typed(c)
  BY DEF ReqInv, Typed
<1>2. d \in ReqType
  BY SMTT(40), <1>1 DEF ReqType, Procs
<1>3. /\ d.proc = "exited" /\ d.script = c.script /\ d.closed = c.closed /\ d.q = c.q
  BY <1>1 DEF ReqType
<1>4. Typed(d)
  BY <1>1, <1>2, <1>3 DEF Typed
<1>5. Went(c, d)
  <2> SUFFICES /\ d.error = c.error /\ d.noBody = c.noBody
               /\ d.fin = c.fin /\ d.finOut = c.finOut /\ d.finConn = c.finConn
               /\ d.pid = c.pid /\ d.killed = c.killed
               /\ d.fds = c.fds /\ d.on = c.on /\ d.eofs = c.eofs /\ d.complete = c.complete
               /\ d.channel = c.channel /\ d.state = c.state /\ d.todo = c.todo
               /\ d.location = c.location /\ d.seen = c.seen /\ d.held = c.held
               /\ d.pipe = c.pipe /\ d.wrote = c.wrote /\ d.sent = c.sent
    BY <1>3, <1>4 DEF Went
  <2> QED
    BY <1>1 DEF ReqType
<1> HIDE DEF d
<1>6. ASSUME Clean(c)
      PROVE  /\ ProgramFacts(d)
             /\ HasHeader(Out(c.wrote)) \/ Ordered(d.script, Silent \cup {"part", "err"})
             /\ \A i \in DOMAIN d.script : d.script[i] \notin {"HDR", "END"}
  <2>1. ProgramFacts(c) /\ HeaderFacts(c) /\ OutputFacts(c) /\ c.script = <<>>
    BY <1>6 DEF ReqInv, Facts
  <2>2. ProgramFacts(d)
    BY <1>3, <1>5, <2>1 DEF ProgramFacts, Went, Drained, NoWrites, OutputsClosed
  <2> QED
    BY <1>3, <2>1, <2>2 DEF HeaderFacts, OutputFacts
<1>7. ReqInv(d)
  BY <1>5, <1>6, WentKeeps
<1> QED
  BY <1>7 DEF d

\* The rest of a script.
LEMMA ScriptTail ==
    ASSUME NEW s \in Texts, s # <<>>
    PROVE  LET t == Tail(s)
           IN  /\ t \in Texts
               /\ \A i \in DOMAIN t : i \in Nat /\ i + 1 \in DOMAIN s /\ t[i] = s[i + 1]
               /\ \A i \in DOMAIN t : \A j \in 1..i : j + 1 \in 1..(i + 1) /\ t[j] = s[j + 1]
               /\ 1 \in DOMAIN s /\ Head(s) = s[1]
<1> DEFINE t == Tail(s)
<1>1. /\ t \in Texts /\ Head(s) = s[1] /\ 1 \in DOMAIN s
      /\ \A i \in DOMAIN t : i + 1 \in DOMAIN s /\ t[i] = s[i + 1]
  BY TextHead
<1> HIDE DEF t
<1>2. DOMAIN t = 1..Len(t) /\ Len(t) \in Nat
  BY <1>1, LenBasics
<1>3. \A i \in DOMAIN t : i \in Nat
  BY <1>2
<1>4. \A i \in DOMAIN t : \A j \in 1..i : j + 1 \in 1..(i + 1) /\ t[j] = s[j + 1]
  <2> SUFFICES ASSUME NEW i \in DOMAIN t, NEW j \in 1..i PROVE j + 1 \in 1..(i + 1) /\ t[j] = s[j + 1]
    OBVIOUS
  <2>1. j \in DOMAIN t /\ j + 1 \in 1..(i + 1)
    BY <1>2
  <2> QED
    BY <1>1, <2>1
<1> QED
  BY <1>1, <1>3, <1>4 DEF t

LEMMA ScriptFacts ==
    ASSUME NEW s \in Texts, s # <<>>
    PROVE  LET t == Tail(s)
           IN  /\ (\A i \in DOMAIN s : s[i] \notin {"HDR", "END"}) =>
                       \A i \in DOMAIN t : t[i] \notin {"HDR", "END"}
               /\ (\A i \in DOMAIN s : \A j \in 1..i : s[j] = "close" => s[i] \in Silent) =>
                       \A i \in DOMAIN t : \A j \in 1..i : t[j] = "close" => t[i] \in Silent
               /\ (\A i \in DOMAIN s : \A j \in 1..i : s[j] = "close" => s[i] \in Silent) /\ s[1] = "close" =>
                       \A i \in DOMAIN t : t[i] \in Silent
               /\ (\A i \in DOMAIN s : s[i] \in Silent) => \A i \in DOMAIN t : t[i] \in Silent
               /\ \A ch : (\A i \in DOMAIN s : s[i] \in Silent \/ ChannelOf(s[i]) # ch) =>
                       \A i \in DOMAIN t : t[i] \in Silent \/ ChannelOf(t[i]) # ch
               /\ \A others : Ordered(s, others) /\ s[1] \notin Headers => Ordered(t, others)
<1> DEFINE t == Tail(s)
<1>1. /\ t \in Texts
      /\ \A i \in DOMAIN t : i \in Nat /\ i + 1 \in DOMAIN s /\ t[i] = s[i + 1]
      /\ \A i \in DOMAIN t : \A j \in 1..i : j + 1 \in 1..(i + 1) /\ t[j] = s[j + 1]
      /\ 1 \in DOMAIN s /\ Head(s) = s[1]
  BY ScriptTail
<1> HIDE DEF t
<1>2. (\A i \in DOMAIN s : s[i] \notin {"HDR", "END"}) => \A i \in DOMAIN t : t[i] \notin {"HDR", "END"}
  BY <1>1
<1>3. (\A i \in DOMAIN s : \A j \in 1..i : s[j] = "close" => s[i] \in Silent) =>
          \A i \in DOMAIN t : \A j \in 1..i : t[j] = "close" => t[i] \in Silent
  BY <1>1
<1>4. (\A i \in DOMAIN s : \A j \in 1..i : s[j] = "close" => s[i] \in Silent) /\ s[1] = "close" =>
          \A i \in DOMAIN t : t[i] \in Silent
  <2> SUFFICES ASSUME \A i \in DOMAIN s : \A j \in 1..i : s[j] = "close" => s[i] \in Silent, s[1] = "close",
                      NEW i \in DOMAIN t
               PROVE  t[i] \in Silent
    OBVIOUS
  <2>1. 1 \in 1..(i + 1) /\ i + 1 \in DOMAIN s
    BY <1>1
  <2> QED
    BY <1>1, <2>1
<1>5. (\A i \in DOMAIN s : s[i] \in Silent) => \A i \in DOMAIN t : t[i] \in Silent
  BY <1>1
<1>6. \A ch : (\A i \in DOMAIN s : s[i] \in Silent \/ ChannelOf(s[i]) # ch) =>
          \A i \in DOMAIN t : t[i] \in Silent \/ ChannelOf(t[i]) # ch
  BY <1>1
<1>7. \A others : Ordered(s, others) /\ s[1] \notin Headers => Ordered(t, others)
  <2> SUFFICES ASSUME NEW others, Ordered(s, others), s[1] \notin Headers, NEW i \in DOMAIN t
               PROVE  t[i] \in others \/ \E j \in 1..i : t[j] \in Headers
    BY DEF Ordered
  <2>1. i \in Nat /\ i + 1 \in DOMAIN s /\ t[i] = s[i + 1]
    BY <1>1
  <2>2. s[i + 1] \in others \/ \E j \in 1..(i + 1) : s[j] \in Headers
    BY <2>1 DEF Ordered
  <2>3. ASSUME NEW j \in 1..(i + 1), s[j] \in Headers PROVE \E k \in 1..i : t[k] \in Headers
    <3> DEFINE k == j - 1
    <3>1. k \in 1..i /\ k + 1 = j
      BY <2>1, <2>3
    <3> HIDE DEF k
    <3>2. t[k] = s[k + 1]
      BY <1>1, <3>1
    <3> QED
      BY <2>3, <3>1, <3>2
  <2> QED
    BY <2>1, <2>2, <2>3
<1> QED
  BY <1>2, <1>3, <1>4, <1>5, <1>6, <1>7 DEF t

\* It goes on with its script, or closes its outputs.
LEMMA ScriptKeeps ==
    ASSUME NEW c, ReqInv(c), c.proc = "running", c.script # <<>>,
           NEW b \in BOOLEAN,
           (c.script[1] = "close" /\ b) \/ (c.script[1] = "read" /\ b = c.closed)
    PROVE  ReqInv([c EXCEPT !.script = Tail(@), !.closed = b])
<1> DEFINE t == Tail(c.script)
           d == [c EXCEPT !.script = t, !.closed = b]
<1>1. c \in ReqType /\ Typed(c) /\ c.script \in Texts
  BY DEF ReqInv, Typed, ReqType
<1>2. t \in Texts
  BY <1>1, TextHead
<1>3. [c EXCEPT !.script = Tail(@), !.closed = b] = d
  OBVIOUS
<1>4. /\ (\A i \in DOMAIN c.script : c.script[i] \notin {"HDR", "END"}) =>
              \A i \in DOMAIN t : t[i] \notin {"HDR", "END"}
      /\ (\A i \in DOMAIN c.script : \A j \in 1..i : c.script[j] = "close" => c.script[i] \in Silent) =>
              \A i \in DOMAIN t : \A j \in 1..i : t[j] = "close" => t[i] \in Silent
      /\ (\A i \in DOMAIN c.script : \A j \in 1..i : c.script[j] = "close" => c.script[i] \in Silent)
              /\ c.script[1] = "close" => \A i \in DOMAIN t : t[i] \in Silent
      /\ (\A i \in DOMAIN c.script : c.script[i] \in Silent) => \A i \in DOMAIN t : t[i] \in Silent
      /\ \A ch : (\A i \in DOMAIN c.script : c.script[i] \in Silent \/ ChannelOf(c.script[i]) # ch) =>
              \A i \in DOMAIN t : t[i] \in Silent \/ ChannelOf(t[i]) # ch
      /\ \A others : Ordered(c.script, others) /\ c.script[1] \notin Headers => Ordered(t, others)
  BY <1>1, ScriptFacts
<1> HIDE DEF t
<1>5. d \in ReqType
  <2> DEFINE x == [c EXCEPT !.script = t]
  <2>1. x \in ReqType
    BY ZenonT(40), <1>1, <1>2 DEF ReqType
  <2>2. d = [x EXCEPT !.closed = b]
    OBVIOUS
  <2> HIDE DEF x, d
  <2>3. [x EXCEPT !.closed = b] \in ReqType
    BY <2>1 DEF ReqType
  <2> QED
    BY <2>2, <2>3
<1>6. d.proc = c.proc /\ d.script = t /\ d.closed = b /\ d.q = c.q
  BY <1>1 DEF ReqType
<1>7. Typed(d)
  BY <1>1, <1>5, <1>6 DEF Typed
<1>8. Went(c, d)
  <2> SUFFICES /\ d.error = c.error /\ d.noBody = c.noBody
               /\ d.fin = c.fin /\ d.finOut = c.finOut /\ d.finConn = c.finConn
               /\ d.pid = c.pid /\ d.killed = c.killed
               /\ d.fds = c.fds /\ d.on = c.on /\ d.eofs = c.eofs /\ d.complete = c.complete
               /\ d.channel = c.channel /\ d.state = c.state /\ d.todo = c.todo
               /\ d.location = c.location /\ d.seen = c.seen /\ d.held = c.held
               /\ d.pipe = c.pipe /\ d.wrote = c.wrote /\ d.sent = c.sent
    BY <1>6, <1>7 DEF Went
  <2> QED
    BY <1>1 DEF ReqType
<1> HIDE DEF d
<1>9. ASSUME Clean(c)
      PROVE  /\ ProgramFacts(d)
             /\ HasHeader(Out(c.wrote)) \/ Ordered(d.script, Silent \cup {"part", "err"})
             /\ \A i \in DOMAIN d.script : d.script[i] \notin {"HDR", "END"}
  <2>1. ProgramFacts(c) /\ HeaderFacts(c) /\ OutputFacts(c)
    BY <1>9 DEF ReqInv, Facts
  <2>2. \A ch \in Outputs \ d.fds : Drained(d, ch)
    BY <1>4, <1>6, <1>8, <2>1 DEF ProgramFacts, Went, Drained, NoWrites
  <2>3. d.closed => \A i \in DOMAIN d.script : d.script[i] \in Silent
    BY <1>4, <1>6, <2>1 DEF ProgramFacts
  <2>4. \A i \in DOMAIN d.script : \A j \in 1..i : d.script[j] = "close" => d.script[i] \in Silent
    BY <1>4, <1>6, <2>1 DEF ProgramFacts
  <2>5. ProgramFacts(d)
    BY <1>6, <1>8, <2>1, <2>2, <2>3, <2>4 DEF ProgramFacts, Went, OutputsClosed
  <2>6. HasHeader(Out(c.wrote)) \/ Ordered(d.script, Silent \cup {"part", "err"})
    BY <1>4, <1>6, <2>1 DEF HeaderFacts, Headers
  <2> QED
    BY <1>4, <1>6, <2>1, <2>5, <2>6 DEF OutputFacts
<1>10. ReqInv(d)
  BY <1>8, <1>9, WentKeeps
<1> QED
  BY <1>3, <1>10

\* What is written first is a header or a part of it.
LEMMA OrderedAppend ==
    ASSUME NEW s \in Texts, NEW i \in Items, Ordered(s, {"part"}),
           HasHeader(s) \/ i \in Headers \cup {"part"}
    PROVE  /\ Ordered(Append(s, i), {"part"})
           /\ HasHeader(s) \/ i \in Headers => HasHeader(Append(s, i))
<1> DEFINE t == Append(s, i)
           n == Len(s)
<1>1. /\ n \in Nat /\ t \in Texts /\ Len(t) = n + 1 /\ t[n + 1] = i
      /\ \A k \in 1..n : t[k] = s[k]
  BY AppendText
<1>2. DOMAIN s = 1..n
  BY LenBasics
<1> HIDE DEF t, n
<1>3. DOMAIN t = 1..(n + 1)
  BY <1>1, LenBasics
<1>4. HasHeader(s) \/ i \in Headers => HasHeader(t)
  <2>1. ASSUME NEW k \in DOMAIN s, s[k] \in Headers PROVE HasHeader(t)
    <3>1. k \in DOMAIN t /\ t[k] = s[k]
      BY <1>1, <1>2, <1>3
    <3> QED
      BY <2>1, <3>1 DEF HasHeader
  <2>2. ASSUME i \in Headers PROVE HasHeader(t)
    <3>1. n + 1 \in DOMAIN t
      BY <1>1, <1>3
    <3> QED
      BY <1>1, <2>2, <3>1 DEF HasHeader
  <2> QED
    BY <2>1, <2>2 DEF HasHeader
<1>5. ASSUME NEW k \in DOMAIN t PROVE t[k] \in {"part"} \/ \E j \in 1..k : t[j] \in Headers
  <2>1. CASE k \in 1..n
    <3>1. s[k] \in {"part"} \/ \E j \in 1..k : s[j] \in Headers
      BY <1>2, <2>1 DEF Ordered
    <3>2. t[k] = s[k] /\ \A j \in 1..k : t[j] = s[j]
      BY <1>1, <2>1
    <3> QED
      BY <3>1, <3>2
  <2>2. CASE k \notin 1..n
    <3>1. k = n + 1 /\ k \in 1..k
      BY <1>1, <1>3, <2>2
    <3>2. CASE i \in Headers \cup {"part"}
      BY <1>1, <3>1, <3>2
    <3>3. CASE HasHeader(s)
      <4>1. PICK j \in DOMAIN s : s[j] \in Headers
        BY <3>3 DEF HasHeader
      <4>2. j \in 1..k /\ t[j] = s[j]
        BY <1>1, <1>2, <3>1, <4>1
      <4> QED
        BY <4>1, <4>2
    <3> QED
      BY <3>2, <3>3
  <2> QED
    BY <2>1, <2>2
<1> QED
  BY <1>4, <1>5 DEF Ordered, t

LEMMA OutAppend ==
    ASSUME NEW s \in Texts, NEW i \in Items
    PROVE  Out(s) \in Texts /\ Out(Append(s, i)) = IF i = "err" THEN Out(s) ELSE Append(Out(s), i)
<1> DEFINE T == Items \ {"err"}
<1>1. i \in T <=> i # "err"
  OBVIOUS
<1>2. Out(s) = Only(s, T) /\ Out(Append(s, i)) = Only(Append(s, i), T)
  BY DEF Out, Without
<1> HIDE DEF T
<1>3. Only(s, T) \in Texts
  BY OnlyType
<1>4. Only(Append(s, i), T) = IF i \in T THEN Append(Only(s, T), i) ELSE Only(s, T)
  BY OnlyAppend
<1> QED
  BY <1>1, <1>2, <1>3, <1>4

\* The program writes an item.
LEMMA WriteKeeps ==
    ASSUME NEW c, ReqInv(c), c.proc = "running", c.script # <<>>,
           Head(c.script) \notin Silent, NEW ch, ch = ChannelOf(Head(c.script)),
           ch \in c.fds, Len(c.pipe[ch]) < PipeMax
    PROVE  ReqInv([c EXCEPT !.script = Tail(@), !.wrote = Append(@, Head(c.script)),
                            !.pipe[ch] = Append(@, Head(c.script))])
<1> DEFINE i == Head(c.script)
           h == <<i>>
           t == Tail(c.script)
           w == Append(c.wrote, i)
           u == Append(c.pipe[ch], i)
           p == [c.pipe EXCEPT ![ch] = u]
           d == [c EXCEPT !.script = t, !.wrote = w, !.pipe = p]
<1>1. c \in ReqType /\ Typed(c) /\ c.script \in Texts /\ c.wrote \in Texts /\ c.pipe \in Pipes
  BY DEF ReqInv, Typed, ReqType
<1>2. ch \in Outputs /\ ch \in Channels
  BY DEF ChannelOf, Outputs, Channels
<1>3. c.pipe[ch] \in Texts /\ Len(c.pipe[ch]) \in Nat /\ PipeMax \in Nat
  <2>1. c.pipe[ch] \in Texts
    BY <1>1, <1>2 DEF Pipes
  <2> QED
    BY <2>1, LenBasics, ConstantsAssumption DEF ConstantsAssumption
<1>4. i \in Items /\ t \in Texts /\ i = c.script[1] /\ 1 \in DOMAIN c.script
  BY <1>1, TextHead
<1>5. [c EXCEPT !.script = Tail(@), !.wrote = Append(@, i), !.pipe[ch] = Append(@, i)] = d
  BY <1>1 DEF ReqType
<1>6. /\ (\A k \in DOMAIN c.script : c.script[k] \notin {"HDR", "END"}) =>
              \A k \in DOMAIN t : t[k] \notin {"HDR", "END"}
      /\ (\A k \in DOMAIN c.script : \A j \in 1..k : c.script[j] = "close" => c.script[k] \in Silent) =>
              \A k \in DOMAIN t : \A j \in 1..k : t[j] = "close" => t[k] \in Silent
      /\ (\A k \in DOMAIN c.script : c.script[k] \in Silent) => \A k \in DOMAIN t : t[k] \in Silent
      /\ \A o : (\A k \in DOMAIN c.script : c.script[k] \in Silent \/ ChannelOf(c.script[k]) # o) =>
              \A k \in DOMAIN t : t[k] \in Silent \/ ChannelOf(t[k]) # o
      /\ \A others : Ordered(c.script, others) /\ c.script[1] \notin Headers => Ordered(t, others)
  BY <1>1, ScriptFacts
<1> HIDE DEF t, i
<1>7. w \in Texts /\ w = c.wrote \o h /\ h \in Texts
  BY <1>1, <1>4, AppendText
<1>8. u \in Texts /\ u = c.pipe[ch] \o h /\ Len(u) = Len(c.pipe[ch]) + 1
  BY <1>3, <1>4, AppendText
<1> HIDE DEF w, u, h
<1>9. p \in Pipes /\ p[ch] = u /\ \A o \in Channels \ {ch} : p[o] = c.pipe[o]
  <2>1. Len(u) <= PipeMax
    BY <1>3, <1>8
  <2> QED
    BY <1>1, <1>2, <1>8, <2>1 DEF Pipes
<1> HIDE DEF p
<1>10. d \in ReqType
  BY ZenonT(40), <1>1, <1>4, <1>7, <1>9 DEF ReqType
<1>11. /\ d.error = c.error /\ d.noBody = c.noBody
       /\ d.fin = c.fin /\ d.finOut = c.finOut /\ d.finConn = c.finConn
       /\ d.proc = c.proc /\ d.pid = c.pid /\ d.script = t /\ d.killed = c.killed
       /\ d.fds = c.fds /\ d.eofs = c.eofs /\ d.complete = c.complete /\ d.closed = c.closed
       /\ d.on = c.on /\ d.channel = c.channel /\ d.state = c.state /\ d.todo = c.todo
       /\ d.location = c.location /\ d.seen = c.seen /\ d.held = c.held
       /\ d.pipe = p /\ d.wrote = w /\ d.sent = c.sent /\ d.q = c.q
  BY <1>1 DEF ReqType
<1> HIDE DEF d
<1>12. Typed(d)
  BY <1>1, <1>10, <1>11 DEF Typed
<1> SUFFICES ASSUME Clean(d) PROVE Facts(d)
  BY <1>5, <1>12 DEF ReqInv, i
<1>13. Clean(c) /\ Facts(c) /\ ProgramFacts(c) /\ HeaderFacts(c) /\ OutputFacts(c)
  BY <1>11 DEF ReqInv, Clean, Facts
<1>14. i \notin Silent /\ ch = ChannelOf(i) /\ i \notin {"HDR", "END"}
  <2>1. i \notin Silent /\ ch = ChannelOf(i)
    BY DEF i
  <2> QED
    BY <1>4, <1>13, <2>1 DEF OutputFacts
<1>15. ProgramFacts(d)
  <2>1. ~c.closed
    BY <1>4, <1>13, <1>14 DEF ProgramFacts
  <2>2. \A o \in Outputs \ d.fds : Drained(d, o)
    <3> SUFFICES ASSUME NEW o \in Outputs \ c.fds PROVE Drained(d, o)
      BY <1>11
    <3>1. Drained(c, o)
      BY <1>13 DEF ProgramFacts
    <3>2. d.pipe[o] = c.pipe[o]
      BY <1>9, <1>11 DEF Channels
    <3> QED
      BY <1>6, <1>11, <3>1, <3>2 DEF Drained, NoWrites
  <2> QED
    BY <1>6, <1>11, <1>13, <2>1, <2>2 DEF ProgramFacts, OutputsClosed
<1>16. EndFacts(d)
  BY ZenonT(40), <1>11, <1>13 DEF Facts, EndFacts
<1>17. HeaderFacts(d)
  <2> DEFINE o == Out(c.wrote)
             x == Out(w)
  <2>1. o \in Texts /\ x = IF i = "err" THEN o ELSE Append(o, i)
    <3> DEFINE z == c.wrote
    <3>1. z \in Texts /\ w = Append(z, i)
      BY <1>1 DEF w
    <3> HIDE DEF z
    <3>2. Out(z) \in Texts /\ Out(Append(z, i)) = IF i = "err" THEN Out(z) ELSE Append(Out(z), i)
      BY <1>4, <3>1, OutAppend
    <3> QED
      BY <3>1, <3>2 DEF z
  <2>2. /\ \A k \in DOMAIN c.held : c.held[k] = "part"
        /\ c.location => c.seen
        /\ ~c.seen => o = c.held \o c.pipe["out"]
        /\ Ordered(o, {"part"})
        /\ HasHeader(o) \/ Ordered(c.script, Silent \cup {"part", "err"})
    BY <1>13 DEF HeaderFacts
  <2>3. c.held \in Texts /\ c.pipe["out"] \in Texts
    BY <1>1 DEF ReqType, Pipes, Channels, Outputs
  <2> HIDE DEF o, x
  <2>4. CASE i = "err"
    <3>1. ch = "err"
      BY <1>14, <2>4 DEF ChannelOf
    <3>2. d.pipe["out"] = c.pipe["out"]
      BY <1>9, <1>11, <3>1 DEF Channels, Outputs
    <3>3. x = o
      BY <2>1, <2>4
    <3>4. HasHeader(o) \/ Ordered(t, Silent \cup {"part", "err"})
      BY <1>4, <1>6, <2>2, <2>4 DEF Headers
    <3> QED
      BY <1>11, <2>2, <3>2, <3>3, <3>4 DEF HeaderFacts, x
  <2>5. CASE i # "err"
    <3>1. ch = "out"
      BY <1>14, <2>5 DEF ChannelOf
    <3>2. d.pipe["out"] = c.pipe["out"] \o h
      BY <1>8, <1>9, <1>11, <3>1
    <3>3. x = Append(o, i) /\ x = o \o h
      BY <1>4, <2>1, <2>5, AppendText DEF h
    <3>4. HasHeader(o) \/ i \in Headers \cup {"part"}
      <4>1. Ordered(c.script, Silent \cup {"part", "err"}) => i \in Headers \cup {"part"}
        <5> SUFFICES ASSUME Ordered(c.script, Silent \cup {"part", "err"}) PROVE i \in Headers \cup {"part"}
          OBVIOUS
        <5>1. c.script[1] \in Silent \cup {"part", "err"} \/ \E j \in 1..1 : c.script[j] \in Headers
          BY <1>4 DEF Ordered
        <5> QED
          BY <1>4, <1>14, <2>5, <5>1
      <4> QED
        BY <2>2, <4>1
    <3>5. /\ Ordered(x, {"part"})
          /\ HasHeader(o) \/ i \in Headers => HasHeader(x)
      <4>1. /\ Ordered(Append(o, i), {"part"})
            /\ HasHeader(o) \/ i \in Headers => HasHeader(Append(o, i))
        BY <1>4, <2>1, <2>2, <3>4, OrderedAppend
      <4> QED
        BY <3>3, <4>1
    <3>6. HasHeader(x) \/ Ordered(t, Silent \cup {"part", "err"})
      BY <1>4, <1>6, <2>2, <3>5
    <3>7. ~c.seen => x = c.held \o d.pipe["out"]
      <4> DEFINE a == c.held
                 b == c.pipe["out"]
      <4>1. a \in Texts /\ b \in Texts
        BY <2>3
      <4>2. ~c.seen => o = a \o b
        BY <2>2
      <4> HIDE DEF a, b
      <4>3. (a \o b) \o h = a \o (b \o h)
        BY SMTT(40), <1>7, <4>1, TextAssoc
      <4>4. ~c.seen => x = a \o (b \o h)
        BY <3>3, <4>2, <4>3
      <4> QED
        BY <3>2, <4>4 DEF a, b
    <3> QED
      BY <1>11, <2>2, <3>5, <3>6, <3>7 DEF HeaderFacts, x
  <2> QED
    BY <2>4, <2>5
<1>18. ASSUME NEW o \in Outputs, NEW k \in DOMAIN d.pipe[o]
       PROVE  ChannelOf(d.pipe[o][k]) = o /\ d.pipe[o][k] \notin {"HDR", "END"}
  <2>1. CASE o = ch
    <3>1. /\ Len(c.pipe[ch]) \in Nat /\ Len(u) = Len(c.pipe[ch]) + 1 /\ u[Len(c.pipe[ch]) + 1] = i
          /\ \A j \in 1..Len(c.pipe[ch]) : u[j] = c.pipe[ch][j]
      BY <1>3, <1>4, AppendText DEF u
    <3>2. DOMAIN u = 1..Len(u) /\ DOMAIN c.pipe[ch] = 1..Len(c.pipe[ch])
      BY <1>3, <1>8, LenBasics
    <3>3. d.pipe[o] = u
      BY <1>9, <1>11, <2>1
    <3>4. k \in DOMAIN u
      BY <1>18, <3>3
    <3>5. k \in 1..Len(c.pipe[ch]) \/ k = Len(c.pipe[ch]) + 1
      BY <3>1, <3>2, <3>4
    <3>6. ChannelOf(u[k]) = ch /\ u[k] \notin {"HDR", "END"}
      BY <1>2, <1>13, <1>14, <3>1, <3>2, <3>5 DEF OutputFacts
    <3> QED
      BY <2>1, <3>3, <3>6
  <2>2. CASE o # ch
    <3>1. d.pipe[o] = c.pipe[o]
      BY <1>9, <1>11, <2>2 DEF Channels
    <3> QED
      BY <1>13, <1>18, <3>1 DEF OutputFacts
  <2> QED
    BY <2>1, <2>2
<1>19. ASSUME NEW o \in Outputs, ~c.location PROVE Text(Way(d, o), o) = Text(d.wrote, o)
  <2> DEFINE a == (Text(c.sent, o) \o Text(c.q.net, o)) \o Text(c.q.write, o)
             b == Text(c.pipe[o], o)
             x == Text(d.pipe[o], o)
             y == Text(h, o)
             v == Text(c.wrote, o)
  <2>1. Text(Way(c, o), o) = a \o b /\ c.sent \in Texts /\ c.q.net \in Texts /\ c.q.write \in Texts
        /\ c.pipe[o] \in Texts
    BY <1>1, WayText
  <2>2. Text(Way(d, o), o) = a \o x
    BY <1>10, <1>11, WayText
  <2>3. Text(d.wrote, o) = v \o y
    <3> DEFINE z == c.wrote
    <3>1. z \in Texts /\ d.wrote = z \o h
      BY <1>1, <1>7, <1>11
    <3> HIDE DEF z, y
    <3>2. Text(z \o h, o) = Text(z, o) \o Text(h, o)
      BY <1>7, <3>1, TextFacts
    <3> QED
      BY <3>1, <3>2 DEF y, z
  <2>4. x = b \o y
    <3>1. CASE o = ch
      <4> DEFINE z == c.pipe[ch]
      <4>1. z \in Texts /\ d.pipe[o] = z \o h
        BY <1>3, <1>8, <1>9, <1>11, <3>1
      <4> HIDE DEF z, y
      <4>2. Text(z \o h, o) = Text(z, o) \o Text(h, o)
        BY <1>7, <4>1, TextFacts
      <4> QED
        BY <3>1, <4>1, <4>2 DEF y, z
    <3>2. CASE o # ch
      <4>1. d.pipe[o] = c.pipe[o]
        BY <1>9, <1>11, <3>2 DEF Channels
      <4>2. i \notin Shown(o)
        BY <1>14, <1>2, <3>2 DEF Shown, ChannelOf, Outputs
      <4>3. y = <<>>
        BY <1>4, <4>2, TextFacts DEF h
      <4>4. b \in Texts
        BY <2>1, TextFacts
      <4> HIDE DEF b, y
      <4>5. b \o <<>> = b
        BY <4>4, TextUnit
      <4> QED
        BY <4>1, <4>3, <4>5 DEF b
    <3> QED
      BY <3>1, <3>2
  <2>5. a \in Texts /\ b \in Texts /\ y \in Texts
    <3>1. Text(c.sent, o) \in Texts /\ Text(c.q.net, o) \in Texts /\ Text(c.q.write, o) \in Texts
          /\ b \in Texts /\ y \in Texts
      BY <1>7, <2>1, TextFacts
    <3> HIDE DEF b, y
    <3>2. Text(c.sent, o) \o Text(c.q.net, o) \in Texts
      BY <3>1, TextJoin
    <3> QED
      BY <3>1, <3>2, TextJoin
  <2>6. v = a \o b
    BY <1>13, <1>19, <2>1 DEF OutputFacts
  <2> HIDE DEF a, b, x, y, v
  <2>7. (a \o b) \o y = a \o (b \o y)
    BY <2>5, TextAssoc
  <2> QED
    BY <2>2, <2>3, <2>4, <2>6, <2>7
<1>20. OutputFacts(d)
  <2>1. \A k \in DOMAIN d.script : d.script[k] \notin {"HDR", "END"}
    BY <1>6, <1>11, <1>13 DEF OutputFacts
  <2>2. Reading(d)
    BY <1>11, <1>13 DEF OutputFacts, Reading
  <2> QED
    BY <1>11, <1>18, <1>19, <2>1, <2>2 DEF OutputFacts
<1> QED
  BY <1>15, <1>16, <1>17, <1>20 DEF Facts

-----------------------------------------------------------------------------
(* The start of a request. *)

LEMMA ScriptTexts ==
    ASSUME NEW s \in Scripts
    PROVE  /\ s \in Texts
           /\ \A i \in DOMAIN s : s[i] \notin {"HDR", "END"}
           /\ Ordered(s, Silent \cup {"part", "err"})
           /\ \A i \in DOMAIN s : \A j \in 1..i : s[j] = "close" => s[i] \in Silent
<1>1. /\ s \in Seq(ToSet(s) \ {"HDR", "END"})
      /\ \A i \in DOMAIN s :
            \/ s[i] \in Headers \cup {"part", "err", "read", "close"}
            \/ \E j \in 1..i : s[j] \in Headers
      /\ \A i \in DOMAIN s : \A j \in 1..i : s[j] = "close" => s[i] \in {"read", "close"}
  BY ScriptsAssumption DEF ScriptsAssumption
<1> DEFINE T == ToSet(s) \ {"HDR", "END"}
<1>2. T \subseteq Items
  BY DEF Items
<1>3. s \in Seq(T)
  BY <1>1
<1> HIDE DEF T
<1>4. DOMAIN s = 1..Len(s) /\ Len(s) \in Nat /\ \A i \in DOMAIN s : s[i] \in T
  BY <1>3, LenProperties, ElementOfSeq
<1>5. s \in Texts
  <2>1. s = [i \in 1..Len(s) |-> s[i]]
    BY <1>3
  <2>2. \A i \in 1..Len(s) : s[i] \in Items
    BY <1>2, <1>4
  <2> QED
    BY <1>2, <1>3 DEF Texts
<1>6. \A i \in DOMAIN s : s[i] \notin {"HDR", "END"}
  BY <1>4 DEF T
<1>7. Ordered(s, Silent \cup {"part", "err"})
  <2> SUFFICES ASSUME NEW i \in DOMAIN s
               PROVE  s[i] \in Silent \cup {"part", "err"} \/ \E j \in 1..i : s[j] \in Headers
    BY DEF Ordered
  <2>1. i \in 1..i
    BY <1>4
  <2> QED
    BY <1>1, <2>1 DEF Silent
<1> QED
  BY <1>1, <1>5, <1>6, <1>7 DEF Silent

\* A request before its handler is started.
Fresh(c) ==
    /\ Typed(c)
    /\ ~c.error /\ ~c.noBody /\ ~c.fin /\ ~c.finOut /\ ~c.finConn
    /\ c.killed = FALSE /\ c.closed = FALSE /\ c.eofs = 0 /\ c.complete = FALSE
    /\ c.location = FALSE /\ c.seen = FALSE /\ c.held = <<>> /\ c.wrote = <<>>
    /\ c.pipe = [ch \in Channels |-> <<>>] /\ c.sent = <<>>
    /\ c.q.net = <<>> /\ c.q.write = <<"HDR">>
    /\ c.state \in Open /\ "read" \notin ToSet(c.todo)

LEMMA IdleFresh ==
    ASSUME NEW x \in Open, NEW b \in BOOLEAN, NEW n \in Nat,
           NEW t \in Seq(Tasks), "read" \notin ToSet(t)
    PROVE  Fresh([Idle EXCEPT !.state = x, !.eof = b, !.body = n, !.todo = t])
<1> DEFINE d == [Idle EXCEPT !.state = x, !.eof = b, !.body = n, !.todo = t]
           q == [cgi |-> <<>>, write |-> <<"HDR">>, net |-> <<>>]
           p == [ch \in Channels |-> <<>>]
<1>1. <<>> \in Texts /\ Count(<<>>) = 0 /\ Len(<<>>) = 0
  BY CountFacts DEF Texts
<1>2. <<"HDR">> \in Texts
  <2>1. "HDR" \in Items
    BY DEF Items
  <2> QED
    BY <2>1, OnlyOne
<1>3. RoomMax \in Nat /\ QueueMax \in Nat /\ PipeMax \in Nat
  BY ConstantsAssumption DEF ConstantsAssumption
<1>4. q \in Queues /\ q.net = <<>> /\ q.write = <<"HDR">>
  BY <1>1, <1>2 DEF Queues
<1>5. p \in Pipes
  BY <1>1, <1>3 DEF Pipes
<1> DEFINE f == [state |-> "idle", body |-> 0, eof |-> FALSE, gone |-> FALSE, room |-> RoomMax,
           sent |-> <<>>, watch |-> {}, keep |-> TRUE,
           error |-> FALSE, fin |-> FALSE, finOut |-> FALSE, finConn |-> FALSE,
           noBody |-> FALSE, headers |-> FALSE, blocked |-> FALSE,
           todo |-> <<>>, q |-> q, sched |-> <<>>, susp |-> FALSE,
           seen |-> FALSE, held |-> <<>>, location |-> FALSE,
           pid |-> FALSE, callback |-> TRUE, channel |-> "in", fds |-> {}, on |-> {},
           eofs |-> 0, complete |-> FALSE, listed |-> FALSE,
           proc |-> "none", script |-> <<>>, wrote |-> <<>>, closed |-> FALSE, killed |-> FALSE,
           pipe |-> p]
           R == [state : States \cup {"idle"}, body : Nat, eof : BOOLEAN, gone : BOOLEAN, room : Nat,
             sent : Texts, watch : SUBSET {"r", "w"}, keep : BOOLEAN,
             error : BOOLEAN, fin : BOOLEAN, finOut : BOOLEAN, finConn : BOOLEAN,
             noBody : BOOLEAN, headers : BOOLEAN, blocked : BOOLEAN,
             todo : Seq(Tasks), q : Queues, sched : Seq(Names), susp : BOOLEAN,
             seen : BOOLEAN, held : Texts, location : BOOLEAN,
             pid : BOOLEAN, callback : BOOLEAN, channel : Channels \cup {"death"},
             fds : SUBSET Channels, on : SUBSET Channels,
             eofs : Nat, complete : BOOLEAN, listed : BOOLEAN,
             proc : Procs, script : Texts, wrote : Texts, closed : BOOLEAN, killed : BOOLEAN,
             pipe : Pipes]
<1>5a. Idle = f
  BY Zenon DEF Idle
<1> HIDE DEF q, p
<1>5b. f \in R
  <2>1. <<>> \in Seq(Names) /\ <<>> \in Seq(Tasks)
    OBVIOUS
  <2> QED
    BY <1>1, <1>3, <1>4, <1>5, <2>1 DEF Procs, Channels
<1>5c. /\ f.error = FALSE /\ f.noBody = FALSE /\ f.fin = FALSE /\ f.finOut = FALSE /\ f.finConn = FALSE
       /\ f.killed = FALSE /\ f.closed = FALSE /\ f.eofs = 0 /\ f.complete = FALSE
       /\ f.location = FALSE /\ f.seen = FALSE /\ f.held = <<>> /\ f.wrote = <<>>
       /\ f.pipe = p /\ f.sent = <<>> /\ f.q = q
  OBVIOUS
<1>6. d = [f EXCEPT !.state = x, !.eof = b, !.body = n, !.todo = t]
  BY <1>5a, Zenon
<1> HIDE DEF f, d
<1>7. d \in ReqType
  <2>1. x \in States
    BY DEF Open, States
  <2> QED
    BY ZenonT(90), <1>5b, <1>6, <2>1 DEF ReqType
<1>8. /\ d.error = FALSE /\ d.noBody = FALSE /\ d.fin = FALSE /\ d.finOut = FALSE /\ d.finConn = FALSE
      /\ d.killed = FALSE /\ d.closed = FALSE /\ d.eofs = 0 /\ d.complete = FALSE
      /\ d.location = FALSE /\ d.seen = FALSE /\ d.held = <<>> /\ d.wrote = <<>>
      /\ d.pipe = p /\ d.sent = <<>> /\ d.q = q /\ d.state = x /\ d.todo = t
  BY <1>5b, <1>5c, <1>6
<1>9. Typed(d)
  BY <1>1, <1>3, <1>4, <1>7, <1>8 DEF Typed
<1>10. Fresh(d)
  BY <1>4, <1>8, <1>9 DEF Fresh, p
<1> QED
  BY <1>10 DEF d

LEMMA FreshInput ==
    ASSUME NEW c, Fresh(c), NEW items \in Texts
    PROVE  Fresh(Put(c, "cgi", items))
<1>1. c \in ReqType
  BY DEF Fresh, Typed
<1> DEFINE d == Put(c, "cgi", items)
<1>2. d \in ReqType /\ Calm(c, d)
  BY <1>1, PutInput
<1> HIDE DEF d
<1>3. Typed(d)
  BY <1>2 DEF Fresh, Typed, Calm, Same
<1>4. Fresh(d)
  BY <1>2, <1>3 DEF Fresh, Calm, Same, Kept, Rest
<1> QED
  BY <1>4 DEF d

LEMMA StartKeeps == ASSUME NEW c, Fresh(c), NEW s \in Scripts PROVE ReqInv(startCgi(c, s))
<1> DEFINE d == startCgi(c, s)
<1>1. c \in ReqType /\ Typed(c)
  BY DEF Fresh, Typed
<1>2. /\ s \in Texts
      /\ \A i \in DOMAIN s : s[i] \notin {"HDR", "END"}
      /\ Ordered(s, Silent \cup {"part", "err"})
      /\ \A i \in DOMAIN s : \A j \in 1..i : s[j] = "close" => s[i] \in Silent
  BY ScriptTexts
<1>3. d = [c EXCEPT !.script = s, !.proc = "running", !.pid = TRUE, !.listed = TRUE,
                    !.fds = Channels, !.on = Channels]
  BY DEF startCgi
<1> HIDE DEF d
<1>4. d \in ReqType
  <2> DEFINE e == [c EXCEPT !.script = s, !.proc = "running"]
             f == [e EXCEPT !.pid = TRUE, !.listed = TRUE]
  <2>1. e \in ReqType
    BY ZenonT(60), <1>1, <1>2 DEF ReqType, Procs
  <2>2. d = [f EXCEPT !.fds = Channels, !.on = Channels]
    BY <1>3
  <2> HIDE DEF e
  <2>3. f \in ReqType
    BY ZenonT(60), <2>1 DEF ReqType
  <2> HIDE DEF f
  <2> QED
    BY ZenonT(60), <2>2, <2>3 DEF ReqType
<1>5. /\ d.error = c.error /\ d.noBody = c.noBody
      /\ d.fin = c.fin /\ d.finOut = c.finOut /\ d.finConn = c.finConn
      /\ d.proc = "running" /\ d.pid = TRUE /\ d.script = s /\ d.killed = c.killed
      /\ d.fds = Channels /\ d.on = Channels /\ d.eofs = c.eofs /\ d.complete = c.complete
      /\ d.closed = c.closed /\ d.channel = c.channel /\ d.state = c.state /\ d.todo = c.todo
      /\ d.location = c.location /\ d.seen = c.seen /\ d.held = c.held
      /\ d.pipe = c.pipe /\ d.wrote = c.wrote /\ d.sent = c.sent /\ d.q = c.q
  BY <1>1, <1>3 DEF ReqType
<1>6. Typed(d)
  BY <1>1, <1>4, <1>5 DEF Typed
<1> SUFFICES Facts(d)
  BY <1>6 DEF ReqInv, d
<1>7. ProgramFacts(d)
  <2>1. Outputs \ d.fds = {} /\ Outputs \subseteq d.fds
    BY <1>5 DEF Outputs, Channels
  <2>2. ~(d.eofs >= 1) /\ ~(d.eofs >= 2)
    BY <1>5 DEF Fresh
  <2> QED
    BY <1>2, <1>5, <2>1, <2>2 DEF ProgramFacts, Fresh
<1>8. DOMAIN <<>> = {}
  OBVIOUS
<1>9. <<>> \in Texts /\ Only(<<>>, Items \ {"err"}) = <<>>
  <2>1. <<>> \in Texts
    BY DEF Texts
  <2> QED
    BY <2>1, OnlyEmpty
<1>10. "HDR" \in Items /\ <<"HDR">> \in Texts
  <2>1. "HDR" \in Items
    BY DEF Items
  <2> QED
    BY <2>1, OnlyOne
<1>11. EndFacts(d)
  <2> DEFINE h == <<"HDR">>
  <2>1. \A i \in DOMAIN h : h[i] # "END"
    OBVIOUS
  <2>2. h \in Texts
    BY <1>10
  <2>3. d.q.net = <<>> /\ d.q.write = h
    BY <1>5 DEF Fresh
  <2> HIDE DEF h
  <2>4. d.q.net \o d.q.write = h
    BY <2>2, <2>3, TextUnit
  <2> QED
    BY <1>5, <2>1, <2>4 DEF EndFacts, Fresh, Open
<1>12. HeaderFacts(d)
  <2>1. d.wrote = <<>> /\ d.held = <<>> /\ d.pipe["out"] = <<>> /\ d.location = FALSE
    BY <1>5 DEF Fresh, Channels, Outputs
  <2>2. Out(<<>>) = <<>> /\ <<>> \o <<>> = <<>>
    BY <1>9, TextUnit DEF Out, Without
  <2>3. Ordered(<<>>, {"part"})
    BY <1>8 DEF Ordered
  <2> QED
    BY <1>2, <1>5, <1>8, <2>1, <2>2, <2>3 DEF HeaderFacts
<1>13. OutputFacts(d)
  <2>1. \A ch \in Outputs : d.pipe[ch] = <<>>
    BY <1>5 DEF Fresh, Channels
  <2>2. Reading(d)
    BY <1>5 DEF Fresh, Reading
  <2>3. ASSUME NEW ch \in Outputs PROVE Text(Way(d, ch), ch) = Text(d.wrote, ch)
    <3> DEFINE h == <<"HDR">>
    <3>1. Text(h, ch) = <<>>
      <4>1. "HDR" \notin Shown(ch)
        BY DEF Shown
      <4> QED
        BY <1>10, <4>1, TextFacts
    <3>2. d.sent = <<>> /\ d.q.net = <<>> /\ d.q.write = h /\ d.wrote = <<>> /\ d.pipe[ch] = <<>>
      BY <1>5, <2>1 DEF Fresh
    <3> HIDE DEF h
    <3>3. Way(d, ch) = h
      <4>1. h \in Texts
        BY <1>10 DEF h
      <4>2. ((<<>> \o <<>>) \o h) \o <<>> = h
        BY <1>9, <4>1, TextUnit
      <4> QED
        BY <3>2, <4>2 DEF Way
    <3> QED
      BY <3>1, <3>2, <3>3, TextFacts
  <2> QED
    BY <1>2, <1>5, <1>8, <2>1, <2>2, <2>3 DEF OutputFacts
<1> QED
  BY <1>7, <1>11, <1>12, <1>13 DEF Facts

\* A form is in the queue before the handler starts.
LEMMA FormTexts == ASSUME NEW n \in Nat PROVE [i \in 1..n |-> "b"] \o <<"END">> \in Texts
<1> DEFINE f == [i \in 1..n |-> "b"]
           e == <<"END">>
<1>1. "b" \in Items /\ "END" \in Items
  BY DEF Items
<1>2. f \in Texts
  BY <1>1 DEF Texts
<1>3. e \in Texts
  BY <1>1, OnlyOne
<1> HIDE DEF f, e
<1>4. f \o e \in Texts
  BY <1>2, <1>3, TextJoin
<1> QED
  BY <1>4 DEF f, e

-----------------------------------------------------------------------------
(* The steps of the system.                                                   *)

\* Nothing runs for a request that was not started.
LEMMA IdleFacts ==
    /\ Idle.state = "idle" /\ Idle.todo = <<>> /\ Idle.on = {} /\ Idle.pid = FALSE
    /\ Idle.proc = "none" /\ Idle.noBody = FALSE
BY DEF Idle

LEMMA Update ==
    ASSUME CgiInv, NEW r \in Requests, NEW c, ReqInv(c), req' = [req EXCEPT ![r] = c]
    PROVE  CgiInv'
<1>1. c \in ReqType
  BY DEF ReqInv, Typed
<1>2. req' \in [Requests -> ReqType \cup {Idle}]
  BY <1>1 DEF CgiInv
<1>3. ASSUME NEW s \in Requests PROVE req'[s] = Idle \/ ReqInv(req'[s])
  BY DEF CgiInv
<1> QED
  BY <1>2, <1>3 DEF CgiInv

LEMMA Started ==
    ASSUME CgiInv, NEW r \in Requests,
           \/ req[r].todo # <<>> \/ req[r].on # {} \/ req[r].state # "idle"
           \/ req[r].proc # "none"
    PROVE  ReqInv(req[r])
BY IdleFacts DEF CgiInv

\* The event that runs takes its next step.
LEMMA StepInv == ASSUME CgiInv, NEW r \in Requests, Step(r) PROVE CgiInv'
<1> PICK c : c = req[r]
  OBVIOUS
<1> DEFINE d == [c EXCEPT !.todo = Tail(@)]
<1>1. c.todo # <<>>
  BY DEF Step, httpServiceQueues, httpDisconnect, httpPumpRequest, processRunning,
         httpAfterEvent, readFromCgi, cgiCallback, EnableEvents, Doing
<1>2. ReqInv(c)
  BY <1>1, Started
<1>3. ReqInv(d) /\ Same(c, d)
  BY <1>1, <1>2, DoneKeeps
<1>4. Done(r) = d
  BY DEF Done
<1> HIDE DEF d
<1>5. CASE httpServiceQueues(r)
  <2> DEFINE n == Head(c.sched)
             b == [c EXCEPT !.sched = Tail(@)]
             e == CASE n = "cgi" -> browserToCgiService(b)
                    [] n = "write" -> IF b.susp THEN b ELSE cgiToBrowserService(b)
                    [] n = "net" -> ServiceNet(b)
  <2>1. CASE c.sched = <<>> \/ c.state = "complete"
    <3>1. req' = [req EXCEPT ![r] = d]
      BY <1>4, <1>5, <2>1 DEF httpServiceQueues, Handles, Becomes
    <3> QED
      BY <1>3, <3>1, Update
  <2>2. CASE ~(c.sched = <<>> \/ c.state = "complete")
    <3>1. ReqInv(e)
      BY <1>2, <2>2, ServeKeeps
    <3>2. req' = [req EXCEPT ![r] = e]
      BY <1>5, <2>2 DEF httpServiceQueues, Handles, Becomes
    <3> HIDE DEF e
    <3> QED
      BY <3>1, <3>2, Update
  <2> QED
    BY <2>1, <2>2
<1>6. CASE httpDisconnect(r)
  <2>1. ReqInv(Disconnect(d))
    BY <1>3, DisconnectTyped, NotClean DEF ReqInv
  <2>2. req' = [req EXCEPT ![r] = Disconnect(d)]
    BY <1>4, <1>6 DEF httpDisconnect, Handles, Becomes
  <2> QED
    BY <2>1, <2>2, Update
<1>7. CASE httpPumpRequest(r)
  <2> DEFINE e == CASE d.state = "content" /\ ~d.eof -> Do(d, <<"serve">>)
                    [] d.state = "content" /\ d.eof ->
                          EndInput(Do([d EXCEPT !.state = "running"], <<"serve", "run">>))
                    [] d.state = "running" -> Do(d, <<"serve", "run">>)
                    [] d.state = "finalized" -> Complete(d)
                    [] OTHER -> d
  <2>1. ReqInv(e)
    BY <1>3, PumpKeeps
  <2>2. req' = [req EXCEPT ![r] = e]
    BY <1>4, <1>7 DEF httpPumpRequest, Handles, Becomes
  <2> HIDE DEF e
  <2> QED
    BY <2>1, <2>2, Update
<1>8. CASE processRunning(r)
  <2> DEFINE e == CASE d.state = "finalized" \/ (d.fin /\ d.finConn) -> Complete(d)
                    [] d.state = "running" /\ d.fin /\ ~d.finConn ->
                          EnableConn([d EXCEPT !.blocked = TRUE, !.susp = TRUE])
                    [] OTHER -> d
  <2>1. ReqInv(e)
    BY <1>3, RunKeeps
  <2>2. req' = [req EXCEPT ![r] = e]
    BY <1>4, <1>8 DEF processRunning, Handles, Becomes
  <2> HIDE DEF e
  <2> QED
    BY <2>1, <2>2, Update
<1>9. CASE httpAfterEvent(r)
  <2> DEFINE e == CASE d.state = "complete" /\ d.keep -> [d EXCEPT !.state = "begin"]
                    [] d.state = "complete" /\ ~d.keep -> [d EXCEPT !.state = "closed"]
                    [] OTHER -> EnableConn(d)
  <2>1. ReqInv(e)
    BY <1>3, AfterKeeps
  <2>2. req' = [req EXCEPT ![r] = e]
    BY <1>4, <1>9 DEF httpAfterEvent, Handles, Becomes
  <2> HIDE DEF e
  <2> QED
    BY <2>1, <2>2, Update
<1>10. CASE readFromCgi(r)
  <2> DEFINE ch == c.channel
             e == IF ch \notin c.fds \/ c.fin \/ Count(c.q.write) >= QueueMax THEN d
                  ELSE IF c.pipe[ch] # <<>> THEN Reads(c, ch)
                  ELSE IF Ended(c, ch) THEN CloseFd(d, ch) ELSE d
  <2>1. Head(c.todo) = "read"
    BY <1>10 DEF readFromCgi, Doing
  <2>2. ReqInv(e)
    BY <1>1, <1>2, <2>1, ReadKeeps DEF d
  <2>3. req' = [req EXCEPT ![r] = e]
    BY <1>4, <1>10 DEF readFromCgi, Handles, Becomes
  <2> HIDE DEF e
  <2> QED
    BY <2>2, <2>3, Update
<1>11. CASE cgiCallback(r)
  <2> DEFINE b == [Do(d, <<"serve", "pump", "after">>) EXCEPT !.location = FALSE]
             e == IF d.location THEN Redirect(b) ELSE Finalize(b)
  <2>1. CASE d.complete \/ d.location
    <3>1. ReqInv(e)
      BY <1>3, <2>1, RespondKeeps
    <3>2. req' = [req EXCEPT ![r] = e]
      BY <1>4, <1>11, <2>1 DEF cgiCallback, Handles, Becomes
    <3> HIDE DEF e
    <3> QED
      BY <3>1, <3>2, Update
  <2>2. CASE ~(d.complete \/ d.location)
    <3>1. ReqInv(Do(d, <<"serve", "enable">>))
      BY <1>3, TasksKeep
    <3>2. req' = [req EXCEPT ![r] = Do(d, <<"serve", "enable">>)]
      BY <1>4, <1>11, <2>2 DEF cgiCallback, Handles, Becomes
    <3> QED
      BY <3>1, <3>2, Update
  <2> QED
    BY <2>1, <2>2
<1>12. CASE EnableEvents(r)
  <2> PICK b \in BOOLEAN : b = (c.channel # "death" /\ c.state # "complete")
    OBVIOUS
  <2> DEFINE e == IF b THEN EnableConn(d) ELSE d
             f == IF e.susp THEN Disable(e, Outputs) ELSE Enable(e, Outputs)
             g == IF f.state = "finalized" THEN Do(f, <<"pump">>) ELSE f
  <2>1. ReqInv(g)
    BY <1>3, EnableKeeps
  <2>2. req' = [req EXCEPT ![r] = g]
    BY <1>4, <1>12 DEF EnableEvents, Handles, Becomes
  <2> HIDE DEF g
  <2> QED
    BY <2>1, <2>2, Update
<1> QED
  BY <1>5, <1>6, <1>7, <1>8, <1>9, <1>10, <1>11, <1>12 DEF Step

\* The dispatcher runs an event of the connection or of the command.
LEMMA EventInv ==
    ASSUME CgiInv, NEW r \in Requests,
           ConnEvent(r) \/ Timeout(r) \/ \E ch \in Channels : IoEvent(r, ch)
    PROVE  CgiInv'
<1> PICK c : c = req[r]
  OBVIOUS
<1>1. ReqInv(c)
  <2>1. ConnEvent(r) \/ Timeout(r) => c.state # "idle"
    BY DEF ConnEvent, ReadBody, ReadEof, writeEvent, Timeout, Waits
  <2>2. (\E ch \in Channels : IoEvent(r, ch)) => c.on # {}
    BY DEF IoEvent
  <2> QED
    BY <2>1, <2>2, Started
<1>2. CASE ReadBody(r)
  <2> DEFINE d == [c EXCEPT !.watch = {}, !.body = @ - 1, !.eof = c.body = 1,
                            !.todo = <<"pump", "after">>]
             e == IF c.fin THEN d ELSE Put(d, "cgi", <<"b">>)
  <2>1. c.body > 0
    BY <1>2 DEF ReadBody
  <2>2. ReqInv(e)
    BY <1>1, <2>1, BodyKeeps
  <2>3. req' = [req EXCEPT ![r] = e]
    BY <1>2 DEF ReadBody, Handles, Becomes
  <2> HIDE DEF e
  <2> QED
    BY <2>2, <2>3, Update
<1>3. CASE ReadEof(r)
  <2> DEFINE e == Error([c EXCEPT !.watch = {}, !.keep = FALSE, !.eof = TRUE,
                                  !.todo = <<"pump", "after">>], TRUE)
  <2>1. ReqInv(e)
    BY <1>1, EofKeeps
  <2>2. req' = [req EXCEPT ![r] = e]
    BY <1>3 DEF ReadEof, Handles, Becomes
  <2> HIDE DEF e
  <2> QED
    BY <2>1, <2>2, Update
<1>4. CASE writeEvent(r)
  <2> DEFINE e == Schedule([c EXCEPT !.watch = {}, !.blocked = FALSE,
                                     !.todo = <<"serve", "pump", "after">>], "net")
  <2>1. ReqInv(e)
    BY <1>1, WritableKeeps
  <2>2. req' = [req EXCEPT ![r] = e]
    BY <1>4 DEF writeEvent, Handles, Becomes
  <2> HIDE DEF e
  <2> QED
    BY <2>1, <2>2, Update
<1>5. CASE Timeout(r)
  <2> DEFINE e == [closeCgi(c) EXCEPT !.error = TRUE, !.state = "closed"]
  <2>1. ReqInv(e)
    BY <1>1, TimeoutKeeps
  <2>2. req' = [req EXCEPT ![r] = e]
    BY <1>5 DEF Timeout, Handles, Becomes
  <2> HIDE DEF e
  <2> QED
    BY <2>1, <2>2, Update
<1>6. CASE \E ch \in Channels : IoEvent(r, ch)
  <2> PICK ch \in Channels : IoEvent(r, ch)
    BY <1>6
  <2> DEFINE d == [Disable(c, {ch}) EXCEPT !.channel = ch]
             e == IF ch = "in" THEN Do(Schedule(d, "cgi"), <<"respond">>)
                  ELSE Do(IF d.fin THEN CloseFd(d, ch) ELSE d, <<"read", "respond">>)
  <2>1. c.todo = <<>> /\ ch \in c.on
    BY DEF IoEvent
  <2>2. ReqInv(e)
    BY <1>1, <2>1, IoKeeps
  <2>3. req' = [req EXCEPT ![r] = e]
    BY DEF IoEvent, Handles, Becomes
  <2> HIDE DEF e
  <2> QED
    BY <2>2, <2>3, Update
<1> QED
  BY <1>2, <1>3, <1>4, <1>5, <1>6 DEF ConnEvent

\* A handler of SIGCHLD runs; it ignores a command without a process.
LEMMA SignalInv == ASSUME CgiInv, NEW r \in Requests, signalEvent(r) PROVE CgiInv'
<1> PICK c : c = req[r]
  OBVIOUS
<1>1. req' = [req EXCEPT ![r] = reapCmd(c)] /\ c.todo = <<>>
  BY DEF signalEvent, Becomes
<1>2. CASE c = Idle
  <2>1. reapCmd(c) = c
    BY <1>2, IdleFacts DEF reapCmd
  <2>2. req' = req
    BY <1>1, <2>1 DEF CgiInv
  <2> QED
    BY <2>2 DEF CgiInv
<1>3. CASE c # Idle
  <2>1. ReqInv(c)
    BY <1>3 DEF CgiInv
  <2>2. ReqInv(reapCmd(c))
    BY <1>1, <2>1, ReapKeeps
  <2> QED
    BY <1>1, <2>2, Update
<1> QED
  BY <1>2, <1>3

\* The program takes a step.
LEMMA ProgramInv == ASSUME CgiInv, NEW r \in Requests, ProgramStep(r) PROVE CgiInv'
<1> PICK c : c = req[r]
  OBVIOUS
<1>1. c.proc = "running"
  BY DEF ProgramStep, Write, ReadInput, CloseOutputs, Exit, Running
<1>2. ReqInv(c)
  BY <1>1, Started
<1>3. c \in ReqType /\ c.script \in Texts /\ (Clean(c) => ProgramFacts(c))
  BY <1>2 DEF ReqInv, Typed, ReqType, Facts
<1>4. c.script # <<>> => Head(c.script) = c.script[1] /\ 1 \in DOMAIN c.script
  BY <1>3, TextHead
<1>5. CASE Write(r)
  <2> DEFINE i == Head(c.script)
             ch == ChannelOf(i)
             d == [c EXCEPT !.script = Tail(@), !.wrote = Append(@, i), !.pipe[ch] = Append(@, i)]
             e == [c EXCEPT !.proc = "exited"]
  <2>1. c.script # <<>> /\ i \notin Silent
    BY <1>5 DEF Write, Silent
  <2>2. CASE ch \in c.fds /\ Len(c.pipe[ch]) < PipeMax /\ req' = [req EXCEPT ![r] = d]
    <3>1. ReqInv(d)
      BY <1>1, <1>2, <2>1, <2>2, WriteKeeps
    <3> HIDE DEF d
    <3> QED
      BY <2>2, <3>1, Update
  <2>3. CASE ch \notin c.fds /\ req' = [req EXCEPT ![r] = e]
    <3>1. ch \in Outputs
      BY DEF ChannelOf, Outputs
    <3>2. ~Clean(c)
      <4> SUFFICES ASSUME Clean(c) PROVE FALSE
        OBVIOUS
      <4>1. Drained(c, ch)
        BY <1>3, <2>3, <3>1 DEF ProgramFacts
      <4> HIDE DEF ch
      <4>2. c.script[1] \in Silent \/ ChannelOf(c.script[1]) # ch
        BY <1>4, <2>1, <4>1 DEF Drained, NoWrites
      <4> QED
        BY <1>4, <2>1, <4>2 DEF ch
    <3>3. ReqInv(e)
      BY <1>1, <1>2, <3>2, ExitKeeps
    <3> HIDE DEF e
    <3> QED
      BY <2>3, <3>3, Update
  <2> QED
    BY <1>5, <2>2, <2>3 DEF Write, Program
<1>6. CASE ReadInput(r)
  <2>1. c.script # <<>> /\ c.script[1] = "read"
    BY <1>6 DEF ReadInput
  <2> DEFINE d == [c EXCEPT !.pipe["in"] = Tail(@)]
             e == [c EXCEPT !.script = Tail(@)]
  <2>2. CASE c.pipe["in"] # <<>> /\ req' = [req EXCEPT ![r] = d]
    <3>1. ReqInv(d)
      <4> DEFINE y == c.pipe["in"]
                 x == c.q.cgi
                 z == Tail(y)
      <4>1. y \in Texts /\ y # <<>> /\ Len(y) <= PipeMax /\ x \in Texts
        BY <1>3, <2>2 DEF ReqType, Pipes, Channels, Queues
      <4>2. [c EXCEPT !.q.cgi = x, !.pipe["in"] = z] = d
        BY ZenonT(40), <1>3 DEF ReqType, Queues
      <4> HIDE DEF x, y, d
      <4>3. z \in Texts /\ Len(z) = Len(y) - 1 /\ Len(y) \in Nat
        BY <4>1, TextHead, HeadTailProperties, LenProperties DEF Texts
      <4>4. Len(z) <= PipeMax
        <5>1. PipeMax \in Nat
          BY ConstantsAssumption DEF ConstantsAssumption
        <5> QED
          BY <4>1, <4>3, <5>1
      <4> HIDE DEF z
      <4> QED
        BY <1>2, <4>1, <4>2, <4>3, <4>4, InputKeeps
    <3> HIDE DEF d
    <3> QED
      BY <2>2, <3>1, Update
  <2>3. CASE req' = [req EXCEPT ![r] = e]
    <3>1. c.closed \in BOOLEAN
      BY <1>3 DEF ReqType
    <3>2. ReqInv([c EXCEPT !.script = Tail(@), !.closed = c.closed])
      BY <1>1, <1>2, <2>1, <3>1, ScriptKeeps
    <3>3. [c EXCEPT !.script = Tail(@), !.closed = c.closed] = e
      BY <1>3 DEF ReqType
    <3> HIDE DEF e
    <3> QED
      BY <2>3, <3>2, <3>3, Update
  <2> QED
    BY <1>6, <2>2, <2>3 DEF ReadInput, Program
<1>7. CASE CloseOutputs(r)
  <2>0. PICK b \in BOOLEAN : b
    OBVIOUS
  <2> DEFINE e == [c EXCEPT !.script = Tail(@), !.closed = b]
  <2>1. c.script # <<>> /\ c.script[1] = "close"
    BY <1>7 DEF CloseOutputs
  <2>2. ReqInv(e)
    <3>1. (c.script[1] = "close" /\ b) \/ (c.script[1] = "read" /\ b = c.closed)
      BY <2>0, <2>1, Zenon
    <3> QED
      BY <1>1, <1>2, <2>1, <3>1, ScriptKeeps, Zenon
  <2>3. req' = [req EXCEPT ![r] = e]
    <3>1. b = TRUE
      BY <2>0, Zenon
    <3> QED
      BY <1>7, <3>1 DEF CloseOutputs, Program
  <2> HIDE DEF e
  <2> QED
    BY <2>2, <2>3, Update
<1>8. CASE Exit(r)
  <2> DEFINE e == [c EXCEPT !.proc = "exited"]
  <2>1. Clean(c) => c.script = <<>>
    BY <1>3, <1>8 DEF Exit, ProgramFacts
  <2>2. ReqInv(e)
    BY <1>1, <1>2, <2>1, ExitKeeps
  <2>3. req' = [req EXCEPT ![r] = e]
    BY <1>8 DEF Exit, Program
  <2> HIDE DEF e
  <2> QED
    BY <2>2, <2>3, Update
<1> QED
  BY <1>5, <1>6, <1>7, <1>8 DEF ProgramStep

\* The client reads, or leaves.
LEMMA ClientInv == ASSUME CgiInv, NEW r \in Requests, Receive(r) \/ Leave(r) PROVE CgiInv'
<1> PICK c : c = req[r]
  OBVIOUS
<1> DEFINE d == [c EXCEPT !.room = @ + 1]
           e == [c EXCEPT !.gone = TRUE]
<1>1. ReqInv(c)
  BY Started DEF Receive, Leave, Live
<1>2. ReqInv(d) /\ ReqInv(e)
  BY <1>1, ClientKeeps
<1>3. req' = [req EXCEPT ![r] = d] \/ req' = [req EXCEPT ![r] = e]
  BY DEF Receive, Leave, Client
<1> HIDE DEF d, e
<1> QED
  BY <1>2, <1>3, Update

\* The handler of a request is started, or its program cannot be found.
LEMMA StartInv == ASSUME CgiInv, NEW r \in Requests, Start(r) PROVE CgiInv'
<1>1. req[r] = Idle
  <2>1. req[r].state = "idle"
    BY DEF Start
  <2>2. ReqInv(req[r]) => req[r].state \in States
    BY DEF ReqInv, Typed, ReqType
  <2> QED
    BY <2>1, <2>2 DEF CgiInv, States
<1> PICK s \in Scripts, b \in Bodies :
       LET whole == b.form \/ b.size = 0
           c == [req[r] EXCEPT !.state = IF whole THEN "running" ELSE "content",
                               !.eof = whole, !.body = IF whole THEN 0 ELSE b.size,
                               !.todo = <<"pump", "after">>]
           d == IF b.form THEN Put(c, "cgi", [i \in 1..b.size |-> "b"] \o <<"END">>) ELSE c
       IN  \/ Handles(r, startCgi(d, s))
           \/ "start" \in Faults /\ Handles(r, Error(d, FALSE))
  BY DEF Start
<1>2. b.size \in Nat /\ b.form \in BOOLEAN
  BY ConstantsAssumption DEF ConstantsAssumption
<1> PICK w \in BOOLEAN : w = (b.form \/ b.size = 0)
  OBVIOUS
<1> DEFINE x == IF w THEN "running" ELSE "content"
           n == IF w THEN 0 ELSE b.size
           t == <<"pump", "after">>
           f == [i \in 1..b.size |-> "b"] \o <<"END">>
           c == [Idle EXCEPT !.state = x, !.eof = w, !.body = n, !.todo = t]
           d == IF b.form THEN Put(c, "cgi", f) ELSE c
<1>3. req' = [req EXCEPT ![r] = startCgi(d, s)] \/ req' = [req EXCEPT ![r] = Error(d, FALSE)]
  BY <1>1 DEF Handles, Becomes
<1>4. Fresh(c)
  <2>1. x \in Open /\ n \in Nat
    BY <1>2 DEF Open
  <2>2. t \in Seq(Tasks) /\ "read" \notin ToSet(t)
    BY TaskLists
  <2> HIDE DEF x, n, t
  <2> QED
    BY <2>1, <2>2, IdleFresh
<1>5. f \in Texts
  BY <1>2, FormTexts
<1> HIDE DEF c, f
<1>6. Fresh(d)
  BY <1>4, <1>5, FreshInput
<1> HIDE DEF d
<1>7. ReqInv(startCgi(d, s))
  BY <1>6, StartKeeps
<1>8. ReqInv(Error(d, FALSE))
  BY <1>6, ErrorKeeps DEF Fresh
<1> QED
  BY <1>3, <1>7, <1>8, Update

LEMMA CgiInit == Init => CgiInv
BY DEF Init, CgiInv

LEMMA CgiNext == CgiInv /\ [Next]_vars => CgiInv'
<1> SUFFICES ASSUME CgiInv, [Next]_vars PROVE CgiInv'
  OBVIOUS
<1>1. CASE UNCHANGED vars
  BY <1>1 DEF CgiInv, vars
<1>2. CASE mprServiceSignals
  BY <1>2 DEF CgiInv, mprServiceSignals
<1>3. ASSUME NEW r \in Requests, Start(r) PROVE CgiInv'
  BY <1>3, StartInv
<1>4. ASSUME NEW r \in Requests,
             ConnEvent(r) \/ Timeout(r) \/ \E ch \in Channels : IoEvent(r, ch)
      PROVE  CgiInv'
  BY <1>4, EventInv
<1>5. ASSUME NEW r \in Requests, signalEvent(r) PROVE CgiInv'
  BY <1>5, SignalInv
<1>6. ASSUME NEW r \in Requests, Step(r) PROVE CgiInv'
  BY <1>6, StepInv
<1>7. ASSUME NEW r \in Requests, ProgramStep(r) PROVE CgiInv'
  BY <1>7, ProgramInv
<1>8. ASSUME NEW r \in Requests, Receive(r) \/ Leave(r) PROVE CgiInv'
  BY <1>8, ClientInv
<1> QED
  BY <1>1, <1>2, <1>3, <1>4, <1>5, <1>6, <1>7, <1>8 DEF Next

LEMMA CgiInvariant == Spec => []CgiInv
BY CgiInit, CgiNext, PTL DEF Spec

-----------------------------------------------------------------------------
(* What a request that was answered has done.                                 *)

LEMMA AnsweredEnded ==
    ASSUME NEW c, ReqInv(c), Answered(c)
    PROVE  /\ Clean(c) /\ Facts(c)
           /\ c.fin /\ c.finConn /\ ~c.location
           /\ c.proc = "reaped" /\ c.script = <<>> /\ OutputsClosed(c)
           /\ c.q.net = <<"END">> /\ c.q.write = <<>>
           /\ \A ch \in Outputs : c.pipe[ch] = <<>>
<1>1. Clean(c) /\ Facts(c)
  BY DEF Answered, Clean, ReqInv
<1>2. c.finConn /\ c.fin /\ c.q.write = <<>> /\ c.q.net = <<"END">> /\ ~c.location
  BY <1>1 DEF Facts, EndFacts, Answered
<1>3. c.proc = "reaped" /\ OutputsClosed(c) /\ c.script = <<>>
  BY <1>1, <1>2 DEF Facts, ProgramFacts
<1>4. \A ch \in Outputs : c.pipe[ch] = <<>>
  BY <1>1, <1>3 DEF Facts, ProgramFacts, OutputsClosed, Drained
<1> QED
  BY <1>1, <1>2, <1>3, <1>4

LEMMA Finished == CgiInv => ProgramFinished
<1> SUFFICES ASSUME CgiInv, NEW r \in Requests, Answered(req[r])
             PROVE  req[r].proc = "reaped" /\ req[r].script = <<>>
  BY DEF ProgramFinished
<1>1. ReqInv(req[r])
  BY Started DEF Answered
<1> QED
  BY <1>1, AnsweredEnded

LEMMA Delivered == CgiInv => OutputDelivered
<1> SUFFICES ASSUME CgiInv, NEW r \in Requests, Answered(req[r]), NEW ch \in Outputs
             PROVE  Text(req[r].sent, ch) = Text(req[r].wrote, ch)
  BY DEF OutputDelivered
<1> PICK c : c = req[r]
  OBVIOUS
<1>1. ReqInv(c) /\ Answered(c)
  BY Started DEF Answered
<1>2. /\ Facts(c) /\ ~c.location
      /\ c.q.net = <<"END">> /\ c.q.write = <<>> /\ c.pipe[ch] = <<>>
  BY <1>1, AnsweredEnded
<1>3. Text(Way(c, ch), ch) = Text(c.wrote, ch)
  BY <1>2 DEF Facts, OutputFacts
<1> DEFINE e == <<"END">>
           s == c.sent
<1>4. s \in Texts
  BY <1>1 DEF ReqInv, Typed, ReqType
<1>5. e \in Texts /\ Text(e, ch) = <<>>
  <2>1. "END" \in Items
    BY DEF Items
  <2>2. e \in Texts
    BY <2>1, OnlyOne
  <2>3. "END" \notin Shown(ch)
    BY DEF Shown
  <2> QED
    BY <2>1, <2>2, <2>3, TextFacts
<1>6. Way(c, ch) = ((s \o e) \o <<>>) \o <<>>
  BY <1>2 DEF Way
<1> HIDE DEF e, s
<1>7. Way(c, ch) = s \o e
  <2>1. s \o e \in Texts
    BY <1>4, <1>5, TextJoin
  <2> QED
    BY <1>6, <2>1, TextUnit
<1>8. Text(s \o e, ch) = Text(s, ch) \o Text(e, ch) /\ Text(s, ch) \in Texts
  BY <1>4, <1>5, TextFacts
<1>9. Text(s, ch) = Text(c.wrote, ch)
  BY <1>3, <1>5, <1>7, <1>8, TextUnit
<1> QED
  BY <1>9 DEF s

\* A request that ends as it should has waited for its program, which has done
\* all it had to do: the request is finalized only when the command is complete,
\* and the command is complete only when the process is reaped and its outputs
\* were read to their ends (mprCloseCmdFd, reapCmd, cgiCallback).
THEOREM ProgramIsFinished == Spec => []ProgramFinished
BY CgiInvariant, Finished, PTL

\* What the program wrote after the header has all reached the client, in order:
\* on each output it is what was sent, what is in the queues and what is in the
\* pipe, and a request is answered only when the pipes are closed and drained and
\* the connector has met the end packet behind all else (readFromCgi,
\* cgiToBrowserService, netOutgoingService).
THEOREM OutputIsDelivered == Spec => []OutputDelivered
BY CgiInvariant, Delivered, PTL

=============================================================================
