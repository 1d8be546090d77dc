--------------------------- MODULE HttpConnProofs ---------------------------
(***************************************************************************)
(* Proofs about HttpConn: connections and the timer that watches them.     *)
(***************************************************************************)
EXTENDS HttpConn, FiniteSetTheorems, SequenceTheorems, TLAPS

\* What the lock of the list of connections protects.  While the timer holds it
\* the list is as it was found, so that tactive still tells whether it is empty;
\* whoever is in the list and not covered is about to start the timer.
TimerInv ==
    /\ at \in [Conns -> Places]
    /\ tpc \in {"off", "scan"}
    /\ listed \subseteq Conns
    /\ tpc = "off" => tleft = {} /\ tnote = {}
    /\ tpc = "scan" => timer /\ tactive = (listed # {})
    /\ VisitedAreListed
    /\ TimerCovers

\* Before the first connection there is nothing to watch.
LEMMA TimerInvInit == Init => TimerInv
BY DEF Init, TimerInv, Places, VisitedAreListed, TimerCovers

\* A callback moves its connection on; only StartTimer takes it from "timer".
LEMMA CallbackKeepsTimerInv ==
    ASSUME TimerInv, NEW c \in Conns, at[c] # "timer",
           NEW place \in Places \ {"timer"}, at' = [at EXCEPT ![c] = place],
           UNCHANGED <<listed, timerVars>>
    PROVE  TimerInv'
BY DEF TimerInv, VisitedAreListed, TimerCovers, timerVars, Places

\* Steps that move no callback and leave the list and the timer alone.
LEMMA OthersKeepTimerInv ==
    ASSUME TimerInv, UNCHANGED <<at, listed, timerVars>>
    PROVE  TimerInv'
BY DEF TimerInv, VisitedAreListed, TimerCovers, timerVars

\* The pump stays where it is, or returns to the callback.
LEMMA PumpMoves ==
    ASSUME TimerInv, NEW c \in Conns, PumpStep(c)
    PROVE  \/ UNCHANGED <<at, listed, timerVars>>
           \/ /\ at[c] # "timer"
              /\ \E place \in Places \ {"timer"} : at' = [at EXCEPT ![c] = place]
              /\ UNCHANGED <<listed, timerVars>>
<1> USE DEF InState, PumpUnchanged, Return, Places, timerVars, TimerInv
<1>1. CASE Parse(c)
  BY <1>1 DEF Parse
<1>2. CASE Route(c)
  BY <1>2 DEF Route
<1>3. CASE Content(c)
  BY <1>3 DEF Content
<1>4. CASE Ready(c)
  BY <1>4 DEF Ready
<1>5. CASE Running(c)
  BY <1>5 DEF Running
<1>6. CASE Complete(c)
  BY <1>6 DEF Complete
<1>7. CASE PumpEnds(c)
  BY <1>7 DEF PumpEnds
<1> QED
  BY <1>1, <1>2, <1>3, <1>4, <1>5, <1>6, <1>7 DEF PumpStep

\* Each step of a connection's own callbacks keeps the invariant.
LEMMA ConnStepKeepsTimerInv ==
    ASSUME TimerInv, NEW c \in Conns, ConnStep(c)
    PROVE  TimerInv'
<1>1. CASE StartTimer(c)
  BY <1>1 DEF StartTimer, TimerInv, VisitedAreListed, TimerCovers, Places
<1>2. CASE Admit(c)
  <2>1. \E place \in Places \ {"timer"} : at' = [at EXCEPT ![c] = place]
    BY <1>2 DEF Admit, Places
  <2>2. at[c] # "timer" /\ UNCHANGED <<listed, timerVars>>
    BY <1>2 DEF Admit
  <2> QED
    BY <2>1, <2>2, CallbackKeepsTimerInv
<1>3. CASE IoEvent(c)
  <2>1. \E place \in Places \ {"timer"} : at' = [at EXCEPT ![c] = place]
    <3>1. PICK place \in {"pump", "read", "after"} : at' = [at EXCEPT ![c] = place]
      BY <1>3, Zenon DEF IoEvent
    <3> QED
      BY <3>1 DEF Places
  <2>2. at[c] # "timer" /\ UNCHANGED <<listed, timerVars>>
    BY <1>3 DEF IoEvent, Begins
  <2> QED
    BY <2>1, <2>2, CallbackKeepsTimerInv
<1>4. CASE CgiEvent(c)
  BY <1>4, CallbackKeepsTimerInv DEF CgiEvent, Begins, Places
<1>5. CASE TimeoutEvent(c)
  BY <1>5, CallbackKeepsTimerInv DEF TimeoutEvent, Begins, Places
<1>6. CASE Read(c)
  <2>1. \E place \in Places \ {"timer"} : at' = [at EXCEPT ![c] = place]
    BY <1>6 DEF Read, Places
  <2>2. at[c] # "timer" /\ UNCHANGED <<listed, timerVars>>
    BY <1>6 DEF Read
  <2> QED
    BY <2>1, <2>2, CallbackKeepsTimerInv
<1>7. CASE PumpStep(c)
  BY <1>7, PumpMoves, CallbackKeepsTimerInv, OthersKeepTimerInv
<1>8. CASE After(c)
  <2>1. \E place \in Places \ {"timer"} : at' = [at EXCEPT ![c] = place]
    BY <1>8 DEF After, Places
  <2>2. at[c] # "timer" /\ UNCHANGED <<listed, timerVars>>
    BY <1>8 DEF After
  <2> QED
    BY <2>1, <2>2, CallbackKeepsTimerInv
<1>9. CASE Unlist(c)
  BY <1>9 DEF Unlist, ListUnlocked, TimerInv, VisitedAreListed, TimerCovers, timerVars, Places
<1>10. CASE ReleaseRequest(c)
  BY <1>10, CallbackKeepsTimerInv DEF ReleaseRequest, Places
<1>11. CASE ReleaseConn(c)
  BY <1>11, CallbackKeepsTimerInv DEF ReleaseConn, Places
<1>12. CASE Close(c)
  BY <1>12, CallbackKeepsTimerInv DEF Close, Places
<1> QED
  BY <1>1, <1>2, <1>3, <1>4, <1>5, <1>6, <1>7, <1>8, <1>9, <1>10, <1>11, <1>12 DEF ConnStep

\* Each step of httpTimer keeps the invariant.
LEMMA TimerStepKeepsTimerInv ==
    ASSUME TimerInv, TimerStep
    PROVE  TimerInv'
<1> USE DEF TimerInv, VisitedAreListed, TimerCovers, connVars
<1>1. CASE TimerBegin
  BY <1>1 DEF TimerBegin
<1>2. CASE TimerEnd
  BY <1>2 DEF TimerEnd
<1>3. ASSUME NEW c \in Conns, TimerPasses(c) PROVE TimerInv'
  BY <1>3 DEF TimerPasses
<1>4. ASSUME NEW c \in Conns, TimerExpires(c) PROVE TimerInv'
  BY <1>4 DEF TimerExpires
<1>5. ASSUME NEW c \in Conns, TimerNotes(c) PROVE TimerInv'
  BY <1>5 DEF TimerNotes
<1> QED
  BY <1>1, <1>2, <1>3, <1>4, <1>5 DEF TimerStep

\* Clients, sockets and processes: of these only a new connection touches the list.
LEMMA ClientStepKeepsTimerInv ==
    ASSUME TimerInv, NEW c \in Conns, ClientStep(c) \/ Notify(c) \/ CgiStep(c)
    PROVE  TimerInv'
<1>1. ASSUME NEW ip \in IPs, Accept(c, ip) PROVE TimerInv'
  BY <1>1 DEF Accept, ListUnlocked, TimerInv, VisitedAreListed, TimerCovers, timerVars, Places
<1>2. ASSUME NEW p \in Pieces, Send(c, p) PROVE TimerInv'
  BY <1>2, OthersKeepTimerInv DEF Send, connVars
<1>3. CASE ClientCloses(c)
  BY <1>3, OthersKeepTimerInv DEF ClientCloses, connVars
<1>4. CASE Notify(c)
  BY <1>4, OthersKeepTimerInv DEF Notify, connVars
<1>5. CASE CgiExits(c)
  BY <1>5, OthersKeepTimerInv DEF CgiExits
<1>6. CASE CgiOutput(c)
  <2>1. at[c] # "timer" /\ UNCHANGED <<listed, timerVars>>
    BY <1>6 DEF CgiOutput
  <2>2. UNCHANGED at \/ at' = [at EXCEPT ![c] = "tail"]
    BY <1>6 DEF CgiOutput
  <2> QED
    BY <2>1, <2>2, CallbackKeepsTimerInv, OthersKeepTimerInv DEF Places
<1>7. CASE CgiRedirect(c)
  BY <1>7, CallbackKeepsTimerInv DEF CgiRedirect, Places
<1> QED
  BY <1>1, <1>2, <1>3, <1>4, <1>5, <1>6, <1>7 DEF ClientStep, CgiStep

\* TimerInv is an invariant, for any number of connections and any limits.
LEMMA TimerSafe == Spec => []TimerInv
<1>1. TimerInv /\ [Next]_vars => TimerInv'
  <2> SUFFICES ASSUME TimerInv, [Next]_vars PROVE TimerInv'
    OBVIOUS
  <2>1. CASE TimerStep
    BY <2>1, TimerStepKeepsTimerInv
  <2>2. ASSUME NEW c \in Conns, ConnStep(c) \/ ClientStep(c) \/ Notify(c) \/ CgiStep(c)
        PROVE  TimerInv'
    BY <2>2, ConnStepKeepsTimerInv, ClientStepKeepsTimerInv
  <2>3. CASE UNCHANGED vars
    BY <2>3, OthersKeepTimerInv DEF vars, connVars
  <2> QED
    BY <2>1, <2>2, <2>3 DEF Next
<1> QED
  BY <1>1, TimerInvInit, PTL DEF Spec

\* httpTimer and httpAddConn together never leave a connection unwatched, with any
\* number of connections that come and go while the timer runs.
THEOREM ConnectionsWatched == Spec => []TimerCovers
<1>1. TimerInv => TimerCovers
  BY DEF TimerInv
<1> QED
  BY <1>1, TimerSafe, PTL

\* No connection is deleted while httpTimer may refer to it.
THEOREM VisitedStay == Spec => []VisitedAreListed
<1>1. TimerInv => VisitedAreListed
  BY DEF TimerInv
<1> QED
  BY <1>1, TimerSafe, PTL
-----------------------------------------------------------------------------
(* The callbacks of a connection.  What follows from where a callback is (p), *)
(* with the connection r, its queue of events q and its mask m.               *)

InRequest == {"parsed", "content", "ready", "running", "finalized"}
Dying     == {"unlist", "release", "uncount", "close"}

\* An event is queued, or only once.
Has(q, e)  == \E i \in DOMAIN q : q[i] = e
Once(q, e) == \A i, j \in DOMAIN q : q[i] = e /\ q[j] = e => i = j

Fresh(p, r) == p \in {"free", "timer", "admit"} => r = NewConn(r.ip)

\* A request is counted in the states of a request, or until the connection that
\* could not read its head is destroyed.
Opened(p, r) ==
    /\ r.opened =>
          \/ r.state \in InRequest /\ p \notin {"free", "timer", "admit", "uncount", "close"}
          \/ r.state \in BeforeParsed /\ r.keep < 0 /\ p \in {"after", "unlist", "release"}
    /\ ~r.endpoint => p \in {"unlist", "close"} /\ ~r.opened

\* A pump finds a new request only if it has one, and returns only where it waits.
\* The last lines of cgiCallback only complete a request, whose connection rests.
Stops(p, r) ==
    /\ p = "pump" /\ r.state \in BeforeParsed => r.input = <<"get">>
    /\ p \in {"rest", "read", "after"} => r.state \in Between \cup {"content", "running"}
    /\ p = "rest" /\ r.state = "complete" => r.left
    /\ p = "tail" => r.left /\ \/ r.state = "complete"
                               \/ r.state = "finalized" /\ (r.kind # "errdoc" \/ r.connError)

\* Input ends early only when the connection does.
Reads(p, r) ==
    /\ r.state \in BeforeParsed /\ r.eof => r.keep < 0 /\ p \in {"after"} \cup Dying
    /\ r.state = "content" => ~r.eof

\* What is answered when.
Answers(p, r) ==
    /\ r.state \in BeforeParsed /\ ~r.eof => r.out = "none"
    /\ r.state = "parsed" => r.out = "none" \/ r.kind = "refused"
    /\ r.state = "content" => HasBody(r.kind)
    /\ r.state = "running" /\ r.out = "none" => r.kind = "cgi"
    /\ r.kind = "errdoc" => r.out # "final"

\* The end of a process is told once, and while its request is not completed.  A
\* request that runs and is answered waits for the socket or for the process.
InWork    == {"ready", "running", "finalized"}
Awaits(r) == r.kind = "cgi" /\ r.state \in {"ready", "running"} /\ r.out = "none"
Process(p, r, q) ==
    /\ Awaits(r) => r.work \/ Has(q, {"done"})
    /\ r.work => r.state \in InWork /\ ~Has(q, {"done"})
    /\ Has(q, {"done"}) => r.state \in InWork
    /\ Once(q, {"done"})
    /\ r.state = "running" /\ p \in {"rest", "read", "after"} =>
          r.out = "none" \/ (r.out = "final" /\ r.blocked) \/ r.work \/ Has(q, {"done"})

\* A connection at rest listens, or has an event to come, and is not to be closed,
\* unless the last lines of cgiCallback have completed its request.
Rests(p, r, q, m) ==
    p = "rest" => /\ q = <<>> /\ r.state # "complete" => m = WaitMask(r)
                  /\ r.keep < 0 => r.state \notin Between \/ r.left

Local(p, r, q, m) ==
    /\ Fresh(p, r) /\ Opened(p, r) /\ Stops(p, r) /\ Reads(p, r) /\ Answers(p, r)
    /\ Process(p, r, q) /\ Rests(p, r, q, m)

-----------------------------------------------------------------------------
(* Types.  That activeRequests is no negative number comes with the counts.   *)

TypeInv ==
    /\ at \in [Conns -> Places]
    /\ conn \in [Conns -> ConnType]
    /\ ev \in [Conns -> EventType \cup {{}}]
    /\ evq \in [Conns -> Seq(EventType)]
    /\ mask \in [Conns -> SUBSET {"R", "W"}]
    /\ toSet \in [Conns -> BOOLEAN]
    /\ wire \in [Conns -> Seq(Pieces)]
    /\ client \in [Conns -> [closed : BOOLEAN, last : Pieces \cup {"none"}, sent : 0 .. MaxSends]]
    /\ listed \subseteq Conns
    /\ timer \in BOOLEAN /\ tactive \in BOOLEAN
    /\ tpc \in {"off", "scan"} /\ tleft \subseteq Conns /\ tnote \subseteq Conns
    /\ activeRequests \in Int
    /\ clientLoad \in [IPs -> Nat]

\* What the limits are, one by one.
LEMMA Limits ==
    /\ ClientMax \in Nat /\ PerClientMax \in Nat /\ RequestMax \in Nat /\ KeepAliveMax \in Nat
    /\ MaxSends \in Nat
    /\ KeepAliveMax \in -1 .. KeepAliveMax /\ -1 \in -1 .. KeepAliveMax /\ 0 \in -1 .. KeepAliveMax
<1>1. /\ ClientMax \in Nat /\ PerClientMax \in Nat /\ RequestMax \in Nat /\ KeepAliveMax \in Nat
      /\ MaxSends \in Nat
  BY HttpConnAssumption
<1> QED
  BY <1>1

\* A new connection is well formed, whoever it is of.
LEMMA NewConnType ==
    ASSUME NEW ip \in IPs
    PROVE  NewConn(ip) \in ConnType
<1>1. KeepAliveMax \in -1 .. KeepAliveMax /\ <<>> \in Seq(Pieces)
  BY Limits, EmptySeq
<1>2. "begin" \in States /\ "none" \in Kinds \cup {"none", "refused", "get"}
  BY DEF States, Between, BeforeParsed
<1> QED
  BY <1>1, <1>2 DEF NewConn, ConnType

LEMMA SomeIP == (CHOOSE i \in IPs : TRUE) \in IPs
<1>1. \E i \in IPs : TRUE
  BY HttpConnAssumption
<1> QED
  BY <1>1

\* What the pump does to a connection leaves it well formed.
LEMMA FinalizeType ==
    ASSUME NEW r \in ConnType
    PROVE  Finalize(r) \in ConnType
<1>1. (IF r.keep < 0 THEN r.keep ELSE r.keep - 1) \in -1 .. KeepAliveMax
  <2>1. r.keep \in -1 .. KeepAliveMax
    BY DEF ConnType
  <2> QED
    BY <2>1, Limits
<1> QED
  BY <1>1 DEF Finalize, ConnType

LEMMA AbortType ==
    ASSUME NEW r \in ConnType
    PROVE  Abort(r) \in ConnType
  BY Limits DEF Abort, ConnType

LEMMA PreparedType ==
    ASSUME NEW r \in ConnType
    PROVE  Prepared(r) \in ConnType
  BY DEF Prepared, ConnType, States, Between, BeforeParsed

\* The first request of the input, and what is behind it.
LEMMA HeadType ==
    ASSUME NEW s \in Seq(Pieces), HasHead(s)
    PROVE  /\ AfterHead(s) \in Seq(Pieces)
           /\ HeadOf(s) \notin Garbage => HeadOf(s) \in Kinds \cup {"get"}
<1>1. s # <<>> /\ Head(s) \in Pieces /\ Tail(s) \in Seq(Pieces) /\ Len(Tail(s)) = Len(s) - 1
  BY HeadTailProperties DEF HasHead
<1>2. ASSUME Head(s) = "part" PROVE Tail(s) # <<>>
  <2> SUFFICES ASSUME Tail(s) = <<>> PROVE FALSE
    OBVIOUS
  <2>1. Len(s) = 1 /\ s[1] = "part"
    <3>1. Len(s) - 1 = 0 /\ Len(s) \in Nat
      BY <1>1, EmptySeq, LenProperties
    <3> QED
      BY <1>2, <3>1
  <2>2. s = <<"part">>
    <3>1. <<"part">> \in Seq({"part"}) /\ s \in Seq(Pieces \cup {"part"})
      BY SeqMonotonic
    <3> QED
      BY <2>1
  <2> QED
    BY <2>2 DEF HasHead
<1>3. AfterHead(s) \in Seq(Pieces)
  BY <1>1, <1>2, HeadTailProperties DEF AfterHead
<1> QED
  BY <1>1, <1>3 DEF HeadOf, Garbage, Pieces

\* An event that is taken back is gone if it was there once, and the others stay.
LEMMA WithoutType ==
    ASSUME NEW q \in Seq(EventType), NEW e
    PROVE  /\ Without(q, e) \in Seq(EventType)
           /\ \A f : Has(Without(q, e), f) => Has(q, f)
           /\ \A f : f # e /\ Has(q, f) => Has(Without(q, e), f)
           /\ Once(q, e) => ~Has(Without(q, e), e)
<1>1. CASE e \notin ToSet(q)
  BY <1>1 DEF Without, ToSet, Has
<1>2. CASE e \in ToSet(q)
  <2> DEFINE i == CHOOSE j \in DOMAIN q : q[j] = e
             t == RemoveAt(q, i)
  <2>1. i \in 1 .. Len(q) /\ q[i] = e /\ Len(q) \in Nat /\ DOMAIN q = 1 .. Len(q)
    BY <1>2 DEF ToSet
  <2>2. Without(q, e) = t
    BY <1>2 DEF Without
  <2> HIDE DEF i
  <2>3. /\ t \in Seq(EventType) /\ Len(t) = Len(q) - 1 /\ DOMAIN t = 1 .. (Len(q) - 1)
        /\ \A j \in 1 .. (Len(q) - 1) : t[j] = IF j < i THEN q[j] ELSE q[j + 1]
    <3> DEFINE a == SubSeq(q, 1, i - 1)
               b == SubSeq(q, i + 1, Len(q))
    <3>1. /\ a \in Seq(EventType) /\ Len(a) = i - 1
          /\ \A j \in 1 .. (i - 1) : a[j] = q[j]
      BY <2>1
    <3>2. /\ b \in Seq(EventType) /\ Len(b) = Len(q) - i
          /\ \A j \in 1 .. (Len(q) - i) : b[j] = q[i + j]
      <4>1. i + 1 \in Int /\ Len(q) \in Int /\ \A j \in (i + 1) .. Len(q) : q[j] \in EventType
        BY <2>1
      <4>2. /\ b \in Seq(EventType)
            /\ Len(b) = IF i + 1 <= Len(q) THEN Len(q) - (i + 1) + 1 ELSE 0
            /\ \A j \in 1 .. (Len(q) - (i + 1) + 1) : b[j] = q[i + 1 + j - 1]
        BY <4>1, SubSeqProperties
      <4>3. Len(q) - (i + 1) + 1 = Len(q) - i /\ \A j \in 1 .. (Len(q) - i) : i + 1 + j - 1 = i + j
        BY <2>1
      <4> HIDE DEF b
      <4>4. Len(b) = Len(q) - i
        <5>1. Len(b) = IF i + 1 <= Len(q) THEN Len(q) - (i + 1) + 1 ELSE 0
          BY <4>2, Zenon
        <5>2. i \in Int /\ Len(q) \in Int /\ i <= Len(q)
          BY <2>1
        <5>3. Len(q) - (i + 1) + 1 = Len(q) - i
          BY <5>2
        <5>4. CASE i + 1 <= Len(q)
          BY <5>1, <5>3, <5>4, Zenon
        <5>5. CASE ~(i + 1 <= Len(q))
          <6>1. Len(q) - i = 0
            BY <5>2, <5>5
          <6> QED
            BY <5>1, <5>5, <6>1, Zenon
        <5> QED
          BY <5>4, <5>5
      <4>5. ASSUME NEW j \in 1 .. (Len(q) - i) PROVE b[j] = q[i + j]
        <5>1. b[j] = q[i + 1 + j - 1]
          BY <4>2, <4>3
        <5>2. i + 1 + j - 1 = i + j
          BY <4>3
        <5> QED
          BY <5>1, <5>2
      <4> QED
        BY <4>2, <4>4, <4>5
    <3>3. t = a \o b
      BY DEF RemoveAt
    <3> HIDE DEF a, b, t
    <3>4. /\ t \in Seq(EventType) /\ Len(t) = Len(q) - 1
          /\ \A j \in 1 .. Len(t) : t[j] = IF j <= i - 1 THEN a[j] ELSE b[j - (i - 1)]
      <4>1. Len(a) + Len(b) = Len(q) - 1
        BY <2>1, <3>1, <3>2
      <4>2. /\ t \in Seq(EventType) /\ Len(t) = Len(a) + Len(b)
            /\ \A j \in 1 .. (Len(a) + Len(b)) : t[j] = IF j <= Len(a) THEN a[j] ELSE b[j - Len(a)]
        BY <3>1, <3>2, <3>3, ConcatProperties
      <4> QED
        BY <3>1, <4>1, <4>2
    <3>5. DOMAIN t = 1 .. (Len(q) - 1)
      BY <3>4
    <3>6. ASSUME NEW j \in 1 .. (Len(q) - 1), j < i PROVE t[j] = q[j]
      <4>1. j <= i - 1 /\ j \in 1 .. (i - 1) /\ j \in 1 .. Len(t)
        BY <2>1, <3>4, <3>6
      <4> QED
        BY <3>1, <3>4, <4>1
    <3>7. ASSUME NEW j \in 1 .. (Len(q) - 1), ~(j < i) PROVE t[j] = q[j + 1]
      <4>1. j - (i - 1) \in 1 .. (Len(q) - i) /\ i + (j - (i - 1)) = j + 1 /\ ~(j <= i - 1)
        BY <2>1, <3>7
      <4> QED
        BY <3>2, <3>4, <3>7, <4>1
    <3> QED
      BY <3>4, <3>5, <3>6, <3>7
  <2> HIDE DEF t
  <2>4. ASSUME NEW f, f # e, Has(q, f) PROVE Has(t, f)
    <3>1. PICK j \in 1 .. Len(q) : q[j] = f
      BY <2>1, <2>4 DEF Has
    <3>2. CASE j < i
      BY <2>1, <2>3, <3>1, <3>2 DEF Has
    <3>3. CASE j > i
      <4>1. j - 1 \in 1 .. (Len(q) - 1) /\ ~(j - 1 < i) /\ (j - 1) + 1 = j
        BY <2>1, <3>1, <3>3
      <4>2. t[j - 1] = f
        BY <2>3, <3>1, <4>1
      <4> QED
        BY <2>3, <4>1, <4>2 DEF Has
    <3> QED
      BY <2>1, <2>4, <3>1, <3>2, <3>3
  <2>5. ASSUME NEW f, Has(t, f) PROVE Has(q, f)
    BY <2>1, <2>3, <2>5 DEF Has
  <2>6. ASSUME Once(q, e) PROVE ~Has(t, e)
    BY <2>1, <2>3, <2>6 DEF Has, Once
  <2> QED
    BY <2>2, <2>3, <2>4, <2>5, <2>6
<1> QED
  BY <1>1, <1>2

\* The first event is taken.
LEMMA HasTail ==
    ASSUME NEW S, NEW q \in Seq(S), q # <<>>, NEW e
    PROVE  /\ Tail(q) \in Seq(S)
           /\ Has(Tail(q), e) => Has(q, e)
           /\ Head(q) # e /\ Has(q, e) => Has(Tail(q), e)
           /\ Once(q, e) => Once(Tail(q), e)
           /\ Once(q, e) /\ Head(q) = e => ~Has(Tail(q), e)
           /\ Has(q, Head(q))
<1>1. /\ Tail(q) \in Seq(S) /\ Len(q) \in Nat \ {0} /\ Len(Tail(q)) = Len(q) - 1
      /\ DOMAIN q = 1 .. Len(q) /\ DOMAIN Tail(q) = 1 .. (Len(q) - 1)
      /\ \A i \in 1 .. (Len(q) - 1) : Tail(q)[i] = q[i + 1]
      /\ Head(q) = q[1]
  BY HeadTailProperties, EmptySeq, LenProperties
<1>2. ASSUME Head(q) # e, Has(q, e) PROVE Has(Tail(q), e)
  <2>1. PICK i \in 1 .. Len(q) : q[i] = e
    BY <1>1, <1>2 DEF Has
  <2>2. i - 1 \in 1 .. (Len(q) - 1) /\ Tail(q)[i - 1] = q[i]
    BY <1>1, <1>2, <2>1
  <2> QED
    BY <1>1, <2>1, <2>2 DEF Has
<1> HIDE DEF Has, Once
<1>3. Has(Tail(q), e) => Has(q, e)
  BY <1>1 DEF Has
<1>4. Once(q, e) => Once(Tail(q), e)
  BY <1>1 DEF Once
<1>5. Once(q, e) /\ Head(q) = e => ~Has(Tail(q), e)
  BY <1>1 DEF Once, Has
<1> QED
  BY <1>1, <1>2, <1>3, <1>4, <1>5 DEF Has

\* An event is queued.
LEMMA HasAppend ==
    ASSUME NEW S, NEW q \in Seq(S), NEW x \in S, NEW e
    PROVE  /\ Append(q, x) \in Seq(S) /\ Append(q, x) # <<>>
           /\ Has(Append(q, x), e) <=> Has(q, e) \/ x = e
           /\ Once(q, e) /\ ~(x = e /\ Has(q, e)) => Once(Append(q, x), e)
<1>1. /\ Len(q) \in Nat /\ DOMAIN q = 1 .. Len(q)
      /\ Append(q, x) \in Seq(S) /\ DOMAIN Append(q, x) = 1 .. (Len(q) + 1)
      /\ \A i \in 1 .. Len(q) : Append(q, x)[i] = q[i]
      /\ Append(q, x)[Len(q) + 1] = x
  OBVIOUS
<1>2. Append(q, x) # <<>>
  BY <1>1, EmptySeq
<1>3. Has(Append(q, x), e) <=> Has(q, e) \/ x = e
  BY <1>1 DEF Has
<1>4. ASSUME Once(q, e), ~(x = e /\ Has(q, e)) PROVE Once(Append(q, x), e)
  BY <1>1, <1>4 DEF Once, Has
<1> QED
  BY <1>1, <1>2, <1>3, <1>4

-----------------------------------------------------------------------------
(* Each step of a callback keeps the types and what callbacks rely on. *)

CallbackInv == \A c \in Conns : Local(at[c], conn[c], evq[c], mask[c])
ConnInv == TypeInv /\ CallbackInv

LEMMA StepKeeps ==
    ASSUME ConnInv, NEW c \in Conns,
           NEW p \in Places, at' = [at EXCEPT ![c] = p],
           NEW r \in ConnType, conn' = [conn EXCEPT ![c] = r],
           NEW q \in Seq(EventType), evq' = [evq EXCEPT ![c] = q],
           NEW m \in SUBSET {"R", "W"}, mask' = [mask EXCEPT ![c] = m],
           Local(p, r, q, m),
           ev' \in [Conns -> EventType \cup {{}}],
           toSet' \in [Conns -> BOOLEAN],
           wire' \in [Conns -> Seq(Pieces)],
           client' \in [Conns -> [closed : BOOLEAN, last : Pieces \cup {"none"}, sent : 0 .. MaxSends]],
           listed' \subseteq Conns, timer' \in BOOLEAN,
           UNCHANGED <<tpc, tleft, tnote, tactive>>,
           activeRequests' \in Int,
           clientLoad' \in [IPs -> Nat]
    PROVE  ConnInv'
<1>1. TypeInv'
  BY DEF ConnInv, TypeInv
<1>2. ASSUME NEW d \in Conns PROVE Local(at[d], conn[d], evq[d], mask[d])'
  <2>1. CASE d = c
    <3>1. at'[c] = p /\ conn'[c] = r /\ evq'[c] = q /\ mask'[c] = m
      BY DEF ConnInv, TypeInv
    <3> QED
      BY <2>1, <3>1
  <2>2. CASE d # c
    <3>1. at'[d] = at[d] /\ conn'[d] = conn[d] /\ evq'[d] = evq[d] /\ mask'[d] = mask[d]
      BY <2>2 DEF ConnInv, TypeInv
    <3> QED
      BY <3>1 DEF ConnInv, CallbackInv
  <2> QED
    BY <2>1, <2>2
<1> QED
  BY <1>1, <1>2 DEF ConnInv, CallbackInv

\* A step that leaves the endpoint, the clients and the list alone.
LEMMA CallbackKeeps ==
    ASSUME ConnInv, NEW c \in Conns,
           NEW p \in Places, at' = [at EXCEPT ![c] = p],
           NEW r \in ConnType, conn' = [conn EXCEPT ![c] = r],
           NEW e \in EventType \cup {{}}, ev' = [ev EXCEPT ![c] = e],
           UNCHANGED <<evq, mask, toSet, wire, client, listed, timerVars, countVars>>,
           Local(p, r, evq[c], mask[c])
    PROVE  ConnInv'
<1>1. /\ evq[c] \in Seq(EventType) /\ evq' = [evq EXCEPT ![c] = evq[c]]
      /\ mask[c] \in SUBSET {"R", "W"} /\ mask' = [mask EXCEPT ![c] = mask[c]]
  BY DEF ConnInv, TypeInv
<1>2. ev' \in [Conns -> EventType \cup {{}}]
  BY DEF ConnInv, TypeInv
<1> QED
  BY <1>1, <1>2, StepKeeps DEF ConnInv, TypeInv, timerVars, countVars

\* What a connection has.
LEMMA OwnState ==
    ASSUME ConnInv, NEW c \in Conns
    PROVE  /\ at[c] \in Places /\ at = [at EXCEPT ![c] = at[c]]
           /\ conn[c] \in ConnType /\ conn = [conn EXCEPT ![c] = conn[c]]
           /\ ev[c] \in EventType \cup {{}} /\ ev = [ev EXCEPT ![c] = ev[c]]
           /\ evq[c] \in Seq(EventType) /\ evq = [evq EXCEPT ![c] = evq[c]]
           /\ mask[c] \in SUBSET {"R", "W"} /\ mask = [mask EXCEPT ![c] = mask[c]]
           /\ wire[c] \in Seq(Pieces)
           /\ Local(at[c], conn[c], evq[c], mask[c])
  BY DEF ConnInv, TypeInv, CallbackInv

\* The pump routes a request.
LEMMA RoutedType ==
    ASSUME NEW r \in ConnType
    PROVE  [r EXCEPT !.state = IF HasBody(r.kind) THEN "content" ELSE "ready",
                     !.eof = ~HasBody(r.kind), !.work = r.kind = "cgi"] \in ConnType
<1>1. ASSUME NEW state \in States, NEW eof \in BOOLEAN, NEW work \in BOOLEAN
      PROVE  [r EXCEPT !.state = state, !.eof = eof, !.work = work] \in ConnType
  BY <1>1 DEF ConnType
<1> DEFINE state == IF HasBody(r.kind) THEN "content" ELSE "ready"
           eof == ~HasBody(r.kind)
           work == r.kind = "cgi"
<1>2. state \in States /\ eof \in BOOLEAN /\ work \in BOOLEAN
  BY DEF States
<1> HIDE DEF state, eof, work
<1>3. [r EXCEPT !.state = state, !.eof = eof, !.work = work] \in ConnType
  BY <1>1, <1>2
<1> QED
  BY <1>3 DEF state, eof, work

LEMMA RouteKeeps ==
    ASSUME ConnInv, NEW c \in Conns, Route(c)
    PROVE  ConnInv'
<1> DEFINE r == conn[c]
           s == [r EXCEPT !.state = IF HasBody(r.kind) THEN "content" ELSE "ready",
                          !.eof = ~HasBody(r.kind), !.work = r.kind = "cgi"]
<1>1. at[c] \in {"pump", "readPump"} /\ r.state = "parsed"
  BY OwnState DEF Route, InState, Local, Stops
<1>2. conn' = [conn EXCEPT ![c] = s]
  BY DEF Route
<1>3. s \in ConnType
  BY OwnState, RoutedType
<1>4. Local(at[c], s, evq[c], mask[c])
  BY <1>1, OwnState DEF Local, Fresh, Opened, Stops, Reads, Answers, Awaits, Process, InWork, Rests, ConnType,
     InRequest, BeforeParsed, Between, HasBody
<1> HIDE DEF s
<1>5. UNCHANGED <<at, ev, evq, mask, toSet, wire, client, listed, timerVars, countVars>>
  BY DEF Route, PumpUnchanged, eventVars, peerVars
<1> QED
  BY <1>2, <1>3, <1>4, <1>5, OwnState, CallbackKeeps

\* Where the pump returns to.
LEMMA ReturnPlace ==
    ASSUME ConnInv, NEW c \in Conns, Return(c)
    PROVE  \E p \in {"after", "read", "rest"} :
              /\ at' = [at EXCEPT ![c] = p] /\ p \in Places
              /\ at[c] = "readPump" => p = "after"
              /\ p = "rest" <=> at[c] = "tail"
<1> DEFINE p == CASE at[c] = "tail" -> "rest"
                 [] at[c] = "pump" /\ "R" \in ev[c] -> "read"
                 [] OTHER -> "after"
<1>1. at' = [at EXCEPT ![c] = p]
  BY DEF Return
<1>2. CASE at[c] = "tail"
  BY <1>1, <1>2 DEF Places
<1>3. CASE at[c] # "tail" /\ at[c] = "pump" /\ "R" \in ev[c]
  BY <1>1, <1>3 DEF Places
<1>4. CASE at[c] # "tail" /\ ~(at[c] = "pump" /\ "R" \in ev[c])
  BY <1>1, <1>4 DEF Places
<1> QED
  BY <1>2, <1>3, <1>4

\* The pump reads a head.
LEMMA ParseKeeps ==
    ASSUME ConnInv, NEW c \in Conns, Parse(c)
    PROVE  ConnInv'
<1> DEFINE r == conn[c]
           opens == HasHead(r.input) /\ RequestAdmissible
           s == [r EXCEPT !.opened = opens, !.input = AfterHead(r.input)]
           k == HeadOf(r.input)
<1>1. at[c] \in {"pump", "readPump"} /\ r.state \in BeforeParsed
  BY OwnState DEF Parse, InState, Local, Stops, BeforeParsed
<1>2. /\ UNCHANGED <<evq, mask, toSet, wire, client, listed, timer, tpc, tleft, tnote, tactive, ev, clientLoad>>
      /\ activeRequests' = activeRequests + (IF opens THEN 1 ELSE 0)
  BY DEF Parse, PumpUnchanged, eventVars, peerVars, timerVars
<1>3. activeRequests' \in Int
  BY <1>2 DEF ConnInv, TypeInv
<1>4. r \in ConnType /\ Local(at[c], r, evq[c], mask[c]) /\ at[c] \in Places
  BY OwnState
\* Whatever the pump makes of the connection.
<1>5. ASSUME NEW p \in Places, at' = [at EXCEPT ![c] = p],
             NEW n \in ConnType, conn' = [conn EXCEPT ![c] = n],
             Local(p, n, evq[c], mask[c])
      PROVE  ConnInv'
  BY ZenonT(40), <1>2, <1>3, <1>5, StepKeeps, OwnState DEF ConnInv, TypeInv
<1>6. CASE ~HasHead(r.input) /\ Return(c) /\ UNCHANGED conn
  <2>1. at[c] = "readPump"
    <3>1. HasHead(<<"get">>)
      BY DEF HasHead
    <3> QED
      BY <1>1, <1>4, <1>6, <3>1 DEF Local, Stops
  <2>2. at' = [at EXCEPT ![c] = "after"] /\ "after" \in Places
    BY <1>6, <2>1, ReturnPlace
  <2>3. Local("after", r, evq[c], mask[c])
    BY <1>1, <1>4, <2>1 DEF Local, Fresh, Opened, Stops, Reads, Answers, Process, InWork, Rests, BeforeParsed, Between
  <2>4. conn' = [conn EXCEPT ![c] = r]
    BY <1>6, OwnState
  <2> QED
    BY <1>4, <1>5, <2>2, <2>3, <2>4
<1>7. ASSUME HasHead(r.input)
      PROVE  /\ s \in ConnType
             /\ k \notin Garbage => k \in Kinds \cup {"get"}
  <2>1. AfterHead(r.input) \in Seq(Pieces) /\ (k \notin Garbage => k \in Kinds \cup {"get"})
    <3>1. r.input \in Seq(Pieces)
      BY <1>4 DEF ConnType
    <3> QED
      BY <1>7, <3>1, HeadType
  <2>2. ASSUME NEW o \in BOOLEAN, NEW i \in Seq(Pieces)
        PROVE  [r EXCEPT !.opened = o, !.input = i] \in ConnType
    <3> HIDE DEF r
    <3> QED
      BY <1>4 DEF ConnType
  <2>3. opens \in BOOLEAN
    OBVIOUS
  <2> HIDE DEF r, opens
  <2> QED
    BY <2>1, <2>2, <2>3
<1>8. CASE HasHead(r.input) /\ k \in Garbage /\ conn' = [conn EXCEPT ![c] = Abort(s)] /\ Return(c)
  <2>1. at[c] = "readPump"
    <3>1. HeadOf(<<"get">>) \notin Garbage
      BY DEF HeadOf, Garbage
    <3> QED
      BY <1>1, <1>4, <1>8, <3>1 DEF Local, Stops
  <2>2. at' = [at EXCEPT ![c] = "after"] /\ "after" \in Places
    BY <1>8, <2>1, ReturnPlace
  <2> HIDE DEF opens
  <2>3. Local("after", Abort(s), evq[c], mask[c])
    BY <1>1, <1>4, <2>1 DEF Local, Fresh, Opened, Stops, Reads, Answers, Process, InWork, Awaits, Rests, BeforeParsed, Between, Abort, ConnType, InRequest
  <2> HIDE DEF s
  <2> QED
    BY <1>5, <1>7, <1>8, <2>2, <2>3, AbortType
<1>9. CASE HasHead(r.input) /\ k \notin Garbage /\ opens /\ UNCHANGED at
           /\ conn' = [conn EXCEPT ![c] = [s EXCEPT !.state = "parsed", !.kind = k,
                                                    !.keep = IF k = "last" THEN 0 ELSE s.keep]]
  <2> DEFINE n == [s EXCEPT !.state = "parsed", !.kind = k, !.keep = IF k = "last" THEN 0 ELSE s.keep]
  <2>1. n \in ConnType
    <3>1. s \in ConnType /\ k \in Kinds \cup {"get"}
      BY <1>7, <1>9
    <3> HIDE DEF s, k
    <3>2. (IF k = "last" THEN 0 ELSE s.keep) \in -1 .. KeepAliveMax
      BY <3>1, Limits DEF ConnType
    <3>3. "parsed" \in States
      BY DEF States
    <3> QED
      BY <3>1, <3>2, <3>3 DEF ConnType
  <2> HIDE DEF opens, k
  <2>a. /\ n.state = "parsed" /\ n.endpoint = r.endpoint /\ n.out = r.out /\ n.work = r.work
        /\ n.eof = r.eof /\ n.ip = r.ip
    <3>1. s \in ConnType
      BY <1>7, <1>9
    <3>2. s.endpoint = r.endpoint /\ s.out = r.out /\ s.work = r.work /\ s.eof = r.eof /\ s.ip = r.ip
      BY <1>4 DEF ConnType
    <3> HIDE DEF s
    <3> QED
      BY <3>1, <3>2 DEF ConnType
  <2> HIDE DEF n, s
  <2>2. Local(at[c], n, evq[c], mask[c])
    <3> HIDE DEF r
    <3>1. Fresh(at[c], n) /\ Opened(at[c], n) /\ Stops(at[c], n) /\ Reads(at[c], n)
      BY <1>1, <1>4, <2>a DEF Local, Fresh, Opened, Stops, Reads, BeforeParsed, Between, InRequest
    <3>2. Answers(at[c], n)
      BY <1>1, <1>4, <2>a DEF Local, Reads, Answers, BeforeParsed, Dying
    <3>3. Process(at[c], n, evq[c])
      BY <1>1, <1>4, <2>a DEF Local, Process, InWork, Awaits, BeforeParsed
    <3> QED
      BY <1>1, <3>1, <3>2, <3>3 DEF Local, Rests
  <2>3. conn' = [conn EXCEPT ![c] = n] /\ at' = [at EXCEPT ![c] = at[c]]
    BY <1>9, OwnState DEF n
  <2> QED
    BY <1>4, <1>5, <2>1, <2>2, <2>3
<1>10. CASE HasHead(r.input) /\ k \notin Garbage /\ ~opens /\ UNCHANGED at
            /\ conn' = [conn EXCEPT ![c] =
                  Finalize([s EXCEPT !.state = "parsed", !.kind = "refused", !.input = <<"junk">> \o s.input])]
  <2> DEFINE n == [s EXCEPT !.state = "parsed", !.kind = "refused", !.input = <<"junk">> \o s.input]
  <2>1. n \in ConnType
    <3>1. s \in ConnType
      BY <1>7, <1>10
    <3> HIDE DEF s
    <3>2. <<"junk">> \o s.input \in Seq(Pieces)
      <4>1. s.input \in Seq(Pieces) /\ <<"junk">> \in Seq(Pieces)
        BY <3>1 DEF ConnType, Pieces
      <4> QED
        BY <4>1, ConcatProperties
    <3>3. "parsed" \in States
      BY DEF States
    <3> QED
      BY <3>1, <3>2, <3>3 DEF ConnType
  <2> HIDE DEF opens
  <2>2. Local(at[c], Finalize(n), evq[c], mask[c])
    BY <1>1, <1>4, <1>10 DEF Local, Fresh, Opened, Stops, Reads, Answers, Process, InWork, Awaits, Rests, BeforeParsed, Between, ConnType, InRequest, Finalize
  <2> HIDE DEF n
  <2> QED
    BY <1>4, <1>5, <1>10, <2>1, <2>2, OwnState, FinalizeType DEF n
<1> QED
  BY <1>6, <1>8, <1>9, <1>10 DEF Parse

\* The pump reads a body.
LEMMA ContentKeeps ==
    ASSUME ConnInv, NEW c \in Conns, Content(c)
    PROVE  ConnInv'
<1> DEFINE r == conn[c]
           more == [r EXCEPT !.input = Tail(r.input), !.eof = TRUE, !.state = "ready"]
           gone == [Abort(r) EXCEPT !.state = "ready"]
<1>1. at[c] \in {"pump", "readPump"} /\ r.state = "content"
  BY OwnState DEF Content, InState, Local, Stops
<1>2. UNCHANGED <<ev, evq, mask, toSet, wire, client, listed, timerVars, countVars>>
  BY DEF Content, PumpUnchanged, eventVars, peerVars
<1>3. r \in ConnType /\ Local(at[c], r, evq[c], mask[c]) /\ "ready" \in States /\ r.input \in Seq(Pieces)
  BY OwnState DEF States, ConnType
<1>4. CASE r.input # <<>> /\ conn' = [conn EXCEPT ![c] = more] /\ UNCHANGED at
  <2>1. more \in ConnType
    <3>1. Tail(r.input) \in Seq(Pieces)
      BY <1>3, <1>4, HeadTailProperties
    <3> HIDE DEF r
    <3> QED
      BY <1>3, <3>1 DEF ConnType
  <2>2. Local(at[c], more, evq[c], mask[c])
    BY <1>1, <1>3 DEF Local, Fresh, Opened, Stops, Reads, Answers, Process, InWork, Awaits, Rests, ConnType,
     InRequest, BeforeParsed, Between, Dying, HasBody
  <2> HIDE DEF more
  <2> QED
    BY <1>2, <1>4, <2>1, <2>2, OwnState, CallbackKeeps
<1>5. CASE conn' = [conn EXCEPT ![c] = gone] /\ UNCHANGED at
  <2>1. gone \in ConnType
    <3>1. Abort(r) \in ConnType
      BY <1>3, AbortType
    <3> HIDE DEF r
    <3> QED
      BY <1>3, <3>1 DEF ConnType
  <2>2. Local(at[c], gone, evq[c], mask[c])
    BY <1>1, <1>3 DEF Local, Fresh, Opened, Stops, Reads, Answers, Process, InWork, Awaits, Rests, ConnType,
     InRequest, BeforeParsed, Between, Dying, Abort
  <2> HIDE DEF gone
  <2> QED
    BY <1>2, <1>5, <2>1, <2>2, OwnState, CallbackKeeps
<1>6. CASE Return(c) /\ UNCHANGED conn
  <2>1. PICK p \in {"after", "read"} : at' = [at EXCEPT ![c] = p] /\ p \in Places
    BY <1>1, <1>6, ReturnPlace
  <2>2. Local(p, r, evq[c], mask[c])
    BY <1>1, <1>3, <2>1 DEF Local, Fresh, Opened, Stops, Reads, Answers, Process, InWork, Awaits, Rests, ConnType,
     InRequest, BeforeParsed, Between, Dying
  <2> QED
    BY <1>2, <1>3, <1>6, <2>1, <2>2, OwnState, CallbackKeeps
<1> QED
  BY <1>4, <1>5, <1>6 DEF Content

\* The pump starts the handler.
LEMMA ReadyKeeps ==
    ASSUME ConnInv, NEW c \in Conns, Ready(c)
    PROVE  ConnInv'
<1> DEFINE r == conn[c]
           s == [r EXCEPT !.state = "running"]
           n == IF s.out # "none" \/ s.kind = "cgi" THEN s
                ELSE IF s.kind = "errdoc" THEN [s EXCEPT !.out = "done"] ELSE Finalize(s)
<1>1. at[c] \in {"pump", "readPump"} /\ r.state = "ready"
  BY OwnState DEF Ready, InState, Local, Stops
<1>2. UNCHANGED <<at, ev, evq, mask, toSet, wire, client, listed, timerVars, countVars>>
  BY DEF Ready, PumpUnchanged, eventVars, peerVars
<1>3. r \in ConnType /\ Local(at[c], r, evq[c], mask[c]) /\ "running" \in States
  BY OwnState DEF States
<1>4. conn' = [conn EXCEPT ![c] = n]
  BY DEF Ready
<1>5. s \in ConnType /\ [s EXCEPT !.out = "done"] \in ConnType /\ Finalize(s) \in ConnType
  <2> HIDE DEF r
  <2>1. s \in ConnType
    BY <1>3 DEF ConnType
  <2> HIDE DEF s
  <2>2. [s EXCEPT !.out = "done"] \in ConnType
    BY <2>1 DEF ConnType
  <2> QED
    BY <2>1, <2>2, FinalizeType
<1>6. n \in ConnType
  BY <1>5
<1>7. Local(at[c], n, evq[c], mask[c])
  <2>1. CASE r.out # "none" \/ r.kind = "cgi"
    <3>1. n = s
      BY <1>3, <2>1 DEF ConnType
    <3>2. Local(at[c], s, evq[c], mask[c])
      BY <1>1, <1>3, <2>1 DEF Local, Fresh, Opened, Stops, Reads, Answers, Process, InWork, Awaits, Rests, ConnType,
     InRequest, BeforeParsed, Between, Dying
    <3> QED
      BY <3>1, <3>2
  <2>2. CASE r.out = "none" /\ r.kind = "errdoc"
    <3>1. n = [s EXCEPT !.out = "done"]
      BY <1>3, <2>2 DEF ConnType
    <3>2. Local(at[c], [s EXCEPT !.out = "done"], evq[c], mask[c])
      BY <1>1, <1>3, <2>2 DEF Local, Fresh, Opened, Stops, Reads, Answers, Process, InWork, Awaits, Rests, ConnType,
     InRequest, BeforeParsed, Between, Dying
    <3> QED
      BY <3>1, <3>2
  <2>3. CASE r.out = "none" /\ r.kind \notin {"cgi", "errdoc"}
    <3>1. n = Finalize(s)
      BY <1>3, <2>3 DEF ConnType
    <3>2. Local(at[c], Finalize(s), evq[c], mask[c])
      BY <1>1, <1>3, <2>3 DEF Local, Fresh, Opened, Stops, Reads, Answers, Process, InWork, Awaits, Rests, ConnType,
     InRequest, BeforeParsed, Between, Dying, Finalize
    <3> QED
      BY <3>1, <3>2
  <2> QED
    BY <2>1, <2>2, <2>3
<1> HIDE DEF n
<1> QED
  BY <1>2, <1>4, <1>6, <1>7, OwnState, CallbackKeeps

\* The pump writes the response.
LEMMA RunningKeeps ==
    ASSUME ConnInv, NEW c \in Conns, Running(c)
    PROVE  ConnInv'
<1> DEFINE r == conn[c]
           done == [r EXCEPT !.out = "done", !.state = "finalized"]
           gone == [Abort(r) EXCEPT !.state = "finalized"]
           full == [r EXCEPT !.blocked = TRUE]
<1>1. at[c] \in {"pump", "readPump"} /\ r.state = "running"
  BY OwnState DEF Running, InState, Local, Stops
<1>2. UNCHANGED <<ev, evq, toSet, wire, client, listed, timerVars, countVars>>
  BY DEF Running, PumpUnchanged, peerVars
<1>3. r \in ConnType /\ Local(at[c], r, evq[c], mask[c]) /\ "finalized" \in States
  BY OwnState DEF States
<1>4. CASE r.out = "none" /\ Return(c) /\ UNCHANGED <<conn, mask>>
  <2>1. PICK p \in {"after", "read"} : at' = [at EXCEPT ![c] = p] /\ p \in Places
    BY <1>1, <1>4, ReturnPlace
  <2>2. Local(p, r, evq[c], mask[c])
    BY <1>1, <1>3, <1>4, <2>1 DEF Local, Fresh, Opened, Stops, Reads, Answers, Process, InWork, Awaits, Rests, ConnType,
     InRequest, BeforeParsed, Between, Dying
  <2> QED
    BY <1>2, <1>3, <1>4, <2>1, <2>2, OwnState, CallbackKeeps
<1>5. CASE r.out \in {"final", "done"} /\ conn' = [conn EXCEPT ![c] = done] /\ UNCHANGED <<at, mask>>
  <2>1. done \in ConnType
    <3> HIDE DEF r
    <3> QED
      BY <1>3 DEF ConnType
  <2>2. Local(at[c], done, evq[c], mask[c])
    BY <1>1, <1>3, <1>5 DEF Local, Fresh, Opened, Stops, Reads, Answers, Process, InWork, Awaits, Rests, ConnType,
     InRequest, BeforeParsed, Between, Dying
  <2> HIDE DEF done
  <2> QED
    BY <1>2, <1>5, <2>1, <2>2, OwnState, CallbackKeeps
<1>6. CASE r.out # "done" /\ conn' = [conn EXCEPT ![c] = gone] /\ UNCHANGED <<at, mask>>
  <2>1. gone \in ConnType
    <3>1. Abort(r) \in ConnType
      BY <1>3, AbortType
    <3> HIDE DEF r
    <3> QED
      BY <1>3, <3>1 DEF ConnType
  <2>2. Local(at[c], gone, evq[c], mask[c])
    BY <1>1, <1>3, <1>6 DEF Local, Fresh, Opened, Stops, Reads, Answers, Process, InWork, Awaits, Rests, ConnType,
     InRequest, BeforeParsed, Between, Dying, Abort
  <2> HIDE DEF gone
  <2> QED
    BY <1>2, <1>6, <2>1, <2>2, OwnState, CallbackKeeps
<1>7. CASE r.out # "done" /\ conn' = [conn EXCEPT ![c] = full] /\ Return(c)
           /\ mask' = [mask EXCEPT ![c] = WaitMask(conn'[c])]
  <2>1. full \in ConnType
    <3> HIDE DEF r
    <3> QED
      BY <1>3 DEF ConnType
  <2>2. PICK p \in {"after", "read"} : at' = [at EXCEPT ![c] = p] /\ p \in Places
    BY <1>1, <1>7, ReturnPlace
  <2>3. WaitMask(conn'[c]) \in SUBSET {"R", "W"}
    BY DEF WaitMask
  <2> DEFINE m == WaitMask(conn'[c])
  <2>4. Local(p, full, evq[c], m)
    BY <1>1, <1>3, <1>7, <2>2 DEF Local, Fresh, Opened, Stops, Reads, Answers, Process, InWork, Awaits, Rests, ConnType,
     InRequest, BeforeParsed, Between, Dying
  <2> HIDE DEF full, m
  <2>5. mask' = [mask EXCEPT ![c] = m] /\ conn' = [conn EXCEPT ![c] = full]
    BY <1>7 DEF m
  <2>6. m \in SUBSET {"R", "W"}
    BY <2>3 DEF m
  <2>7. /\ ev' \in [Conns -> EventType \cup {{}}] /\ toSet' \in [Conns -> BOOLEAN]
        /\ wire' \in [Conns -> Seq(Pieces)] /\ activeRequests' \in Int /\ clientLoad' \in [IPs -> Nat]
        /\ client' \in [Conns -> [closed : BOOLEAN, last : Pieces \cup {"none"}, sent : 0 .. MaxSends]]
        /\ listed' \subseteq Conns /\ timer' \in BOOLEAN
        /\ UNCHANGED <<tpc, tleft, tnote, tactive>>
    BY <1>2 DEF ConnInv, TypeInv, timerVars, countVars
  <2>8. evq[c] \in Seq(EventType) /\ evq' = [evq EXCEPT ![c] = evq[c]]
    BY <1>2, OwnState
  <2> QED
    BY <2>1, <2>2, <2>4, <2>5, <2>6, <2>7, <2>8, StepKeeps
<1> QED
  BY <1>4, <1>5, <1>6, <1>7 DEF Running

\* The pump completes a request.
LEMMA CompleteKeeps ==
    ASSUME ConnInv, NEW c \in Conns, Complete(c)
    PROVE  ConnInv'
<1> DEFINE r == conn[c]
           s == [r EXCEPT !.opened = FALSE, !.work = FALSE]
           again == [s EXCEPT !.state = "connected", !.kind = "none", !.out = "none",
                              !.eof = FALSE, !.input = <<"get">>]
           over == [s EXCEPT !.state = "complete"]
           n == IF s.kind = "errdoc" /\ ~s.connError THEN again ELSE over
           q == Without(evq[c], {"done"})
<1>1. at[c] \in {"pump", "readPump", "tail"} /\ r.state = "finalized"
  BY DEF Complete, InState
<1>2. /\ UNCHANGED <<at, ev, mask, toSet, wire, client, listed, timer, tpc, tleft, tnote, tactive, clientLoad>>
      /\ activeRequests' \in Int
  BY DEF Complete, CloseRequest, PumpUnchanged, peerVars, timerVars, ConnInv, TypeInv
<1>3. r \in ConnType /\ Local(at[c], r, evq[c], mask[c])
  BY OwnState
<1>4. conn' = [conn EXCEPT ![c] = n]
  BY DEF Complete
<1>5. again \in ConnType /\ over \in ConnType
  <2> HIDE DEF r
  <2>1. s \in ConnType
    BY <1>3 DEF ConnType
  <2>2. <<"get">> \in Seq(Pieces) /\ "connected" \in States /\ "complete" \in States
    BY DEF Pieces, States, Between, BeforeParsed
  <2> HIDE DEF s
  <2> QED
    BY <2>1, <2>2 DEF ConnType
<1>a. q \in Seq(EventType) /\ ~Has(q, {"done"}) /\ Once(q, {"done"})
  <2>1. q \in Seq(EventType) /\ ~Has(q, {"done"})
    BY <1>3, WithoutType, OwnState DEF Local, Process
  <2> QED
    BY <2>1 DEF Has, Once
<1>b. evq' = [evq EXCEPT ![c] = q]
  BY DEF Complete
<1> HIDE DEF q
<1>6. ASSUME r.kind = "errdoc", ~r.connError PROVE Local(at[c], again, q, mask[c])
  BY <1>1, <1>3, <1>6, <1>a DEF Local, Fresh, Opened, Stops, Reads, Answers, Process, InWork, Awaits, Rests, ConnType,
     InRequest, BeforeParsed, Between, Dying
<1>d. /\ over.state = "complete" /\ ~over.opened /\ ~over.work /\ over.left = r.left
      /\ over.endpoint = r.endpoint /\ over.ip = r.ip /\ over.kind = r.kind /\ over.out = r.out
  BY <1>3 DEF ConnType
<1>7. Local(at[c], over, q, mask[c])
  <2> HIDE DEF over, r
  <2>1. /\ r.state = "finalized" /\ (~r.endpoint => at[c] \in {"unlist", "close"} /\ ~r.opened)
        /\ (at[c] = "tail" => r.left) /\ at[c] \in {"pump", "readPump", "tail"}
    BY <1>1, <1>3 DEF Local, Opened, Stops
  <2>2. Fresh(at[c], over) /\ Opened(at[c], over) /\ Stops(at[c], over)
    BY <1>d, <2>1 DEF Fresh, Opened, Stops, BeforeParsed
  <2>3. Reads(at[c], over) /\ Answers(at[c], over) /\ Rests(at[c], over, q, mask[c])
    BY <1>d, <1>1, <1>3 DEF Local, Reads, Answers, Rests, BeforeParsed
  <2>4. Process(at[c], over, q)
    BY <1>d, <1>a DEF Process, Awaits
  <2> QED
    BY <2>2, <2>3, <2>4 DEF Local
<1>c. s.kind = r.kind /\ s.connError = r.connError
  BY <1>3 DEF ConnType
<1> HIDE DEF again, over, s
<1>8. n \in ConnType /\ Local(at[c], n, q, mask[c])
  BY <1>5, <1>6, <1>7, <1>c
<1> HIDE DEF n
<1> QED
  BY ZenonT(40), <1>2, <1>4, <1>8, <1>a, <1>b, StepKeeps, OwnState DEF ConnInv, TypeInv

\* The rest of a request is dropped, with a timeout that is under way.
LEMMA PreparedKeeps ==
    ASSUME ConnInv, NEW c \in Conns, conn[c].state = "complete", at[c] \in {"readPump", "after"},
           NEW p \in {"readPump", "after", "rest"}, at' = [at EXCEPT ![c] = p],
           conn' = [conn EXCEPT ![c] = Prepared(@)],
           RevokeTimeout(c),
           NEW m \in SUBSET {"R", "W"}, mask' = [mask EXCEPT ![c] = m],
           p = "rest" => m = WaitMask(Prepared(conn[c])) /\ conn[c].keep >= 0,
           ev' \in [Conns -> EventType \cup {{}}],
           UNCHANGED <<wire, client, listed, timerVars, countVars>>
    PROVE  ConnInv'
<1> DEFINE r == conn[c]
           n == Prepared(r)
           q == IF toSet[c] THEN Without(evq[c], {"timeout"}) ELSE evq[c]
<1>1. r \in ConnType /\ Local(at[c], r, evq[c], mask[c]) /\ evq[c] \in Seq(EventType)
  BY OwnState
<1>2. n \in ConnType
  BY <1>1, PreparedType
<1>3. q \in Seq(EventType) /\ ~Has(q, {"done"})
  <2>1. ~Has(evq[c], {"done"})
    BY <1>1 DEF Local, Process, InWork, Awaits
  <2> QED
    BY <1>1, <2>1, WithoutType
<1>4. evq' = [evq EXCEPT ![c] = q] /\ toSet' \in [Conns -> BOOLEAN]
  BY OwnState DEF RevokeTimeout, ConnInv, TypeInv
<1> HIDE DEF q
<1>5. Local(p, n, q, m)
  <2>1. Process(p, n, q)
    BY <1>1, <1>3 DEF Local, Process, InWork, Awaits, Prepared, ConnType, Once, Has
  <2>2. Fresh(p, n) /\ Opened(p, n) /\ Stops(p, n) /\ Reads(p, n) /\ Answers(p, n)
    BY <1>1 DEF Local, Fresh, Opened, Stops, Reads, Answers, ConnType, Prepared,
       InRequest, BeforeParsed, Between, Dying
  <2>3. Rests(p, n, q, m)
    BY <1>1 DEF Rests, Prepared, ConnType
  <2> QED
    BY <2>1, <2>2, <2>3 DEF Local
<1> HIDE DEF n
<1>6. p \in Places /\ conn' = [conn EXCEPT ![c] = n]
  BY DEF Places, n
<1> QED
  BY <1>2, <1>3, <1>4, <1>5, <1>6, StepKeeps DEF ConnInv, TypeInv, timerVars, countVars

\* The pump ends.
LEMMA PumpEndsKeeps ==
    ASSUME ConnInv, NEW c \in Conns, PumpEnds(c)
    PROVE  ConnInv'
<1> DEFINE r == conn[c]
<1>1. at[c] \in {"pump", "readPump", "tail"} /\ r.state = "complete"
  BY DEF PumpEnds, InState
<1>2. UNCHANGED <<ev, mask, wire, client, listed, timerVars, countVars>>
  BY DEF PumpEnds, PumpUnchanged, peerVars
<1>3. r \in ConnType /\ Local(at[c], r, evq[c], mask[c])
  BY OwnState
<1>4. CASE /\ at[c] = "readPump" /\ conn' = [conn EXCEPT ![c] = Prepared(@)] /\ RevokeTimeout(c)
           /\ at' = [at EXCEPT ![c] = IF conn[c].input # <<>> THEN @ ELSE "after"]
  <2>1. PICK p \in {"readPump", "after"} : at' = [at EXCEPT ![c] = p]
    BY <1>4
  <2> QED
    <3>1. ev' \in [Conns -> EventType \cup {{}}]
      BY <1>2 DEF ConnInv, TypeInv
    <3> QED
      BY ZenonT(40), <1>1, <1>2, <1>4, <2>1, <3>1, PreparedKeeps, OwnState
<1>5. CASE Return(c) /\ UNCHANGED <<conn, evq, toSet>>
  <2>1. PICK p \in {"after", "read", "rest"} :
             at' = [at EXCEPT ![c] = p] /\ p \in Places /\ (p = "rest" => at[c] = "tail")
    BY <1>5, ReturnPlace
  <2>2. Local(p, r, evq[c], mask[c])
    BY <1>1, <1>3, <2>1 DEF Local, Fresh, Opened, Stops, Reads, Answers, Process, InWork, Awaits, Rests, ConnType,
     InRequest, BeforeParsed, Between, Dying
  <2> QED
    BY <1>2, <1>3, <1>5, <2>1, <2>2, OwnState, CallbackKeeps
<1> QED
  BY <1>4, <1>5 DEF PumpEnds

\* A callback ends.
LEMMA AfterKeeps ==
    ASSUME ConnInv, NEW c \in Conns, After(c)
    PROVE  ConnInv'
<1> DEFINE r == conn[c]
<1>1. at[c] = "after" /\ ev' = [ev EXCEPT ![c] = {}] /\ UNCHANGED <<wire, client, listed, timerVars, countVars>>
  BY DEF After, peerVars
<1>a. ev' \in [Conns -> EventType \cup {{}}]
  BY <1>1 DEF ConnInv, TypeInv
<1>2. r \in ConnType /\ Local(at[c], r, evq[c], mask[c])
  BY OwnState
<1>3. CASE at' = [at EXCEPT ![c] = "unlist"] /\ UNCHANGED <<conn, eventVars>>
  <2>1. Local("unlist", r, evq[c], mask[c])
    BY <1>1, <1>2 DEF Local, Fresh, Opened, Stops, Reads, Answers, Process, InWork, Awaits, Rests, ConnType,
     InRequest, BeforeParsed, Between, Dying
  <2> QED
    BY ZenonT(40), <1>1, <1>2, <1>3, <2>1, OwnState, CallbackKeeps DEF Places, eventVars
<1>4. CASE /\ ~Ends(r) /\ r.state = "complete"
           /\ conn' = [conn EXCEPT ![c] = Prepared(@)] /\ RevokeTimeout(c)
           /\ mask' = [mask EXCEPT ![c] = WaitMask(conn'[c])]
           /\ at' = [at EXCEPT ![c] = "rest"]
  <2>1. WaitMask(conn'[c]) \in SUBSET {"R", "W"} /\ conn'[c] = Prepared(r)
    BY <1>4, OwnState DEF WaitMask, ConnInv, TypeInv
  <2>2. r.keep >= 0
    BY <1>2, <1>4, Limits DEF Ends, ConnType, Between
  <2> QED
    BY <1>1, <1>a, <1>4, <2>1, <2>2, PreparedKeeps
<1>5. CASE /\ ~Ends(r) /\ r.state # "complete" /\ UNCHANGED <<conn, evq, toSet>>
           /\ mask' = [mask EXCEPT ![c] = WaitMask(conn'[c])]
           /\ at' = [at EXCEPT ![c] = "rest"]
  <2>1. WaitMask(conn'[c]) \in SUBSET {"R", "W"} /\ conn'[c] = r
    BY <1>5 DEF WaitMask
  <2>2. Local("rest", r, evq[c], WaitMask(r))
    BY <1>1, <1>2, <1>5 DEF Ends, Local, Fresh, Opened, Stops, Reads, Answers, Process, InWork, Awaits, Rests, ConnType,
     InRequest, BeforeParsed, Between, Dying
  <2> QED
    BY <1>1, <1>a, <1>2, <1>5, <2>1, <2>2, StepKeeps, OwnState DEF ConnInv, TypeInv, timerVars, countVars, Places
<1> QED
  BY <1>3, <1>4, <1>5 DEF After

\* The dispatcher takes an event off the queue.
LEMMA TakeKeeps ==
    ASSUME ConnInv, NEW c \in Conns, evq[c] # <<>>,
           NEW p \in Places, at' = [at EXCEPT ![c] = p],
           NEW r \in ConnType, conn' = [conn EXCEPT ![c] = r],
           NEW e \in EventType \cup {{}}, ev' = [ev EXCEPT ![c] = e],
           evq' = [evq EXCEPT ![c] = Tail(@)],
           UNCHANGED <<mask, toSet, wire, client, listed, timerVars, countVars>>,
           Local(p, r, Tail(evq[c]), mask[c])
    PROVE  ConnInv'
<1>1. Tail(evq[c]) \in Seq(EventType) /\ evq' = [evq EXCEPT ![c] = Tail(evq[c])]
  BY OwnState, HeadTailProperties
<1>2. mask[c] \in SUBSET {"R", "W"} /\ mask' = [mask EXCEPT ![c] = mask[c]]
  BY OwnState
<1>3. ev' \in [Conns -> EventType \cup {{}}]
  BY DEF ConnInv, TypeInv
<1> QED
  BY <1>1, <1>2, <1>3, StepKeeps DEF ConnInv, TypeInv, timerVars, countVars

LEMMA IoEventKeeps ==
    ASSUME ConnInv, NEW c \in Conns, IoEvent(c)
    PROVE  ConnInv'
<1> DEFINE r == conn[c]
           e == Head(evq[c])
           pumps == "W" \in e /\ r.state \notin BeforeParsed
           n == [r EXCEPT !.blocked = r.blocked /\ "W" \notin e]
           p == IF pumps THEN "pump" ELSE IF "R" \in e THEN "read" ELSE "after"
<1>1. at[c] = "rest" /\ evq[c] # <<>> /\ e \subseteq {"R", "W"}
  BY DEF IoEvent, Begins
<1>2. /\ UNCHANGED <<mask, toSet, wire, client, listed, timerVars, countVars>>
      /\ evq' = [evq EXCEPT ![c] = Tail(@)] /\ ev' = [ev EXCEPT ![c] = e]
  BY DEF IoEvent, peerVars
<1>3. conn' = [conn EXCEPT ![c] = n]
  BY DEF IoEvent
<1>4. at' = [at EXCEPT ![c] = p]
  BY DEF IoEvent
<1>5. r \in ConnType /\ Local(at[c], r, evq[c], mask[c]) /\ evq[c] \in Seq(EventType)
  BY OwnState
<1>6. e \in EventType
  BY <1>1, <1>5, HeadTailProperties
<1>7. e # {"done"} /\ Tail(evq[c]) \in Seq(EventType)
      /\ (Has(Tail(evq[c]), {"done"}) <=> Has(evq[c], {"done"}))
      /\ Once(Tail(evq[c]), {"done"})
  <2>1. e # {"done"}
    BY <1>1
  <2> QED
    BY <1>1, <1>5, <2>1, HasTail DEF Local, Process, InWork
<1> HIDE DEF e
<1>8. n \in ConnType
  <2>1. (r.blocked /\ "W" \notin e) \in BOOLEAN
    OBVIOUS
  <2>2. ASSUME NEW b \in BOOLEAN PROVE [r EXCEPT !.blocked = b] \in ConnType
    <3> HIDE DEF r
    <3> QED
      BY <1>5 DEF ConnType
  <2> QED
    BY <2>1, <2>2
<1>9. Local(p, n, Tail(evq[c]), mask[c])
  <2>1. Process(p, n, Tail(evq[c]))
    BY <1>1, <1>5, <1>7 DEF Local, Process, InWork, Awaits, ConnType, BeforeParsed
  <2>2. Fresh(p, n) /\ Opened(p, n) /\ Stops(p, n) /\ Reads(p, n) /\ Answers(p, n)
    BY <1>1, <1>5 DEF Local, Fresh, Opened, Stops, Reads, Answers, ConnType,
       InRequest, BeforeParsed, Between, Dying
  <2>3. p # "rest"
    OBVIOUS
  <2> QED
    BY <2>1, <2>2, <2>3 DEF Local, Rests
<1>10. p \in Places
  BY SMTT(40) DEF Places
<1> HIDE DEF n, p
<1> QED
  BY <1>1, <1>2, <1>3, <1>4, <1>6, <1>8, <1>9, <1>10, TakeKeeps

LEMMA CgiEventKeeps ==
    ASSUME ConnInv, NEW c \in Conns, CgiEvent(c)
    PROVE  ConnInv'
<1> DEFINE r == conn[c]
<1>1. at[c] = "rest" /\ evq[c] # <<>> /\ Head(evq[c]) \subseteq {"done"}
  BY DEF CgiEvent, Begins
<1>2. /\ UNCHANGED <<mask, toSet, wire, client, listed, timerVars, countVars>>
      /\ evq' = [evq EXCEPT ![c] = Tail(@)] /\ ev' = [ev EXCEPT ![c] = {"done"}]
      /\ at' = [at EXCEPT ![c] = "pump"]
  BY DEF CgiEvent, peerVars
<1>3. r \in ConnType /\ Local(at[c], r, evq[c], mask[c]) /\ evq[c] \in Seq(EventType)
  BY OwnState
<1>4. Head(evq[c]) = {"done"}
  <2>1. Head(evq[c]) \in EventType
    BY <1>1, <1>3, HeadTailProperties
  <2> QED
    BY <1>1, <2>1 DEF EventType
<1>5. Has(evq[c], {"done"}) /\ ~Has(Tail(evq[c]), {"done"}) /\ Once(Tail(evq[c]), {"done"})
  <2>1. Once(evq[c], {"done"})
    BY <1>3 DEF Local, Process, InWork
  <2> QED
    BY <1>1, <1>3, <1>4, <2>1, HasTail
<1>6. r.state = "running" /\ ~r.work
  BY <1>1, <1>3, <1>5 DEF Local, Process, InWork, Stops, Between, BeforeParsed
\* The answer is finished, if it has not been before.
<1>7. ASSUME NEW n \in ConnType, conn' = [conn EXCEPT ![c] = n],
             n = r \/ n = Finalize(r), n.out # "none", n.kind = "errdoc" => n.out # "final"
      PROVE  ConnInv'
  <2>a. /\ n.state = r.state /\ n.work = r.work /\ n.opened = r.opened /\ n.endpoint = r.endpoint
        /\ n.eof = r.eof /\ n.kind = r.kind /\ n.left = r.left
    BY <1>3, <1>7 DEF Finalize, ConnType
  <2>1. Process("pump", n, Tail(evq[c]))
    BY <1>3, <1>5, <1>6, <1>7, <2>a DEF Process, InWork, Awaits
  <2>2. Fresh("pump", n) /\ Opened("pump", n) /\ Stops("pump", n) /\ Reads("pump", n) /\ Answers("pump", n)
    BY <1>1, <1>3, <1>6, <1>7, <2>a DEF Local, Fresh, Opened, Stops, Reads, Answers,
       InRequest, BeforeParsed, Between, Dying
  <2>3. Local("pump", n, Tail(evq[c]), mask[c])
    BY <2>1, <2>2 DEF Local, Rests
  <2> QED
    BY <1>1, <1>2, <1>7, <2>3, TakeKeeps DEF Places, EventType
<1>8. CASE r.out = "none"
  <2>1. Finalize(r) \in ConnType /\ Finalize(r).out = "final" /\ Finalize(r).kind = r.kind
    BY <1>3, FinalizeType DEF Finalize, ConnType
  <2>2. r.kind # "errdoc"
    BY <1>3, <1>6, <1>8 DEF Local, Answers
  <2>3. conn' = [conn EXCEPT ![c] = Finalize(r)]
    BY <1>8 DEF CgiEvent
  <2> QED
    BY <1>7, <2>1, <2>2, <2>3
<1>9. CASE r.out # "none"
  <2>1. conn' = [conn EXCEPT ![c] = r]
    BY <1>9 DEF CgiEvent
  <2> QED
    BY <1>3, <1>7, <1>9, <2>1 DEF Local, Answers
<1> QED
  BY <1>8, <1>9

\* The output of the program goes on, or completes the request.
LEMMA CgiOutputKeeps ==
    ASSUME ConnInv, NEW c \in Conns, CgiOutput(c)
    PROVE  ConnInv'
<1> DEFINE r == conn[c]
<1>1. at[c] = "rest" /\ r.work
  BY DEF CgiOutput
<1>2. /\ UNCHANGED <<ev, evq, toSet, wire, client, listed, timerVars, countVars>>
      /\ mask' = [mask EXCEPT ![c] = WaitMask(conn'[c])]
  BY DEF CgiOutput, peerVars
<1>3. r \in ConnType /\ Local(at[c], r, evq[c], mask[c]) /\ evq[c] \in Seq(EventType)
  BY OwnState
<1>4. r.state = "running"
  BY <1>1, <1>3 DEF Local, Process, InWork, Stops, Between, BeforeParsed
<1>5. PICK s \in CgiAnswers(r) :
       \/ /\ s.out # "final" /\ conn' = [conn EXCEPT ![c] = s] /\ UNCHANGED at
       \/ /\ s.out # "done" /\ conn' = [conn EXCEPT ![c] = [s EXCEPT !.blocked = TRUE]] /\ UNCHANGED at
       \/ /\ s.out = "final" /\ at' = [at EXCEPT ![c] = "tail"]
          /\ conn' = [conn EXCEPT ![c] = [s EXCEPT !.out = "done", !.state = "finalized", !.left = TRUE]]
       \/ /\ s.out # "done" /\ at' = [at EXCEPT ![c] = "tail"]
          /\ conn' = [conn EXCEPT ![c] = [Abort(s) EXCEPT !.state = "finalized", !.left = TRUE]]
  BY DEF CgiOutput
\* What the answer has become.
<1>6. /\ s \in ConnType /\ s.state = "running" /\ s.work /\ s.left = r.left
      /\ s.opened = r.opened /\ s.endpoint = r.endpoint /\ s.eof = r.eof
      /\ s.kind = "errdoc" => s.out = "done"
      /\ s.out = "none" => s.kind = "cgi"
  <2>1. r.kind = "errdoc" => r.out = "done"
    BY <1>3, <1>4 DEF Local, Answers, ConnType
  <2>2. r.out = "none" => r.kind = "cgi"
    BY <1>3, <1>4 DEF Local, Answers
  <2>3. CASE s = r
    BY <1>1, <1>3, <1>4, <2>1, <2>2, <2>3
  <2>4. CASE s = Finalize(r) /\ r.out = "none"
    BY <1>1, <1>3, <1>4, <2>2, <2>4, FinalizeType DEF Finalize, ConnType
  <2>5. CASE s = [r EXCEPT !.kind = "errdoc", !.out = "done"]
    <3> HIDE DEF r
    <3> QED
      BY <1>1, <1>3, <1>4, <2>5 DEF ConnType
  <2> QED
    BY <2>3, <2>4, <2>5 DEF CgiAnswers
<1> HIDE DEF r
<1>7. ASSUME NEW p \in Places, at' = [at EXCEPT ![c] = p], NEW n \in ConnType, conn' = [conn EXCEPT ![c] = n],
             Local(p, n, evq[c], WaitMask(n))
      PROVE  ConnInv'
  <2>1. mask' = [mask EXCEPT ![c] = WaitMask(n)] /\ WaitMask(n) \in SUBSET {"R", "W"}
    BY <1>2, <1>7 DEF WaitMask, ConnInv, TypeInv
  <2>2. evq[c] \in Seq(EventType) /\ evq' = [evq EXCEPT ![c] = evq[c]]
    BY <1>2, OwnState
  <2> HIDE DEF Local
  <2>3. /\ ev' \in [Conns -> EventType \cup {{}}] /\ toSet' \in [Conns -> BOOLEAN]
        /\ wire' \in [Conns -> Seq(Pieces)] /\ activeRequests' \in Int /\ clientLoad' \in [IPs -> Nat]
        /\ client' \in [Conns -> [closed : BOOLEAN, last : Pieces \cup {"none"}, sent : 0 .. MaxSends]]
        /\ listed' \subseteq Conns /\ timer' \in BOOLEAN
        /\ UNCHANGED <<tpc, tleft, tnote, tactive>>
    BY <1>2 DEF ConnInv, TypeInv, timerVars, countVars
  <2> QED
    BY <1>7, <2>1, <2>2, <2>3, StepKeeps
\* The connection rests while the program works on.
<1>8. ASSUME UNCHANGED at, NEW n \in ConnType, conn' = [conn EXCEPT ![c] = n],
             n = s \/ (n = [s EXCEPT !.blocked = TRUE])
      PROVE  ConnInv'
  <2>1. /\ n.state = "running" /\ n.work /\ n.left = r.left /\ n.opened = r.opened
        /\ n.endpoint = r.endpoint /\ n.eof = r.eof /\ n.kind = s.kind /\ n.out = s.out
    BY <1>6, <1>8 DEF ConnType
  <2>2. Process("rest", n, evq[c])
    BY <1>1, <1>3, <2>1 DEF Local, Process, InWork, Awaits
  <2>3. /\ Fresh("rest", n) /\ Opened("rest", n) /\ Stops("rest", n) /\ Reads("rest", n)
        /\ Answers("rest", n) /\ Rests("rest", n, evq[c], WaitMask(n))
    BY <1>1, <1>3, <1>4, <1>6, <2>1 DEF Local, Fresh, Opened, Stops, Reads, Answers, Rests,
       InRequest, BeforeParsed, Between, Dying
  <2> QED
    BY <1>1, <1>7, <1>8, <2>2, <2>3, OwnState DEF Local, Places
\* Its last lines complete the request.
<1>9. ASSUME at' = [at EXCEPT ![c] = "tail"], NEW n \in ConnType, conn' = [conn EXCEPT ![c] = n],
             n.state = "finalized", n.left, n.out = "done", n.work, n.kind = s.kind, n.opened = r.opened,
             n.endpoint = r.endpoint, s.kind # "errdoc" \/ n.connError
      PROVE  ConnInv'
  <2>1. Process("tail", n, evq[c])
    BY <1>1, <1>3, <1>9 DEF Local, Process, InWork, Awaits
  <2>2. /\ Fresh("tail", n) /\ Opened("tail", n) /\ Stops("tail", n) /\ Reads("tail", n)
        /\ Answers("tail", n) /\ Rests("tail", n, evq[c], WaitMask(n))
    BY <1>1, <1>3, <1>4, <1>9 DEF Local, Fresh, Opened, Stops, Reads, Answers, Rests,
       InRequest, BeforeParsed, Between, Dying
  <2> QED
    BY <1>7, <1>9, <2>1, <2>2 DEF Local, Places
<1>10. CASE conn' = [conn EXCEPT ![c] = s] /\ UNCHANGED at
  BY <1>6, <1>8, <1>10
<1>11. CASE conn' = [conn EXCEPT ![c] = [s EXCEPT !.blocked = TRUE]] /\ UNCHANGED at
  <2>1. [s EXCEPT !.blocked = TRUE] \in ConnType
    BY <1>6 DEF ConnType
  <2> QED
    BY <1>8, <1>11, <2>1
<1>12. CASE /\ s.out = "final" /\ at' = [at EXCEPT ![c] = "tail"]
            /\ conn' = [conn EXCEPT ![c] = [s EXCEPT !.out = "done", !.state = "finalized", !.left = TRUE]]
  <2> DEFINE n == [s EXCEPT !.out = "done", !.state = "finalized", !.left = TRUE]
  <2>1. /\ n \in ConnType /\ n.state = "finalized" /\ n.left /\ n.out = "done" /\ n.work
        /\ n.kind = s.kind /\ n.opened = r.opened /\ n.endpoint = r.endpoint
    BY <1>6 DEF ConnType, States
  <2>2. s.kind # "errdoc"
    BY <1>6, <1>12
  <2> HIDE DEF n
  <2> QED
    BY <1>9, <1>12, <2>1, <2>2 DEF n
<1>13. CASE /\ s.out # "done" /\ at' = [at EXCEPT ![c] = "tail"]
            /\ conn' = [conn EXCEPT ![c] = [Abort(s) EXCEPT !.state = "finalized", !.left = TRUE]]
  <2> DEFINE a == Abort(s)
             n == [a EXCEPT !.state = "finalized", !.left = TRUE]
  <2>1. /\ a \in ConnType /\ a.out = "done" /\ a.work /\ a.connError
        /\ a.kind = s.kind /\ a.opened = r.opened /\ a.endpoint = r.endpoint
    BY <1>6, AbortType DEF Abort, ConnType
  <2> HIDE DEF a
  <2>2. /\ n \in ConnType /\ n.state = "finalized" /\ n.left /\ n.out = "done" /\ n.work /\ n.connError
        /\ n.kind = s.kind /\ n.opened = r.opened /\ n.endpoint = r.endpoint
    BY <2>1 DEF ConnType, States
  <2> HIDE DEF n
  <2> QED
    BY <1>9, <1>13, <2>2 DEF n, a
<1> QED
  BY <1>5, <1>10, <1>11, <1>12, <1>13

LEMMA CgiRedirectKeeps ==
    ASSUME ConnInv, NEW c \in Conns, CgiRedirect(c)
    PROVE  ConnInv'
<1> DEFINE r == conn[c]
<1>1. /\ at[c] = "rest" /\ r.work /\ r.out = "none"
      /\ at' = [at EXCEPT ![c] = "pump"] /\ conn' = [conn EXCEPT ![c] = Finalize(r)]
      /\ ev' = [ev EXCEPT ![c] = {"done"}]
      /\ UNCHANGED <<evq, mask, toSet, wire, client, listed, timerVars, countVars>>
  BY DEF CgiRedirect, eventVars, peerVars
<1>2. r \in ConnType /\ Local(at[c], r, evq[c], mask[c]) /\ Finalize(r) \in ConnType
  BY OwnState, FinalizeType
<1>3. r.state = "running" /\ r.kind = "cgi"
  BY <1>1, <1>2 DEF Local, Process, InWork, Stops, Between, BeforeParsed, Answers
<1>4. Local("pump", Finalize(r), evq[c], mask[c])
  BY <1>1, <1>2, <1>3 DEF Local, Fresh, Opened, Stops, Reads, Answers, Process, InWork, Awaits, Rests, ConnType,
     InRequest, BeforeParsed, Between, Dying, Finalize
<1> QED
  BY <1>1, <1>2, <1>4, CallbackKeeps DEF Places, EventType

LEMMA TimeoutEventKeeps ==
    ASSUME ConnInv, NEW c \in Conns, TimeoutEvent(c)
    PROVE  ConnInv'
<1> DEFINE r == conn[c]
<1>1. at[c] = "rest" /\ evq[c] # <<>> /\ Head(evq[c]) # {"done"}
  BY DEF TimeoutEvent, Begins
<1>2. /\ UNCHANGED <<conn, ev, mask, toSet, wire, client, listed, timerVars, countVars>>
      /\ evq' = [evq EXCEPT ![c] = Tail(@)]
      /\ at' = [at EXCEPT ![c] = "unlist"]
  BY DEF TimeoutEvent, peerVars
<1>3. r \in ConnType /\ Local(at[c], r, evq[c], mask[c]) /\ evq[c] \in Seq(EventType)
  BY OwnState
<1>4. /\ Has(Tail(evq[c]), {"done"}) <=> Has(evq[c], {"done"})
      /\ Once(Tail(evq[c]), {"done"})
  BY <1>1, <1>3, HasTail DEF Local, Process, InWork
<1>5. Local("unlist", r, Tail(evq[c]), mask[c])
  <2>1. Process("unlist", r, Tail(evq[c]))
    BY <1>3, <1>4 DEF Local, Process, InWork, Awaits
  <2>2. Fresh("unlist", r) /\ Opened("unlist", r) /\ Stops("unlist", r) /\ Reads("unlist", r) /\ Answers("unlist", r)
    BY <1>1, <1>3 DEF Local, Fresh, Opened, Stops, Reads, Answers, Dying
  <2> QED
    BY <2>1, <2>2 DEF Local, Rests
<1>6. "unlist" \in Places /\ conn' = [conn EXCEPT ![c] = r]
      /\ ev[c] \in EventType \cup {{}} /\ ev' = [ev EXCEPT ![c] = ev[c]]
  BY <1>2, OwnState DEF Places
<1> QED
  BY <1>1, <1>2, <1>3, <1>5, <1>6, TakeKeeps

LEMMA ReadKeeps ==
    ASSUME ConnInv, NEW c \in Conns, Read(c)
    PROVE  ConnInv'
<1> DEFINE r == conn[c]
           more == [r EXCEPT !.input = r.input \o wire[c]]
           gone == [r EXCEPT !.keep = -1, !.sockEof = TRUE]
<1>1. at[c] = "read" /\ UNCHANGED <<ev, evq, mask, toSet, client, listed, timerVars, countVars>>
  BY DEF Read, eventVars
<1>2. r \in ConnType /\ Local(at[c], r, evq[c], mask[c]) /\ wire[c] \in Seq(Pieces)
  BY OwnState
<1>3. CASE /\ conn' = [conn EXCEPT ![c] = more] /\ wire' = [wire EXCEPT ![c] = <<>>]
           /\ at' = [at EXCEPT ![c] = "readPump"]
  <2>1. more \in ConnType
    <3> HIDE DEF r
    <3>1. r.input \in Seq(Pieces)
      BY <1>2 DEF ConnType
    <3>2. r.input \o wire[c] \in Seq(Pieces)
      BY <1>2, <3>1, ConcatProperties
    <3> QED
      BY <1>2, <3>2 DEF ConnType
  <2>2. Local("readPump", more, evq[c], mask[c])
    BY <1>1, <1>2 DEF Local, Fresh, Opened, Stops, Reads, Answers, Process, InWork, Awaits, Rests, ConnType,
     InRequest, BeforeParsed, Between, Dying
  <2> HIDE DEF more
  <2>3. wire' \in [Conns -> Seq(Pieces)]
    BY <1>3, EmptySeq DEF ConnInv, TypeInv
  <2>4. /\ "readPump" \in Places
        /\ evq[c] \in Seq(EventType) /\ evq' = [evq EXCEPT ![c] = evq[c]]
        /\ mask[c] \in SUBSET {"R", "W"} /\ mask' = [mask EXCEPT ![c] = mask[c]]
    BY <1>1, OwnState DEF Places
  <2> QED
    BY <1>1, <1>3, <2>1, <2>2, <2>3, <2>4, StepKeeps DEF ConnInv, TypeInv, timerVars, countVars
<1>4. CASE /\ conn' = [conn EXCEPT ![c] = gone] /\ UNCHANGED wire
           /\ at' = [at EXCEPT ![c] = IF r.state \in Between THEN "after" ELSE "readPump"]
  <2> DEFINE p == IF r.state \in Between THEN "after" ELSE "readPump"
  <2>1. gone \in ConnType
    <3> HIDE DEF r
    <3> QED
      BY <1>2, Limits DEF ConnType
  <2>2. Local(p, gone, evq[c], mask[c])
    BY <1>1, <1>2 DEF Local, Fresh, Opened, Stops, Reads, Answers, Process, InWork, Awaits, Rests, ConnType,
     InRequest, BeforeParsed, Between, Dying
  <2>3. p \in Places
    BY DEF Places
  <2> HIDE DEF gone, p
  <2>4. at' = [at EXCEPT ![c] = p]
    BY <1>4 DEF p
  <2> QED
    BY <1>1, <1>4, <2>1, <2>2, <2>3, <2>4, CallbackKeeps, OwnState
<1>5. CASE at' = [at EXCEPT ![c] = "after"] /\ UNCHANGED <<conn, wire>>
  <2>1. Local("after", r, evq[c], mask[c])
    BY <1>1, <1>2 DEF Local, Fresh, Opened, Stops, Reads, Answers, Process, InWork, Awaits, Rests, ConnType,
     InRequest, BeforeParsed, Between, Dying
  <2>2. /\ "after" \in Places /\ conn' = [conn EXCEPT ![c] = r]
        /\ ev[c] \in EventType \cup {{}} /\ ev' = [ev EXCEPT ![c] = ev[c]]
    BY <1>1, <1>5, OwnState DEF Places
  <2> QED
    BY <1>1, <1>2, <1>5, <2>1, <2>2, CallbackKeeps
<1> QED
  BY <1>3, <1>4, <1>5 DEF Read

\* Steps that admit and destroy: they leave the queue and the mask alone.
LEMMA MoveKeeps ==
    ASSUME ConnInv, NEW c \in Conns,
           NEW p \in Places, at' = [at EXCEPT ![c] = p],
           NEW r \in ConnType, conn' = [conn EXCEPT ![c] = r],
           ev' \in [Conns -> EventType \cup {{}}],
           UNCHANGED <<evq, mask, toSet, wire, tpc, tleft, tnote, tactive>>,
           client' \in [Conns -> [closed : BOOLEAN, last : Pieces \cup {"none"}, sent : 0 .. MaxSends]],
           listed' \subseteq Conns, timer' \in BOOLEAN,
           activeRequests' \in Int, clientLoad' \in [IPs -> Nat],
           Local(p, r, evq[c], mask[c])
    PROVE  ConnInv'
<1>1. /\ evq[c] \in Seq(EventType) /\ evq' = [evq EXCEPT ![c] = evq[c]]
      /\ mask[c] \in SUBSET {"R", "W"} /\ mask' = [mask EXCEPT ![c] = mask[c]]
  BY OwnState
<1> QED
  BY <1>1, StepKeeps DEF ConnInv, TypeInv

\* A new client.
LEMMA NewClientType ==
    NewClient \in [closed : BOOLEAN, last : Pieces \cup {"none"}, sent : 0 .. MaxSends]
<1>1. 0 \in 0 .. MaxSends
  BY Limits
<1> QED
  BY <1>1 DEF NewClient

LEMMA AcceptKeeps ==
    ASSUME ConnInv, NEW c \in Conns, NEW ip \in IPs, Accept(c, ip)
    PROVE  ConnInv'
<1> DEFINE n == NewConn(ip)
<1>1. /\ at[c] = "free" /\ at' = [at EXCEPT ![c] = "timer"] /\ conn' = [conn EXCEPT ![c] = n]
      /\ UNCHANGED <<ev, evq, mask, toSet, wire, timerVars, countVars>>
      /\ client' = [client EXCEPT ![c] = NewClient] /\ listed' = listed \cup {c}
  BY DEF Accept, eventVars
<1>2. n \in ConnType
  BY NewConnType
<1>3. Local(at[c], conn[c], evq[c], mask[c]) /\ conn[c].ip \in IPs
  BY OwnState DEF ConnType
<1>4. Local("timer", n, evq[c], mask[c])
  <2>1. ~Has(evq[c], {"done"}) /\ Once(evq[c], {"done"})
    BY <1>1, <1>3 DEF Local, Fresh, Process, InWork, Awaits, NewConn
  <2> QED
    BY <2>1 DEF Local, Fresh, Opened, Stops, Reads, Answers, Process, InWork, Awaits, Rests,
       InRequest, BeforeParsed, Between, NewConn
<1> HIDE DEF n
<1>5. /\ client' \in [Conns -> [closed : BOOLEAN, last : Pieces \cup {"none"}, sent : 0 .. MaxSends]]
      /\ listed' \subseteq Conns /\ timer' \in BOOLEAN
      /\ activeRequests' \in Int /\ clientLoad' \in [IPs -> Nat]
      /\ ev' \in [Conns -> EventType \cup {{}}]
  BY <1>1, NewClientType DEF ConnInv, TypeInv, timerVars, countVars
<1>6. "timer" \in Places /\ UNCHANGED <<evq, mask, toSet, wire, tpc, tleft, tnote, tactive>>
  BY <1>1 DEF Places, timerVars
<1> QED
  BY <1>1, <1>2, <1>4, <1>5, <1>6, MoveKeeps

LEMMA StartTimerKeeps ==
    ASSUME ConnInv, NEW c \in Conns, StartTimer(c)
    PROVE  ConnInv'
<1>1. /\ at[c] = "timer" /\ at' = [at EXCEPT ![c] = "admit"]
      /\ UNCHANGED <<conn, ev, evq, mask, toSet, wire, client, listed, tpc, tleft, tnote, tactive, countVars>>
      /\ timer' = TRUE
  BY DEF StartTimer, eventVars, peerVars
<1>2. Local(at[c], conn[c], evq[c], mask[c]) /\ conn[c] \in ConnType
  BY OwnState
<1>3. Local("admit", conn[c], evq[c], mask[c])
  BY <1>1, <1>2 DEF Local, Fresh, Opened, Stops, Reads, Answers, Process, Rests, Dying
<1>4. "admit" \in Places /\ conn' = [conn EXCEPT ![c] = conn[c]]
  BY <1>1, OwnState DEF Places
<1>5. /\ client' \in [Conns -> [closed : BOOLEAN, last : Pieces \cup {"none"}, sent : 0 .. MaxSends]]
      /\ listed' \subseteq Conns /\ timer' \in BOOLEAN
      /\ activeRequests' \in Int /\ clientLoad' \in [IPs -> Nat]
      /\ ev' \in [Conns -> EventType \cup {{}}]
  BY <1>1 DEF ConnInv, TypeInv, countVars
<1> QED
  BY <1>1, <1>2, <1>3, <1>4, <1>5, MoveKeeps

LEMMA AdmitKeeps ==
    ASSUME ConnInv, NEW c \in Conns, Admit(c)
    PROVE  ConnInv'
<1> DEFINE r == conn[c]
           in == [r EXCEPT !.state = "connected"]
           no == [r EXCEPT !.endpoint = FALSE, !.keep = -1, !.connError = TRUE]
<1>1. /\ at[c] = "admit"
      /\ UNCHANGED <<evq, mask, toSet, wire, client, listed, timer, tpc, tleft, tnote, tactive, activeRequests>>
  BY DEF Admit, eventVars, peerVars, timerVars
<1>2. r \in ConnType /\ Local(at[c], r, evq[c], mask[c])
  BY OwnState
<1>3. ~Has(evq[c], {"done"}) /\ Once(evq[c], {"done"}) /\ r = NewConn(r.ip)
  BY <1>1, <1>2 DEF Local, Fresh, Process, InWork, Awaits, NewConn
<1>4. /\ client' \in [Conns -> [closed : BOOLEAN, last : Pieces \cup {"none"}, sent : 0 .. MaxSends]]
      /\ listed' \subseteq Conns /\ timer' \in BOOLEAN /\ activeRequests' \in Int
  BY <1>1 DEF ConnInv, TypeInv
<1>5. CASE /\ clientLoad' = [clientLoad EXCEPT ![r.ip] = @ + 1]
           /\ conn' = [conn EXCEPT ![c] = in]
           /\ ev' = [ev EXCEPT ![c] = {"R"}] /\ at' = [at EXCEPT ![c] = "read"]
  <2>1. in \in ConnType
    <3> HIDE DEF r
    <3> QED
      BY <1>2 DEF ConnType, States, Between, BeforeParsed
  <2>2. Local("read", in, evq[c], mask[c])
    BY <1>2, <1>3 DEF Local, Fresh, Opened, Stops, Reads, Answers, Process, InWork, Awaits, Rests, ConnType,
       InRequest, BeforeParsed, Between, NewConn
  <2> HIDE DEF in
  <2>3. clientLoad' \in [IPs -> Nat] /\ ev' \in [Conns -> EventType \cup {{}}]
    <3>1. {"R"} \in EventType \cup {{}} /\ clientLoad \in [IPs -> Nat] /\ ev \in [Conns -> EventType \cup {{}}]
      BY DEF ConnInv, TypeInv, EventType
    <3>2. r.ip \in IPs
      BY <1>2 DEF ConnType
    <3>3. clientLoad[r.ip] + 1 \in Nat
      BY <3>1, <3>2
    <3> HIDE DEF r
    <3> QED
      BY <1>5, <3>1, <3>2, <3>3
  <2> QED
    BY <1>1, <1>4, <1>5, <2>1, <2>2, <2>3, MoveKeeps DEF Places
<1>6. CASE /\ conn' = [conn EXCEPT ![c] = no] /\ at' = [at EXCEPT ![c] = "unlist"]
           /\ UNCHANGED <<ev, clientLoad>>
  <2>1. no \in ConnType
    <3> HIDE DEF r
    <3> QED
      BY <1>2, Limits DEF ConnType
  <2>2. Local("unlist", no, evq[c], mask[c])
    BY <1>2, <1>3 DEF Local, Fresh, Opened, Stops, Reads, Answers, Process, InWork, Awaits, Rests, ConnType,
       InRequest, BeforeParsed, Between, NewConn
  <2> HIDE DEF no
  <2>3. clientLoad' \in [IPs -> Nat] /\ ev' \in [Conns -> EventType \cup {{}}]
    BY <1>6 DEF ConnInv, TypeInv
  <2> QED
    BY <1>1, <1>4, <1>6, <2>1, <2>2, <2>3, MoveKeeps DEF Places
<1> QED
  BY <1>5, <1>6 DEF Admit

LEMMA UnlistKeeps ==
    ASSUME ConnInv, NEW c \in Conns, Unlist(c)
    PROVE  ConnInv'
<1> DEFINE r == conn[c]
           p == IF r.endpoint THEN "release" ELSE "close"
<1>1. /\ at[c] = "unlist" /\ at' = [at EXCEPT ![c] = p] /\ listed' = listed \ {c}
      /\ UNCHANGED <<conn, ev, evq, mask, toSet, wire, client, timer, tpc, tleft, tnote, tactive, countVars>>
  BY DEF Unlist, eventVars, peerVars, timerVars
<1>2. r \in ConnType /\ Local(at[c], r, evq[c], mask[c]) /\ conn' = [conn EXCEPT ![c] = r]
  BY <1>1, OwnState
<1>3. Local(p, r, evq[c], mask[c])
  BY <1>1, <1>2 DEF Local, Fresh, Opened, Stops, Reads, Answers, Process, Rests, Dying
<1>4. p \in Places
  BY DEF Places
<1> HIDE DEF p
<1>5. /\ client' \in [Conns -> [closed : BOOLEAN, last : Pieces \cup {"none"}, sent : 0 .. MaxSends]]
      /\ listed' \subseteq Conns /\ timer' \in BOOLEAN
      /\ activeRequests' \in Int /\ clientLoad' \in [IPs -> Nat]
      /\ ev' \in [Conns -> EventType \cup {{}}]
  BY <1>1 DEF ConnInv, TypeInv, countVars
<1> QED
  BY <1>1, <1>2, <1>3, <1>4, <1>5, MoveKeeps

LEMMA ReleaseRequestKeeps ==
    ASSUME ConnInv, NEW c \in Conns, ReleaseRequest(c)
    PROVE  ConnInv'
<1> DEFINE r == conn[c]
           n == [r EXCEPT !.opened = FALSE]
<1>1. /\ at[c] = "release" /\ at' = [at EXCEPT ![c] = "uncount"] /\ conn' = [conn EXCEPT ![c] = n]
      /\ UNCHANGED <<ev, evq, mask, toSet, wire, client, listed, timer, tpc, tleft, tnote, tactive, clientLoad>>
      /\ activeRequests' \in Int
  BY DEF ReleaseRequest, CloseRequest, eventVars, peerVars, timerVars, ConnInv, TypeInv
<1>2. r \in ConnType /\ Local(at[c], r, evq[c], mask[c])
  BY OwnState
<1>3. n \in ConnType
  <2> HIDE DEF r
  <2> QED
    BY <1>2 DEF ConnType
<1>4. Local("uncount", n, evq[c], mask[c])
  BY <1>1, <1>2 DEF Local, Fresh, Opened, Stops, Reads, Answers, Process, InWork, Awaits, Rests, ConnType,
     InRequest, BeforeParsed, Between, Dying
<1> HIDE DEF n
<1>5. /\ client' \in [Conns -> [closed : BOOLEAN, last : Pieces \cup {"none"}, sent : 0 .. MaxSends]]
      /\ listed' \subseteq Conns /\ timer' \in BOOLEAN
      /\ clientLoad' \in [IPs -> Nat]
      /\ ev' \in [Conns -> EventType \cup {{}}] /\ "uncount" \in Places
  BY <1>1 DEF ConnInv, TypeInv, Places
<1> QED
  BY <1>1, <1>3, <1>4, <1>5, MoveKeeps

LEMMA ReleaseConnKeeps ==
    ASSUME ConnInv, NEW c \in Conns, ReleaseConn(c)
    PROVE  ConnInv'
<1> DEFINE r == conn[c]
<1>1. /\ at[c] = "uncount" /\ at' = [at EXCEPT ![c] = "close"]
      /\ clientLoad' = [clientLoad EXCEPT ![r.ip] = IF @ > 1 THEN @ - 1 ELSE 0]
      /\ UNCHANGED <<conn, ev, evq, mask, toSet, wire, client, listed, timer, tpc, tleft, tnote, tactive, activeRequests>>
  BY DEF ReleaseConn, eventVars, peerVars, timerVars
<1>2. r \in ConnType /\ Local(at[c], r, evq[c], mask[c]) /\ conn' = [conn EXCEPT ![c] = r]
  BY <1>1, OwnState
<1>3. Local("close", r, evq[c], mask[c])
  BY <1>1, <1>2 DEF Local, Fresh, Opened, Stops, Reads, Answers, Process, Rests, Dying
<1>4. clientLoad' \in [IPs -> Nat]
  <2>1. clientLoad \in [IPs -> Nat] /\ r.ip \in IPs
    BY <1>2 DEF ConnInv, TypeInv, ConnType
  <2>2. (IF clientLoad[r.ip] > 1 THEN clientLoad[r.ip] - 1 ELSE 0) \in Nat
    BY <2>1
  <2> HIDE DEF r
  <2> QED
    BY <1>1, <2>1, <2>2
<1>5. /\ client' \in [Conns -> [closed : BOOLEAN, last : Pieces \cup {"none"}, sent : 0 .. MaxSends]]
      /\ listed' \subseteq Conns /\ timer' \in BOOLEAN /\ activeRequests' \in Int
      /\ ev' \in [Conns -> EventType \cup {{}}] /\ "close" \in Places
  BY <1>1 DEF ConnInv, TypeInv, Places
<1> QED
  BY <1>1, <1>2, <1>3, <1>4, <1>5, MoveKeeps

LEMMA CloseKeeps ==
    ASSUME ConnInv, NEW c \in Conns, Close(c)
    PROVE  ConnInv'
<1> DEFINE n == NewConn(CHOOSE i \in IPs : TRUE)
<1>1. /\ at[c] = "close" /\ at' = [at EXCEPT ![c] = "free"] /\ conn' = [conn EXCEPT ![c] = n]
      /\ evq' = [evq EXCEPT ![c] = <<>>] /\ mask' = [mask EXCEPT ![c] = {}]
      /\ client' = [client EXCEPT ![c] = NewClient]
      /\ ev' = [ev EXCEPT ![c] = {}] /\ toSet' = [toSet EXCEPT ![c] = FALSE]
      /\ wire' = [wire EXCEPT ![c] = <<>>]
      /\ UNCHANGED <<listed, timer, tpc, tleft, tnote, tactive, activeRequests, clientLoad>>
  BY DEF Close, timerVars, countVars
<1>2. n \in ConnType
  BY NewConnType, SomeIP
<1>3. Local("free", n, <<>>, {})
  BY DEF Local, Fresh, Opened, Stops, Reads, Answers, Process, InWork, Awaits, Rests, Has, Once,
     InRequest, BeforeParsed, Between, NewConn
<1> HIDE DEF n
<1>4. /\ "free" \in Places /\ <<>> \in Seq(EventType) /\ {} \in SUBSET {"R", "W"}
      /\ listed' \subseteq Conns /\ timer' \in BOOLEAN /\ activeRequests' \in Int /\ clientLoad' \in [IPs -> Nat]
      /\ ev' \in [Conns -> EventType \cup {{}}] /\ toSet' \in [Conns -> BOOLEAN]
      /\ wire' \in [Conns -> Seq(Pieces)]
      /\ client' \in [Conns -> [closed : BOOLEAN, last : Pieces \cup {"none"}, sent : 0 .. MaxSends]]
  BY <1>1, NewClientType, EmptySeq DEF ConnInv, TypeInv, Places
<1> QED
  BY <1>1, <1>2, <1>3, <1>4, StepKeeps

\* An event is queued: Notify, CgiExits and TimerExpires.
LEMMA QueueKeeps ==
    ASSUME ConnInv, NEW c \in Conns,
           NEW e \in EventType, evq' = [evq EXCEPT ![c] = Append(@, e)],
           NEW r \in ConnType, conn' = [conn EXCEPT ![c] = r],
           NEW m \in SUBSET {"R", "W"}, mask' = [mask EXCEPT ![c] = m],
           UNCHANGED <<at, ev, toSet, wire, client, listed, timer, tactive, tpc, countVars>>,
           tleft' \subseteq Conns, tnote' \subseteq Conns,
           \/ r = conn[c] /\ e # {"done"}
           \/ conn[c].work /\ e = {"done"} /\ r = [conn[c] EXCEPT !.work = FALSE]
    PROVE  ConnInv'
<1> DEFINE q == Append(evq[c], e)
<1>1. /\ conn[c] \in ConnType /\ Local(at[c], conn[c], evq[c], mask[c])
      /\ evq[c] \in Seq(EventType)
  BY OwnState
<1>2. /\ q \in Seq(EventType) /\ q # <<>>
      /\ Has(q, {"done"}) <=> Has(evq[c], {"done"}) \/ e = {"done"}
      /\ Once(evq[c], {"done"}) /\ ~(e = {"done"} /\ Has(evq[c], {"done"})) => Once(q, {"done"})
  <2>1. ASSUME NEW f, NEW x \in EventType, NEW y \in Seq(EventType)
        PROVE /\ Append(y, x) \in Seq(EventType) /\ Append(y, x) # <<>>
              /\ Has(Append(y, x), f) <=> Has(y, f) \/ x = f
              /\ Once(y, f) /\ ~(x = f /\ Has(y, f)) => Once(Append(y, x), f)
    BY HasAppend
  <2> QED
    BY <1>1, <2>1
<1> HIDE DEF q
<1>3. Local(at[c], r, q, m)
  <2>1. Process(at[c], r, q)
    BY <1>1, <1>2 DEF Local, Process, InWork, Awaits, ConnType
  <2>2. Fresh(at[c], r)
    BY <1>1 DEF Local, Fresh, Process, InWork, Awaits, NewConn, ConnType
  <2>3. Opened(at[c], r) /\ Stops(at[c], r) /\ Reads(at[c], r) /\ Answers(at[c], r)
    <3>1. CASE r = conn[c]
      BY <1>1, <3>1 DEF Local
    <3>2. CASE r = [conn[c] EXCEPT !.work = FALSE]
      <4>1. /\ r.opened = conn[c].opened /\ r.state = conn[c].state /\ r.keep = conn[c].keep
            /\ r.endpoint = conn[c].endpoint /\ r.input = conn[c].input /\ r.eof = conn[c].eof
            /\ r.out = conn[c].out /\ r.kind = conn[c].kind /\ r.blocked = conn[c].blocked
            /\ r.left = conn[c].left /\ r.connError = conn[c].connError
        BY <1>1, <3>2 DEF ConnType
      <4> QED
        BY <1>1, <4>1 DEF Local, Opened, Stops, Reads, Answers
    <3> QED
      BY <3>1, <3>2
  <2>4. Rests(at[c], r, q, m)
    BY <1>1, <1>2 DEF Local, Rests, ConnType
  <2> QED
    BY <2>1, <2>2, <2>3, <2>4 DEF Local
<1>4. evq' = [evq EXCEPT ![c] = q]
  BY DEF q
<1>5. TypeInv'
  BY <1>2, <1>4 DEF ConnInv, TypeInv, countVars
<1>6. ASSUME NEW d \in Conns PROVE Local(at[d], conn[d], evq[d], mask[d])'
  <2>1. CASE d = c
    <3>1. at'[c] = at[c] /\ conn'[c] = r /\ evq'[c] = q /\ mask'[c] = m
      BY <1>4 DEF ConnInv, TypeInv
    <3> QED
      BY <1>3, <2>1, <3>1
  <2>2. CASE d # c
    <3>1. at'[d] = at[d] /\ conn'[d] = conn[d] /\ evq'[d] = evq[d] /\ mask'[d] = mask[d]
      BY <1>4, <2>2 DEF ConnInv, TypeInv
    <3> QED
      BY <3>1 DEF ConnInv, CallbackInv
  <2> QED
    BY <2>1, <2>2
<1> QED
  BY <1>5, <1>6 DEF ConnInv, CallbackInv

LEMMA NotifyKeeps ==
    ASSUME ConnInv, NEW c \in Conns, Notify(c)
    PROVE  ConnInv'
<1>1. PICK e \in SUBSET {"R", "W"} : e # {} /\ evq' = [evq EXCEPT ![c] = Append(@, e)]
  BY OwnState DEF Notify
<1>2. /\ mask' = [mask EXCEPT ![c] = {}]
      /\ UNCHANGED <<at, conn, ev, toSet, wire, client, listed, timer, tpc, tleft, tnote, tactive, countVars>>
  BY DEF Notify, connVars, peerVars, timerVars
<1>3. e \in EventType /\ e # {"done"}
  <2>1. e = {"R"} \/ e = {"W"} \/ e = {"R", "W"}
    BY <1>1
  <2> QED
    BY <2>1 DEF EventType
<1>4. /\ conn[c] \in ConnType /\ conn' = [conn EXCEPT ![c] = conn[c]] /\ {} \in SUBSET {"R", "W"}
      /\ tleft' \subseteq Conns /\ tnote' \subseteq Conns
  BY <1>2, OwnState DEF ConnInv, TypeInv
<1> QED
  BY <1>1, <1>2, <1>3, <1>4, QueueKeeps

LEMMA CgiExitsKeeps ==
    ASSUME ConnInv, NEW c \in Conns, CgiExits(c)
    PROVE  ConnInv'
<1> DEFINE r == conn[c]
           n == [r EXCEPT !.work = FALSE]
<1>1. /\ r.work /\ conn' = [conn EXCEPT ![c] = n]
      /\ evq' = [evq EXCEPT ![c] = Append(@, {"done"})]
      /\ UNCHANGED <<at, ev, mask, toSet, wire, client, listed, timer, tpc, tleft, tnote, tactive, countVars>>
  BY DEF CgiExits, peerVars, timerVars
<1>2. r \in ConnType /\ mask[c] \in SUBSET {"R", "W"} /\ mask' = [mask EXCEPT ![c] = mask[c]]
  BY <1>1, OwnState
<1>3. n \in ConnType
  <2> HIDE DEF r
  <2> QED
    BY <1>2 DEF ConnType
<1>4. {"done"} \in EventType /\ tleft' \subseteq Conns /\ tnote' \subseteq Conns
  BY <1>1 DEF EventType, ConnInv, TypeInv
<1>5. n = [conn[c] EXCEPT !.work = FALSE]
  OBVIOUS
<1> HIDE DEF n
<1> QED
  BY <1>1, <1>2, <1>3, <1>4, <1>5, QueueKeeps

\* Steps that touch no connection.
LEMMA AsideKeeps ==
    ASSUME ConnInv, UNCHANGED <<connVars, evq, mask, countVars>>,
           toSet' \in [Conns -> BOOLEAN],
           wire' \in [Conns -> Seq(Pieces)],
           client' \in [Conns -> [closed : BOOLEAN, last : Pieces \cup {"none"}, sent : 0 .. MaxSends]],
           listed' \subseteq Conns, timer' \in BOOLEAN, tactive' \in BOOLEAN,
           tpc' \in {"off", "scan"}, tleft' \subseteq Conns, tnote' \subseteq Conns
    PROVE  ConnInv'
<1>1. TypeInv'
  BY DEF ConnInv, TypeInv, connVars, countVars
<1> QED
  BY <1>1 DEF ConnInv, CallbackInv, connVars

LEMMA SendKeeps ==
    ASSUME ConnInv, NEW c \in Conns, NEW p \in Pieces, Send(c, p)
    PROVE  ConnInv'
<1>1. /\ client[c].sent < MaxSends
      /\ client' = [client EXCEPT ![c].last = p, ![c].sent = @ + 1]
      /\ wire' = [wire EXCEPT ![c] = Append(@, p)]
      /\ UNCHANGED <<connVars, evq, mask, toSet, listed, timerVars, countVars>>
  BY DEF Send, eventVars
<1>2. client' \in [Conns -> [closed : BOOLEAN, last : Pieces \cup {"none"}, sent : 0 .. MaxSends]]
  <2>1. client[c].sent + 1 \in 0 .. MaxSends
    BY <1>1, Limits DEF ConnInv, TypeInv
  <2> QED
    BY ZenonT(40), <1>1, <2>1 DEF ConnInv, TypeInv
<1>3. wire' \in [Conns -> Seq(Pieces)]
  <2>1. Append(wire[c], p) \in Seq(Pieces)
    BY OwnState, AppendProperties
  <2> QED
    BY <1>1, <2>1 DEF ConnInv, TypeInv
<1> QED
  BY <1>1, <1>2, <1>3, AsideKeeps DEF ConnInv, TypeInv, timerVars

LEMMA ClientClosesKeeps ==
    ASSUME ConnInv, NEW c \in Conns, ClientCloses(c)
    PROVE  ConnInv'
<1>1. /\ client' = [client EXCEPT ![c].closed = TRUE]
      /\ UNCHANGED <<connVars, evq, mask, toSet, wire, listed, timerVars, countVars>>
  BY DEF ClientCloses, eventVars
<1>2. client' \in [Conns -> [closed : BOOLEAN, last : Pieces \cup {"none"}, sent : 0 .. MaxSends]]
  BY ZenonT(40), <1>1 DEF ConnInv, TypeInv
<1> QED
  BY <1>1, <1>2, AsideKeeps DEF ConnInv, TypeInv, timerVars

LEMMA TimerKeeps ==
    ASSUME ConnInv, TimerStep
    PROVE  ConnInv'
<1>1. CASE TimerBegin
  BY <1>1, AsideKeeps DEF TimerBegin, ConnInv, TypeInv, eventVars, peerVars
<1>2. CASE TimerEnd
  BY <1>2, AsideKeeps DEF TimerEnd, ConnInv, TypeInv, eventVars, peerVars
<1>3. ASSUME NEW c \in Conns, TimerPasses(c) PROVE ConnInv'
  BY <1>3, AsideKeeps DEF TimerPasses, ConnInv, TypeInv, eventVars, peerVars
<1>4. ASSUME NEW c \in Conns, TimerNotes(c) PROVE ConnInv'
  BY <1>4, AsideKeeps DEF TimerNotes, ConnInv, TypeInv, eventVars, peerVars
<1>5. ASSUME NEW c \in Conns, TimerExpires(c) PROVE ConnInv'
  <2>1. /\ evq' = [evq EXCEPT ![c] = Append(@, {"timeout"})]
        /\ tnote' = {c} /\ tleft' = tleft \ {c}
        /\ UNCHANGED <<at, conn, ev, mask, toSet, wire, client, listed, timer, tpc, tactive, countVars>>
    BY <1>5 DEF TimerExpires, connVars, peerVars
  <2>2. /\ conn[c] \in ConnType /\ conn' = [conn EXCEPT ![c] = conn[c]]
        /\ mask[c] \in SUBSET {"R", "W"} /\ mask' = [mask EXCEPT ![c] = mask[c]]
        /\ tleft' \subseteq Conns /\ tnote' \subseteq Conns
    BY <2>1, OwnState DEF ConnInv, TypeInv
  <2>3. {"timeout"} \in EventType /\ {"timeout"} # {"done"}
    BY DEF EventType
  <2> QED
    BY <2>1, <2>2, <2>3, QueueKeeps
<1> QED
  BY <1>1, <1>2, <1>3, <1>4, <1>5 DEF TimerStep

\* A place without a connection.
LEMMA ConnInvInit == Init => ConnInv
<1> SUFFICES ASSUME Init PROVE ConnInv
  OBVIOUS
<1> DEFINE n == NewConn(CHOOSE i \in IPs : TRUE)
<1>1. n \in ConnType
  BY NewConnType, SomeIP
<1>2. Local("free", n, <<>>, {})
  BY DEF Local, Fresh, Opened, Stops, Reads, Answers, Process, InWork, Awaits, Rests, Has, Once,
     InRequest, BeforeParsed, Between, NewConn
<1>3. conn \in [Conns -> {n}]
  BY DEF Init
<1> HIDE DEF n
<1>4. TypeInv
  <2>1. conn \in [Conns -> ConnType]
    BY <1>1, <1>3
  <2>2. /\ at \in [Conns -> Places] /\ ev \in [Conns -> EventType \cup {{}}]
        /\ mask \in [Conns -> SUBSET {"R", "W"}] /\ toSet \in [Conns -> BOOLEAN]
    BY DEF Init, Places
  <2>3. /\ evq \in [Conns -> Seq(EventType)] /\ wire \in [Conns -> Seq(Pieces)]
        /\ client \in [Conns -> [closed : BOOLEAN, last : Pieces \cup {"none"}, sent : 0 .. MaxSends]]
    BY NewClientType, EmptySeq DEF Init
  <2>4. /\ listed \subseteq Conns /\ timer \in BOOLEAN /\ tactive \in BOOLEAN
        /\ tpc \in {"off", "scan"} /\ tleft \subseteq Conns /\ tnote \subseteq Conns
        /\ activeRequests \in Int
    <3>1. listed = {} /\ timer = FALSE /\ tactive = FALSE /\ tpc = "off" /\ tleft = {} /\ tnote = {} /\ activeRequests = 0
      BY DEF Init
    <3>2. timer \in BOOLEAN /\ tactive \in BOOLEAN
      BY <3>1, Zenon
    <3>3. activeRequests \in Int
      BY <3>1
    <3> QED
      BY <3>1, <3>2, <3>3, Zenon
  <2>5. clientLoad \in [IPs -> Nat]
    <3>1. clientLoad = [i \in IPs |-> 0]
      BY DEF Init
    <3> QED
      BY <3>1
  <2> QED
    BY <2>1, <2>2, <2>3, <2>4, <2>5 DEF TypeInv
<1>5. CallbackInv
  <2> SUFFICES ASSUME NEW c \in Conns PROVE Local(at[c], conn[c], evq[c], mask[c])
    BY DEF CallbackInv
  <2>1. at[c] = "free" /\ conn[c] = n /\ evq[c] = <<>> /\ mask[c] = {}
    BY <1>3 DEF Init
  <2> QED
    BY <1>2, <2>1
<1> QED
  BY <1>4, <1>5 DEF ConnInv

LEMMA PumpStepKeeps ==
    ASSUME ConnInv, NEW c \in Conns, PumpStep(c)
    PROVE  ConnInv'
BY ParseKeeps, RouteKeeps, ContentKeeps, ReadyKeeps, RunningKeeps, CompleteKeeps, PumpEndsKeeps DEF PumpStep

LEMMA ConnStepKeeps ==
    ASSUME ConnInv, NEW c \in Conns, ConnStep(c)
    PROVE  ConnInv'
BY StartTimerKeeps, AdmitKeeps, IoEventKeeps, CgiEventKeeps, TimeoutEventKeeps, ReadKeeps, PumpStepKeeps,
   AfterKeeps, UnlistKeeps, ReleaseRequestKeeps, ReleaseConnKeeps, CloseKeeps DEF ConnStep

\* What callbacks rely on holds in every state.
LEMMA CallbacksSafe == Spec => []ConnInv
<1>1. ConnInv /\ [Next]_vars => ConnInv'
  <2> SUFFICES ASSUME ConnInv, [Next]_vars PROVE ConnInv'
    OBVIOUS
  <2>1. CASE TimerStep
    BY <2>1, TimerKeeps
  <2>2. ASSUME NEW c \in Conns, ConnStep(c) PROVE ConnInv'
    BY <2>2, ConnStepKeeps
  <2>3. ASSUME NEW c \in Conns, ClientStep(c) PROVE ConnInv'
    BY <2>3, AcceptKeeps, SendKeeps, ClientClosesKeeps DEF ClientStep
  <2>4. ASSUME NEW c \in Conns, Notify(c) \/ CgiStep(c) PROVE ConnInv'
    BY <2>4, NotifyKeeps, CgiExitsKeeps, CgiOutputKeeps, CgiRedirectKeeps DEF CgiStep
  <2>5. CASE UNCHANGED vars
    BY <2>5, AsideKeeps DEF vars, ConnInv, TypeInv, connVars, eventVars, peerVars, timerVars
  <2> QED
    BY <2>1, <2>2, <2>3, <2>4, <2>5 DEF Next
<1> QED
  BY <1>1, ConnInvInit, PTL DEF Spec

\* However events of the socket, of processes and of the timer interleave, each
\* connection's callbacks leave it listening for what its request needs next:
\* httpEnableConnEvents and the states at which httpPumpRequest returns agree.  Only
\* a request that is completed in the last lines of cgiCallback leaves it deaf.
THEOREM ConnsHear == Spec => []NeverDeaf
<1>1. ConnInv => NeverDeaf
  <2> SUFFICES ASSUME ConnInv, NEW c \in Conns, at[c] = "rest", evq[c] = <<>>
               PROVE  \/ conn[c].state \in BeforeParsed \cup {"content"} /\ "R" \in mask[c]
                      \/ conn[c].state = "running" /\ conn[c].out = "final" /\ "W" \in mask[c]
                      \/ conn[c].state = "running" /\ conn[c].work
                      \/ conn[c].state = "complete" /\ conn[c].left
    BY DEF NeverDeaf, Quiet
  <2> DEFINE r == conn[c]
  <2>1. r \in ConnType /\ Local("rest", r, <<>>, mask[c])
    BY OwnState
  <2>2. ~Has(<<>>, {"done"})
    BY DEF Has
  <2>3. r.state \in Between \cup {"content", "running"} /\ (r.state = "complete" => r.left)
    BY <2>1 DEF Local, Stops
  <2>4. r.state # "complete" => mask[c] = WaitMask(r)
    BY <2>1 DEF Local, Rests
  <2>5. CASE r.state \in BeforeParsed \cup {"content"}
    BY <2>1, <2>4, <2>5 DEF Local, Reads, Dying, WaitMask, BeforeParsed
  <2>6. CASE r.state = "running"
    BY <2>1, <2>2, <2>4, <2>6 DEF Local, Answers, Process, InWork, Awaits, WaitMask
  <2> QED
    BY <2>3, <2>5, <2>6 DEF Between
<1> QED
  BY <1>1, CallbacksSafe, PTL

\* A connection that is to be closed is destroyed when its request completes:
\* httpAfterEvent misses none that an event of the socket, the end of a process or
\* its redirection completes.  None follows a request that the output of a process
\* completes, in the last lines of cgiCallback: that one is left to its timeout.
THEOREM ConnsClose == Spec => []ClosesWhenDue
<1>1. ConnInv => ClosesWhenDue
  BY DEF ConnInv, CallbackInv, ClosesWhenDue, Local, Rests
<1> QED
  BY <1>1, CallbacksSafe, PTL

-----------------------------------------------------------------------------
(* Timeouts: the timer, commonPrep and the destruction of a connection.       *)

\* A timeout that is set, or queued and about to be noted, is on its way; one that
\* is about to be noted was not set; and what is past Unlist is not in the list,
\* so that the timer does not note it.
TimeoutInv ==
    /\ \A c \in Conns : toSet[c] \/ c \in tnote => Has(evq[c], {"timeout"}) \/ at[c] \in Dying
    /\ \A c \in Conns : c \in tnote => ~toSet[c]
    /\ \A c \in Conns : at[c] \in {"free", "release", "uncount", "close"} => c \notin listed

\* A step of one connection.
LEMMA TimeoutStep ==
    ASSUME TimeoutInv, ConnInv, NEW c \in Conns, NEW p, at' = [at EXCEPT ![c] = p],
           \A d \in Conns : d # c => evq'[d] = evq[d] /\ toSet'[d] = toSet[d] /\ (d \in listed' <=> d \in listed),
           tnote' = tnote,
           toSet'[c] \/ c \in tnote => Has(evq'[c], {"timeout"}) \/ p \in Dying,
           c \in tnote => ~toSet'[c],
           p \in {"free", "release", "uncount", "close"} => c \notin listed'
    PROVE  TimeoutInv'
<1>1. at'[c] = p /\ \A d \in Conns : d # c => at'[d] = at[d]
  BY DEF ConnInv, TypeInv
<1>2. ASSUME NEW d \in Conns
      PROVE  /\ toSet'[d] \/ d \in tnote' => Has(evq'[d], {"timeout"}) \/ at'[d] \in Dying
             /\ d \in tnote' => ~toSet'[d]
             /\ at'[d] \in {"free", "release", "uncount", "close"} => d \notin listed'
  <2>1. CASE d = c
    BY <1>1, <2>1
  <2>2. CASE d # c
    <3>1. at'[d] = at[d] /\ evq'[d] = evq[d] /\ toSet'[d] = toSet[d] /\ (d \in listed' <=> d \in listed)
      BY <1>1, <2>2
    <3> QED
      BY <3>1 DEF TimeoutInv
  <2> QED
    BY <2>1, <2>2
<1> QED
  BY <1>2 DEF TimeoutInv

\* A callback goes on, and keeps its timeout and the events to come.
LEMMA GoesOn ==
    ASSUME TimeoutInv, ConnInv, NEW c \in Conns, at[c] \notin Dying \cup {"free"},
           NEW p \in Places \ {"free", "release", "uncount", "close"}, at' = [at EXCEPT ![c] = p],
           Has(evq[c], {"timeout"}) => Has(evq'[c], {"timeout"}),
           \A d \in Conns : d # c => evq'[d] = evq[d],
           UNCHANGED <<toSet, tnote, listed>>
    PROVE  TimeoutInv'
BY TimeoutStep DEF TimeoutInv

\* A callback goes on and takes its timeout back.  What is about to be noted was
\* not set, so that it stays in the queue.
LEMMA TakesBack ==
    ASSUME TimeoutInv, ConnInv, NEW c \in Conns, at[c] \notin Dying \cup {"free"},
           NEW p \in Places \ {"free", "release", "uncount", "close"}, at' = [at EXCEPT ![c] = p],
           RevokeTimeout(c), UNCHANGED <<tnote, listed>>
    PROVE  TimeoutInv'
<1>1. \A d \in Conns : d # c => evq'[d] = evq[d] /\ toSet'[d] = toSet[d]
  BY DEF RevokeTimeout, ConnInv, TypeInv
<1>2. ~toSet'[c]
  BY DEF RevokeTimeout, ConnInv, TypeInv
<1>3. c \in tnote => evq' = evq
  BY DEF RevokeTimeout, TimeoutInv
<1> QED
  BY <1>1, <1>2, <1>3, TimeoutStep DEF TimeoutInv

LEMMA PumpKeepsTimeout ==
    ASSUME TimeoutInv, ConnInv, NEW c \in Conns, PumpStep(c)
    PROVE  TimeoutInv'
<1>1. at[c] \in {"pump", "readPump", "tail"} /\ UNCHANGED <<tnote, listed>>
  BY DEF PumpStep, Parse, Route, Content, Ready, Running, Complete, PumpEnds, InState, PumpUnchanged, timerVars
<1>2. at[c] \notin Dying \cup {"free"}
  BY <1>1 DEF Dying
<1>3. ASSUME Return(c) \/ UNCHANGED at, UNCHANGED <<evq, toSet>> PROVE TimeoutInv'
  <2>1. PICK p \in {"after", "read", "rest", "pump", "readPump", "tail"} : at' = [at EXCEPT ![c] = p]
    BY <1>1, <1>3, OwnState, ReturnPlace
  <2> QED
    BY <1>1, <1>2, <1>3, <2>1, GoesOn DEF Places
<1>4. CASE Parse(c) \/ Route(c) \/ Content(c) \/ Ready(c) \/ Running(c)
  <2>1. (Return(c) \/ UNCHANGED at) /\ UNCHANGED <<evq, toSet>>
    BY <1>4 DEF Parse, Route, Content, Ready, Running, eventVars
  <2> QED
    BY <1>3, <2>1
<1>6. CASE Complete(c)
  <2>1. /\ evq' = [evq EXCEPT ![c] = Without(@, {"done"})] /\ UNCHANGED toSet
        /\ at' = [at EXCEPT ![c] = at[c]]
    BY <1>6, OwnState DEF Complete
  <2>2. Has(evq[c], {"timeout"}) => Has(Without(evq[c], {"done"}), {"timeout"})
    BY OwnState, WithoutType
  <2>3. evq'[c] = Without(evq[c], {"done"}) /\ \A d \in Conns : d # c => evq'[d] = evq[d]
    BY <2>1 DEF ConnInv, TypeInv
  <2> QED
    BY <1>1, <1>2, <2>1, <2>2, <2>3, GoesOn DEF Places
<1>5. CASE PumpEnds(c)
  <2>1. CASE Return(c) /\ UNCHANGED <<evq, toSet>>
    BY <1>3, <2>1
  <2>2. CASE RevokeTimeout(c) /\ at' = [at EXCEPT ![c] = IF conn[c].input # <<>> THEN @ ELSE "after"]
    <3>1. PICK p \in {"after", "pump", "readPump", "tail"} : at' = [at EXCEPT ![c] = p]
      BY <1>1, <2>2
    <3> QED
      BY <1>1, <1>2, <2>2, <3>1, TakesBack DEF Places
  <2> QED
    BY <1>5, <2>1, <2>2 DEF PumpEnds
<1> QED
  BY <1>4, <1>5, <1>6 DEF PumpStep

LEMMA ConnStepKeepsTimeout ==
    ASSUME TimeoutInv, ConnInv, TimerInv, NEW c \in Conns, ConnStep(c)
    PROVE  TimeoutInv'
<1>1. ASSUME at[c] \in {"timer", "admit", "read", "after"}, UNCHANGED <<evq, toSet, tnote, listed>>,
             NEW p \in {"admit", "read", "unlist", "after", "readPump", "rest"}, at' = [at EXCEPT ![c] = p]
      PROVE  TimeoutInv'
  BY <1>1, GoesOn DEF Places, Dying
<1>2. CASE StartTimer(c)
  BY <1>1, <1>2 DEF StartTimer, eventVars
<1>3. CASE Admit(c)
  <2>1. /\ at[c] = "admit" /\ UNCHANGED <<evq, toSet, tnote, listed>>
        /\ at' = [at EXCEPT ![c] = "read"] \/ at' = [at EXCEPT ![c] = "unlist"]
    BY <1>3 DEF Admit, eventVars, timerVars
  <2> QED
    BY <1>1, <2>1
<1>4. CASE Read(c)
  <2>1. /\ at[c] = "read" /\ UNCHANGED <<evq, toSet, tnote, listed>>
        /\ at' = [at EXCEPT ![c] = "readPump"] \/ at' = [at EXCEPT ![c] = "after"]
    BY <1>4 DEF Read, eventVars, timerVars
  <2> QED
    BY <1>1, <2>1
<1>5. CASE After(c)
  <2>1. at[c] = "after" /\ UNCHANGED <<tnote, listed>>
    BY <1>5 DEF After, timerVars
  <2>2. CASE UNCHANGED <<evq, toSet>>
    <3>1. at' = [at EXCEPT ![c] = "unlist"] \/ at' = [at EXCEPT ![c] = "rest"]
      BY <1>5 DEF After
    <3> QED
      BY <1>1, <2>1, <2>2, <3>1
  <2>3. CASE RevokeTimeout(c) /\ at' = [at EXCEPT ![c] = "rest"]
    BY <2>1, <2>3, TakesBack DEF Places, Dying
  <2> QED
    BY <1>5, <2>2, <2>3 DEF After, eventVars
<1>6. ASSUME Begins(c, {"R", "W"}) \/ Begins(c, {"done"}), evq' = [evq EXCEPT ![c] = Tail(@)],
             UNCHANGED <<toSet, tnote, listed>>,
             NEW p \in {"pump", "read", "after"}, at' = [at EXCEPT ![c] = p]
      PROVE  TimeoutInv'
  <2>1. at[c] = "rest" /\ evq[c] # <<>> /\ Head(evq[c]) # {"timeout"} /\ evq[c] \in Seq(EventType)
    BY <1>6, OwnState DEF Begins
  <2>2. Has(evq[c], {"timeout"}) => Has(Tail(evq[c]), {"timeout"})
    BY <2>1, HasTail
  <2>3. evq'[c] = Tail(evq[c]) /\ \A d \in Conns : d # c => evq'[d] = evq[d]
    BY <1>6 DEF ConnInv, TypeInv
  <2> QED
    BY <1>6, <2>1, <2>2, <2>3, GoesOn DEF Places, Dying
<1>7. CASE IoEvent(c)
  <2>1. /\ Begins(c, {"R", "W"}) /\ evq' = [evq EXCEPT ![c] = Tail(@)] /\ UNCHANGED <<toSet, tnote, listed>>
        /\ \E p \in {"pump", "read", "after"} : at' = [at EXCEPT ![c] = p]
    BY <1>7 DEF IoEvent, timerVars
  <2> QED
    BY <1>6, <2>1
<1>8. CASE CgiEvent(c)
  BY <1>6, <1>8 DEF CgiEvent, timerVars
<1>9. CASE TimeoutEvent(c)
  <2>1. /\ at[c] = "rest" /\ at' = [at EXCEPT ![c] = "unlist"] /\ UNCHANGED <<toSet, tnote, listed>>
        /\ evq' = [evq EXCEPT ![c] = Tail(@)]
    BY <1>9 DEF TimeoutEvent, Begins, timerVars
  <2>2. \A d \in Conns : d # c => evq'[d] = evq[d]
    BY <2>1 DEF ConnInv, TypeInv
  <2> QED
    BY <2>1, <2>2, TimeoutStep DEF Dying, TimeoutInv
<1>10. CASE PumpStep(c)
  BY <1>10, PumpKeepsTimeout
<1>11. CASE Unlist(c)
  <2>1. PICK p \in {"release", "close"} : at' = [at EXCEPT ![c] = p]
    BY <1>11 DEF Unlist
  <2>2. UNCHANGED <<evq, toSet, tnote>> /\ listed' = listed \ {c}
    BY <1>11 DEF Unlist, eventVars, timerVars
  <2> QED
    BY <2>1, <2>2, TimeoutStep DEF Dying, TimeoutInv
<1>12. CASE ReleaseRequest(c) \/ ReleaseConn(c)
  <2>1. PICK p \in {"uncount", "close"} : at' = [at EXCEPT ![c] = p]
    BY <1>12 DEF ReleaseRequest, ReleaseConn
  <2>2. UNCHANGED <<evq, toSet, tnote, listed>> /\ at[c] \in {"release", "uncount"}
    BY <1>12 DEF ReleaseRequest, ReleaseConn, eventVars, timerVars
  <2> QED
    BY <2>1, <2>2, TimeoutStep DEF Dying, TimeoutInv
<1>13. CASE Close(c)
  <2>1. /\ at[c] = "close" /\ at' = [at EXCEPT ![c] = "free"] /\ UNCHANGED <<tnote, listed>>
        /\ evq' = [evq EXCEPT ![c] = <<>>] /\ toSet' = [toSet EXCEPT ![c] = FALSE]
    BY <1>13 DEF Close, timerVars
  <2>2. c \notin listed /\ c \notin tnote
    BY <2>1 DEF TimeoutInv, TimerInv, VisitedAreListed
  <2>3. ~toSet'[c] /\ \A d \in Conns : d # c => evq'[d] = evq[d] /\ toSet'[d] = toSet[d]
    BY <2>1 DEF ConnInv, TypeInv
  <2> QED
    BY <2>1, <2>2, <2>3, TimeoutStep
<1> QED
  BY <1>2, <1>3, <1>4, <1>5, <1>7, <1>8, <1>9, <1>10, <1>11, <1>12, <1>13 DEF ConnStep

LEMMA OthersKeepTimeout ==
    ASSUME TimeoutInv, ConnInv, TimerInv, NEW c \in Conns, ClientStep(c) \/ Notify(c) \/ CgiStep(c)
    PROVE  TimeoutInv'
<1>1. ASSUME NEW ip \in IPs, Accept(c, ip) PROVE TimeoutInv'
  <2>1. /\ at[c] = "free" /\ at' = [at EXCEPT ![c] = "timer"] /\ listed' = listed \cup {c}
        /\ UNCHANGED <<evq, toSet, tnote>> /\ tnote = {}
    BY <1>1 DEF Accept, ListUnlocked, TimerInv, eventVars, timerVars
  <2>2. toSet[c] => Has(evq[c], {"timeout"})
    BY <2>1 DEF TimeoutInv, Dying
  <2> QED
    BY <2>1, <2>2, TimeoutStep
<1>2. ASSUME NEW p \in Pieces, Send(c, p) PROVE TimeoutInv'
  BY <1>2 DEF Send, TimeoutInv, connVars, eventVars, timerVars
<1>3. CASE ClientCloses(c)
  BY <1>3 DEF ClientCloses, TimeoutInv, connVars, eventVars, timerVars
<1>4. ASSUME NEW e \in EventType, evq' = [evq EXCEPT ![c] = Append(@, e)],
             UNCHANGED <<at, toSet, tnote, listed>>
      PROVE  TimeoutInv'
  <2>1. Has(evq[c], {"timeout"}) => Has(Append(evq[c], e), {"timeout"})
    <3>1. evq[c] \in Seq(EventType)
      BY OwnState
    <3> QED
      BY <1>4, <3>1, HasAppend
  <2>2. evq'[c] = Append(evq[c], e) /\ \A d \in Conns : d # c => evq'[d] = evq[d]
    BY <1>4 DEF ConnInv, TypeInv
  <2>3. at' = [at EXCEPT ![c] = at[c]]
    BY <1>4, OwnState
  <2> QED
    BY <1>4, <2>1, <2>2, <2>3, TimeoutStep DEF TimeoutInv
<1>5. CASE Notify(c)
  <2>1. PICK e \in SUBSET {"R", "W"} : e # {} /\ evq' = [evq EXCEPT ![c] = Append(@, e)]
    BY <1>5, OwnState DEF Notify
  <2>2. e \in EventType
    <3>1. e = {"R"} \/ e = {"W"} \/ e = {"R", "W"}
      BY <2>1
    <3> QED
      BY <3>1 DEF EventType
  <2> QED
    BY <1>4, <1>5, <2>1, <2>2 DEF Notify, connVars, timerVars
<1>6. CASE CgiExits(c)
  BY <1>4, <1>6 DEF CgiExits, timerVars, EventType
<1>7. CASE CgiOutput(c) \/ CgiRedirect(c)
  <2>1. at[c] = "rest" /\ UNCHANGED <<evq, toSet, tnote, listed>>
    BY <1>7 DEF CgiOutput, CgiRedirect, eventVars, timerVars
  <2>2. PICK p \in {"rest", "tail", "pump"} : at' = [at EXCEPT ![c] = p]
    BY <1>7, <2>1, OwnState DEF CgiOutput, CgiRedirect
  <2> QED
    BY <2>1, <2>2, GoesOn DEF Places, Dying
<1> QED
  BY <1>1, <1>2, <1>3, <1>5, <1>6, <1>7 DEF ClientStep, CgiStep

LEMMA TimerKeepsTimeout ==
    ASSUME TimeoutInv, ConnInv, TimerInv, TimerStep
    PROVE  TimeoutInv'
<1>1. CASE TimerBegin
  BY <1>1 DEF TimerBegin, TimeoutInv, connVars, eventVars
<1>2. CASE TimerEnd
  BY <1>2 DEF TimerEnd, TimeoutInv, connVars, eventVars
<1>3. ASSUME NEW c \in Conns, TimerPasses(c) PROVE TimeoutInv'
  BY <1>3 DEF TimerPasses, TimeoutInv, connVars, eventVars
<1>4. ASSUME NEW c \in Conns, TimerExpires(c) PROVE TimeoutInv'
  <2>1. /\ evq' = [evq EXCEPT ![c] = Append(@, {"timeout"})] /\ tnote = {} /\ tnote' = {c} /\ ~toSet[c]
        /\ UNCHANGED <<at, toSet, listed>>
    BY <1>4 DEF TimerExpires, connVars
  <2>2. Has(evq'[c], {"timeout"}) /\ \A d \in Conns : d # c => evq'[d] = evq[d]
    <3>1. evq[c] \in Seq(EventType) /\ {"timeout"} \in EventType
      BY OwnState DEF EventType
    <3>2. Has(Append(evq[c], {"timeout"}), {"timeout"})
      BY <3>1, HasAppend
    <3> QED
      BY <2>1, <3>2 DEF ConnInv, TypeInv
  <2> QED
    BY <2>1, <2>2 DEF TimeoutInv
<1>5. ASSUME NEW c \in Conns, TimerNotes(c) PROVE TimeoutInv'
  <2>1. /\ c \in tnote /\ toSet' = [toSet EXCEPT ![c] = TRUE] /\ tnote' = {}
        /\ UNCHANGED <<at, evq, listed>>
    BY <1>5 DEF TimerNotes, connVars
  <2>2. \A d \in Conns : d # c => toSet'[d] = toSet[d]
    BY <2>1 DEF ConnInv, TypeInv
  <2> QED
    BY <2>1, <2>2 DEF TimeoutInv
<1> QED
  BY <1>1, <1>2, <1>3, <1>4, <1>5 DEF TimerStep

LEMMA TimeoutSafe == Spec => []TimeoutInv
<1>1. Init => TimeoutInv
  BY DEF Init, TimeoutInv
<1>2. TimeoutInv /\ ConnInv /\ TimerInv /\ [Next]_vars => TimeoutInv'
  <2> SUFFICES ASSUME TimeoutInv, ConnInv, TimerInv, [Next]_vars PROVE TimeoutInv'
    OBVIOUS
  <2>1. CASE TimerStep
    BY <2>1, TimerKeepsTimeout
  <2>2. ASSUME NEW c \in Conns, ConnStep(c) PROVE TimeoutInv'
    BY <2>2, ConnStepKeepsTimeout
  <2>3. ASSUME NEW c \in Conns, ClientStep(c) \/ Notify(c) \/ CgiStep(c) PROVE TimeoutInv'
    BY <2>3, OthersKeepTimeout
  <2>4. CASE UNCHANGED vars
    BY <2>4 DEF vars, TimeoutInv, connVars, eventVars, timerVars
  <2> QED
    BY <2>1, <2>2, <2>3, <2>4 DEF Next
<1> QED
  BY <1>1, <1>2, CallbacksSafe, TimerSafe, PTL DEF Spec

\* httpTimer queues the timeout before it notes it in timeoutEvent, while the
\* connection's own callbacks may run, be prepared for the next request or be
\* destroyed: timeoutEvent never stays set without its event to come.
THEOREM TimeoutsArrive == Spec => []TimeoutPending
<1>1. ConnInv /\ TimeoutInv => TimeoutPending
  <2> SUFFICES ASSUME ConnInv, TimeoutInv, NEW c \in Conns, toSet[c]
               PROVE  \/ \E i \in 1 .. Len(evq[c]) : evq[c][i] = {"timeout"}
                      \/ at[c] \in {"unlist", "release", "uncount", "close"}
    BY DEF TimeoutPending
  <2>1. DOMAIN evq[c] = 1 .. Len(evq[c])
    BY OwnState
  <2> QED
    BY <2>1 DEF TimeoutInv, Has, Dying
<1> QED
  BY <1>1, CallbacksSafe, TimeoutSafe, PTL

-----------------------------------------------------------------------------
(* The counts of the endpoint: httpValidateLimits.                            *)

\* What a connection contributes to a count.
One(b) == IF b THEN 1 ELSE 0

\* A connection of ip that is at p is in the count of its clients.
CountsFor(p, r, ip) == p \notin {"free", "timer", "admit", "close"} /\ r.endpoint /\ r.ip = ip

\* A step counts what it does to its own connection, and touches no other.
Accounts(c) ==
    /\ \A d \in Conns : d # c => at'[d] = at[d] /\ conn'[d] = conn[d]
    /\ activeRequests' = activeRequests + One(conn'[c].opened) - One(conn[c].opened)
    /\ \A ip \in IPs :
          clientLoad'[ip] = clientLoad[ip] + One(CountsFor(at'[c], conn'[c], ip)) - One(CountsFor(at[c], conn[c], ip))

\* A set that changes in one element.
LEMMA CountChanges ==
    ASSUME NEW A, IsFiniteSet(A), NEW B, NEW x, \A y : y # x => (y \in A <=> y \in B)
    PROVE  Cardinality(B) = Cardinality(A) + One(x \in B) - One(x \in A)
<1>1. Cardinality(A) \in Int
  BY FS_CardinalityType
<1>2. CASE x \in A <=> x \in B
  <2>1. A = B
    BY <1>2
  <2> QED
    BY <1>1, <2>1 DEF One
<1>3. CASE x \notin A /\ x \in B
  <2>1. B = A \cup {x}
    BY <1>3
  <2>2. Cardinality(B) = Cardinality(A) + 1
    BY <1>3, <2>1, FS_AddElement
  <2> QED
    BY <1>1, <1>3, <2>2 DEF One
<1>4. CASE x \in A /\ x \notin B
  <2>1. B = A \ {x}
    BY <1>4
  <2>2. Cardinality(B) = Cardinality(A) - 1
    BY <1>4, <2>1, FS_RemoveElement
  <2> QED
    BY <1>1, <1>4, <2>2 DEF One
<1> QED
  BY <1>2, <1>3, <1>4

\* What is counted as it changes stays balanced.
LEMMA BalanceKept ==
    ASSUME CountsBalance, NEW c \in Conns, Accounts(c)
    PROVE  CountsBalance'
<1>1. \A S \in SUBSET Conns : IsFiniteSet(S)
  BY HttpConnAssumption, FS_Subset
<1>2. activeRequests' = Cardinality({d \in Conns : conn[d].opened})'
  <2> DEFINE A == {d \in Conns : conn[d].opened}
             B == {d \in Conns : conn'[d].opened}
  <2>1. IsFiniteSet(A) /\ \A d : d # c => (d \in A <=> d \in B)
    BY <1>1 DEF Accounts
  <2>2. Cardinality(B) = Cardinality(A) + One(c \in B) - One(c \in A)
    BY <2>1, CountChanges
  <2>3. One(c \in B) = One(conn'[c].opened) /\ One(c \in A) = One(conn[c].opened)
    BY DEF One
  <2> QED
    BY <2>2, <2>3 DEF CountsBalance, Accounts
<1>3. ASSUME NEW ip \in IPs
      PROVE  clientLoad'[ip] = Cardinality({d \in Conns : Counted(d) /\ conn[d].ip = ip})'
  <2> DEFINE A == {d \in Conns : CountsFor(at[d], conn[d], ip)}
             B == {d \in Conns : CountsFor(at'[d], conn'[d], ip)}
  <2>1. IsFiniteSet(A) /\ \A d : d # c => (d \in A <=> d \in B)
    BY <1>1 DEF Accounts
  <2>2. Cardinality(B) = Cardinality(A) + One(c \in B) - One(c \in A)
    BY <2>1, CountChanges
  <2>3. /\ One(c \in B) = One(CountsFor(at'[c], conn'[c], ip))
        /\ One(c \in A) = One(CountsFor(at[c], conn[c], ip))
    BY DEF One
  <2>4. /\ A = {d \in Conns : Counted(d) /\ conn[d].ip = ip}
        /\ B = {d \in Conns : Counted(d) /\ conn[d].ip = ip}'
    BY DEF CountsFor, Counted
  <2>5. clientLoad[ip] = Cardinality(A)
    BY <2>4 DEF CountsBalance
  <2> HIDE DEF A, B
  <2> QED
    BY <2>2, <2>3, <2>4, <2>5 DEF Accounts
<1> QED
  BY <1>2, <1>3 DEF CountsBalance

\* A step that counts nothing: the connection keeps what the counts are about.
LEMMA CountsNothing ==
    ASSUME ConnInv, NEW c \in Conns, UNCHANGED countVars,
           \A d \in Conns : d # c => at'[d] = at[d] /\ conn'[d] = conn[d],
           conn'[c].opened = conn[c].opened,
           \A ip \in IPs : CountsFor(at'[c], conn'[c], ip) <=> CountsFor(at[c], conn[c], ip)
    PROVE  Accounts(c)
<1>1. activeRequests \in Int /\ clientLoad \in [IPs -> Nat]
  BY DEF ConnInv, TypeInv
<1> QED
  BY <1>1 DEF Accounts, One, countVars

\* A callback that has been admitted goes on, and whatever becomes of its request
\* is counted.
LEMMA AdmittedAccounts ==
    ASSUME ConnInv, NEW c \in Conns, at[c] \notin {"free", "timer", "admit", "close"},
           NEW p, at' = [at EXCEPT ![c] = p], p \notin {"free", "timer", "admit", "close"},
           NEW n, conn' = [conn EXCEPT ![c] = n],
           n.ip = conn[c].ip, n.endpoint = conn[c].endpoint,
           activeRequests' = activeRequests + One(n.opened) - One(conn[c].opened),
           UNCHANGED clientLoad
    PROVE  Accounts(c)
<1>1. at'[c] = p /\ conn'[c] = n /\ \A d \in Conns : d # c => at'[d] = at[d] /\ conn'[d] = conn[d]
  BY DEF ConnInv, TypeInv
<1>2. \A ip \in IPs : CountsFor(p, n, ip) <=> CountsFor(at[c], conn[c], ip)
  BY DEF CountsFor
<1>3. clientLoad \in [IPs -> Nat]
  BY DEF ConnInv, TypeInv
<1> QED
  BY <1>1, <1>2, <1>3 DEF Accounts, One

\* The pump counts the requests that it opens and completes.
LEMMA PumpAccounts ==
    ASSUME ConnInv, NEW c \in Conns, PumpStep(c)
    PROVE  Accounts(c)
<1> DEFINE r == conn[c]
<1>1. at[c] \in {"pump", "readPump", "tail"}
  BY DEF PumpStep, Parse, Route, Content, Ready, Running, Complete, PumpEnds, InState
<1>2. r \in ConnType /\ Local(at[c], r, evq[c], mask[c]) /\ conn = [conn EXCEPT ![c] = r]
      /\ activeRequests \in Int
  BY OwnState DEF ConnInv, TypeInv
<1>3. \E p \in {"pump", "readPump", "tail", "after", "read", "rest"} : at' = [at EXCEPT ![c] = p]
  <2>1. CASE Return(c)
    BY <2>1, ReturnPlace
  <2>2. CASE UNCHANGED at
    BY <1>1, <2>2, OwnState
  <2>3. CASE at' = [at EXCEPT ![c] = IF conn[c].input # <<>> THEN @ ELSE "after"]
    BY <1>1, <2>3
  <2> QED
    BY <2>1, <2>2, <2>3 DEF PumpStep, Parse, Route, Content, Ready, Running, Complete, PumpEnds
<1>4. ASSUME NEW n, conn' = [conn EXCEPT ![c] = n], n.ip = r.ip, n.endpoint = r.endpoint,
             activeRequests' = activeRequests + One(n.opened) - One(r.opened), UNCHANGED clientLoad
      PROVE  Accounts(c)
  <2>1. PICK p \in {"pump", "readPump", "tail", "after", "read", "rest"} : at' = [at EXCEPT ![c] = p]
    BY <1>3
  <2>2. at[c] \notin {"free", "timer", "admit", "close"}
    BY <1>1
  <2> QED
    BY <1>4, <2>1, <2>2, AdmittedAccounts
\* A request that is neither opened nor completed.
<1>5. ASSUME NEW n, conn' = [conn EXCEPT ![c] = n], n.ip = r.ip, n.endpoint = r.endpoint,
             n.opened = r.opened, UNCHANGED countVars
      PROVE  Accounts(c)
  <2>1. One(n.opened) = One(r.opened) /\ One(r.opened) \in Int
    BY <1>5 DEF One
  <2>2. activeRequests' = activeRequests + One(n.opened) - One(r.opened) /\ UNCHANGED clientLoad
    BY <1>2, <1>5, <2>1 DEF countVars
  <2> QED
    BY <1>4, <1>5, <2>2
<1>6. CASE UNCHANGED <<conn, countVars>>
  BY <1>2, <1>5, <1>6
<1>7. CASE Parse(c)
  <2> DEFINE opens == HasHead(r.input) /\ RequestAdmissible
             s == [r EXCEPT !.opened = opens, !.input = AfterHead(r.input)]
             k == HeadOf(r.input)
             t == [s EXCEPT !.state = "parsed", !.kind = k, !.keep = IF k = "last" THEN 0 ELSE s.keep]
             f == Finalize([s EXCEPT !.state = "parsed", !.kind = "refused", !.input = <<"junk">> \o s.input])
  <2>1. /\ activeRequests' = activeRequests + One(opens) /\ UNCHANGED clientLoad
        /\ r.state \in BeforeParsed
    BY <1>7 DEF Parse, InState, One
  <2>2. ~r.opened
    BY <1>1, <1>2, <2>1 DEF Local, Opened, InRequest, BeforeParsed
  <2> HIDE DEF opens
  <2>3. ASSUME NEW n, conn' = [conn EXCEPT ![c] = n], n.ip = r.ip, n.endpoint = r.endpoint, n.opened = opens
        PROVE  Accounts(c)
    <3>1. activeRequests' = activeRequests + One(n.opened) - One(r.opened)
      BY <1>2, <2>1, <2>2, <2>3 DEF One
    <3> QED
      BY <1>4, <2>1, <2>3, <3>1
  <2>4. CASE ~HasHead(r.input) /\ UNCHANGED conn
    <3>1. r.opened = opens
      BY <1>2, <2>2, <2>4 DEF opens, ConnType
    <3> QED
      BY <1>2, <2>3, <2>4, <3>1
  <2>5. /\ s.ip = r.ip /\ s.endpoint = r.endpoint /\ s.opened = opens
        /\ t.ip = r.ip /\ t.endpoint = r.endpoint /\ t.opened = opens
        /\ f.ip = r.ip /\ f.endpoint = r.endpoint /\ f.opened = opens
        /\ Abort(s).ip = r.ip /\ Abort(s).endpoint = r.endpoint /\ Abort(s).opened = opens
    <3> HIDE DEF r
    <3> QED
      BY <1>2 DEF ConnType, Finalize, Abort
  <2>6. \/ ~HasHead(r.input) /\ UNCHANGED conn
        \/ conn' = [conn EXCEPT ![c] = Abort(s)]
        \/ conn' = [conn EXCEPT ![c] = t]
        \/ conn' = [conn EXCEPT ![c] = f]
    BY <1>7 DEF Parse, opens
  <2> HIDE DEF s, t, f
  <2> QED
    BY <2>3, <2>4, <2>5, <2>6
<1>8. CASE Route(c)
  <2> DEFINE n == [r EXCEPT !.state = IF HasBody(r.kind) THEN "content" ELSE "ready",
                            !.eof = ~HasBody(r.kind), !.work = r.kind = "cgi"]
  <2>1. conn' = [conn EXCEPT ![c] = n] /\ UNCHANGED countVars
    BY <1>8 DEF Route
  <2>2. n.ip = r.ip /\ n.endpoint = r.endpoint /\ n.opened = r.opened
    <3> HIDE DEF r
    <3> QED
      BY <1>2 DEF ConnType
  <2> HIDE DEF n
  <2> QED
    BY <1>5, <2>1, <2>2
<1>9. CASE Content(c)
  <2> DEFINE more == [r EXCEPT !.input = Tail(r.input), !.eof = TRUE, !.state = "ready"]
             gone == [Abort(r) EXCEPT !.state = "ready"]
  <2>1. UNCHANGED countVars
    BY <1>9 DEF Content
  <2>2. UNCHANGED conn \/ conn' = [conn EXCEPT ![c] = more] \/ conn' = [conn EXCEPT ![c] = gone]
    BY <1>9 DEF Content
  <2>3. /\ more.ip = r.ip /\ more.endpoint = r.endpoint /\ more.opened = r.opened
        /\ gone.ip = r.ip /\ gone.endpoint = r.endpoint /\ gone.opened = r.opened
    <3> HIDE DEF r
    <3> QED
      BY <1>2 DEF ConnType, Abort
  <2> HIDE DEF more, gone
  <2> QED
    BY <1>5, <1>6, <2>1, <2>2, <2>3
<1>10. CASE Ready(c)
  <2> DEFINE s == [r EXCEPT !.state = "running"]
             n == IF s.out # "none" \/ s.kind = "cgi" THEN s
                  ELSE IF s.kind = "errdoc" THEN [s EXCEPT !.out = "done"] ELSE Finalize(s)
  <2>1. conn' = [conn EXCEPT ![c] = n] /\ UNCHANGED countVars
    BY <1>10 DEF Ready
  <2>2. n.ip = r.ip /\ n.endpoint = r.endpoint /\ n.opened = r.opened
    <3> HIDE DEF r
    <3> QED
      BY <1>2 DEF ConnType, Finalize
  <2> HIDE DEF n
  <2> QED
    BY <1>5, <2>1, <2>2
<1>11. CASE Running(c)
  <2> DEFINE done == [r EXCEPT !.out = "done", !.state = "finalized"]
             gone == [Abort(r) EXCEPT !.state = "finalized"]
             full == [r EXCEPT !.blocked = TRUE]
  <2>1. UNCHANGED countVars
    BY <1>11 DEF Running
  <2>2. UNCHANGED conn \/ conn' = [conn EXCEPT ![c] = done] \/ conn' = [conn EXCEPT ![c] = gone]
        \/ conn' = [conn EXCEPT ![c] = full]
    BY <1>11 DEF Running
  <2>3. /\ done.ip = r.ip /\ done.endpoint = r.endpoint /\ done.opened = r.opened
        /\ gone.ip = r.ip /\ gone.endpoint = r.endpoint /\ gone.opened = r.opened
        /\ full.ip = r.ip /\ full.endpoint = r.endpoint /\ full.opened = r.opened
    <3> HIDE DEF r
    <3> QED
      BY <1>2 DEF ConnType, Abort
  <2> HIDE DEF done, gone, full
  <2> QED
    BY <1>5, <1>6, <2>1, <2>2, <2>3
<1>12. CASE Complete(c)
  <2> DEFINE s == [r EXCEPT !.opened = FALSE, !.work = FALSE]
             again == [s EXCEPT !.state = "connected", !.kind = "none", !.out = "none",
                                !.eof = FALSE, !.input = <<"get">>]
             over == [s EXCEPT !.state = "complete"]
             n == IF s.kind = "errdoc" /\ ~s.connError THEN again ELSE over
  <2>1. conn' = [conn EXCEPT ![c] = n]
    BY <1>12 DEF Complete
  <2>2. n.ip = r.ip /\ n.endpoint = r.endpoint /\ n.opened = FALSE
    <3> HIDE DEF r
    <3> QED
      BY <1>2 DEF ConnType
  <2> HIDE DEF n
  <2>3. activeRequests' = activeRequests + One(n.opened) - One(r.opened) /\ UNCHANGED clientLoad
    BY <1>2, <1>12, <2>2 DEF Complete, CloseRequest, One
  <2> QED
    BY <1>4, <2>1, <2>2, <2>3
<1>13. CASE PumpEnds(c)
  <2>1. /\ UNCHANGED countVars /\ r.state = "complete"
        /\ UNCHANGED conn \/ conn' = [conn EXCEPT ![c] = Prepared(r)]
    BY <1>13 DEF PumpEnds, InState
  <2>2. Prepared(r).ip = r.ip /\ Prepared(r).endpoint = r.endpoint /\ Prepared(r).opened = r.opened
    BY <1>2, <2>1 DEF Prepared, ConnType, Local, Opened, InRequest, BeforeParsed
  <2> QED
    BY <1>5, <1>6, <2>1, <2>2
<1> QED
  BY <1>7, <1>8, <1>9, <1>10, <1>11, <1>12, <1>13 DEF PumpStep

\* The other steps of a connection's callbacks: clients are counted by Admit and
\* ReleaseConn, and a request that is cut short by ReleaseRequest.
LEMMA ConnStepAccounts ==
    ASSUME ConnInv, CountsBalance, NEW c \in Conns, ConnStep(c)
    PROVE  Accounts(c)
<1> DEFINE r == conn[c]
<1>1. /\ r \in ConnType /\ Local(at[c], r, evq[c], mask[c]) /\ conn = [conn EXCEPT ![c] = r]
      /\ activeRequests \in Int /\ clientLoad \in [IPs -> Nat] /\ r.ip \in IPs
  BY OwnState DEF ConnInv, TypeInv, ConnType
\* Steps within the life of a connection that is counted.
<1>2. ASSUME at[c] \notin {"free", "timer", "admit", "close"},
             NEW p \in {"pump", "read", "readPump", "after", "rest", "unlist"}, at' = [at EXCEPT ![c] = p],
             NEW n, conn' = [conn EXCEPT ![c] = n], n.ip = r.ip, n.endpoint = r.endpoint, n.opened = r.opened,
             UNCHANGED countVars
      PROVE  Accounts(c)
  <2>1. One(n.opened) = One(r.opened) /\ One(r.opened) \in Int
    BY <1>2 DEF One
  <2>2. activeRequests' = activeRequests + One(n.opened) - One(r.opened) /\ UNCHANGED clientLoad
    BY <1>1, <1>2, <2>1 DEF countVars
  <2>3. p \notin {"free", "timer", "admit", "close"}
    BY <1>2
  <2> QED
    BY <1>2, <2>2, <2>3, AdmittedAccounts
\* Steps of a connection that was not counted and is not.
<1>3. ASSUME UNCHANGED countVars, NEW p, at' = [at EXCEPT ![c] = p],
             NEW n, conn' = [conn EXCEPT ![c] = n], n.opened = r.opened,
             \A ip \in IPs : CountsFor(p, n, ip) <=> CountsFor(at[c], r, ip)
      PROVE  Accounts(c)
  <2>1. at'[c] = p /\ conn'[c] = n /\ \A d \in Conns : d # c => at'[d] = at[d] /\ conn'[d] = conn[d]
    BY <1>3 DEF ConnInv, TypeInv
  <2> QED
    BY <1>3, <2>1, CountsNothing
<1>4. CASE StartTimer(c)
  <2>1. at[c] = "timer" /\ at' = [at EXCEPT ![c] = "admit"] /\ UNCHANGED <<conn, countVars>>
    BY <1>4 DEF StartTimer
  <2> QED
    BY <1>1, <1>3, <2>1 DEF CountsFor
<1>5. CASE Admit(c)
  <2> DEFINE in == [r EXCEPT !.state = "connected"]
             no == [r EXCEPT !.endpoint = FALSE, !.keep = -1, !.connError = TRUE]
  <2>1. at[c] = "admit" /\ UNCHANGED activeRequests
    BY <1>5 DEF Admit
  <2>2. r.endpoint
    BY <1>1, <2>1 DEF Local, Opened
  <2>3. CASE /\ clientLoad' = [clientLoad EXCEPT ![r.ip] = @ + 1]
             /\ conn' = [conn EXCEPT ![c] = in] /\ at' = [at EXCEPT ![c] = "read"]
    <3>1. in.ip = r.ip /\ in.endpoint = r.endpoint /\ in.opened = r.opened
      <4> HIDE DEF r
      <4> QED
        BY <1>1 DEF ConnType
    <3> HIDE DEF in
    <3>2. at'[c] = "read" /\ conn'[c] = in /\ \A d \in Conns : d # c => at'[d] = at[d] /\ conn'[d] = conn[d]
      BY <2>3 DEF ConnInv, TypeInv
    <3>3. activeRequests' = activeRequests + One(in.opened) - One(r.opened)
      <4>1. One(in.opened) = One(r.opened) /\ One(r.opened) \in Int
        BY <3>1 DEF One
      <4> QED
        BY <1>1, <2>1, <4>1
    <3>4. ASSUME NEW ip \in IPs
          PROVE  clientLoad'[ip] = clientLoad[ip] + One(CountsFor("read", in, ip)) - One(CountsFor(at[c], r, ip))
      <4>1. CASE ip = r.ip
        <5>1. One(CountsFor("read", in, ip)) = 1 /\ One(CountsFor(at[c], r, ip)) = 0
          BY <2>1, <2>2, <3>1, <4>1 DEF CountsFor, One
        <5> HIDE DEF r
        <5> QED
          BY <1>1, <2>3, <4>1, <5>1
      <4>2. CASE ip # r.ip
        <5>1. One(CountsFor("read", in, ip)) = 0 /\ One(CountsFor(at[c], r, ip)) = 0
          BY <2>1, <2>2, <3>1, <4>2 DEF CountsFor, One
        <5> HIDE DEF r
        <5> QED
          BY <1>1, <2>3, <4>2, <5>1
      <4> QED
        BY <4>1, <4>2
    <3> QED
      BY <3>2, <3>3, <3>4 DEF Accounts
  <2>4. CASE conn' = [conn EXCEPT ![c] = no] /\ at' = [at EXCEPT ![c] = "unlist"] /\ UNCHANGED clientLoad
    <3>1. no.opened = r.opened /\ ~no.endpoint
      <4> HIDE DEF r
      <4> QED
        BY <1>1 DEF ConnType
    <3> HIDE DEF no
    <3>2. \A ip \in IPs : CountsFor("unlist", no, ip) <=> CountsFor(at[c], r, ip)
      BY <2>1, <3>1 DEF CountsFor
    <3> QED
      BY <1>3, <2>1, <2>4, <3>1, <3>2 DEF countVars
  <2> QED
    BY <1>5, <2>3, <2>4 DEF Admit
<1>6. CASE IoEvent(c)
  <2> DEFINE n == [r EXCEPT !.blocked = r.blocked /\ "W" \notin Head(evq[c])]
  <2>1. /\ at[c] = "rest" /\ UNCHANGED countVars /\ conn' = [conn EXCEPT ![c] = n]
        /\ \E p \in {"pump", "read", "after"} : at' = [at EXCEPT ![c] = p]
    BY <1>6 DEF IoEvent, Begins
  <2>2. n.ip = r.ip /\ n.endpoint = r.endpoint /\ n.opened = r.opened
    <3> HIDE DEF r
    <3> QED
      BY <1>1 DEF ConnType
  <2> HIDE DEF n
  <2> QED
    BY <1>2, <2>1, <2>2
<1>7. CASE CgiEvent(c)
  <2>1. /\ at[c] = "rest" /\ UNCHANGED countVars /\ at' = [at EXCEPT ![c] = "pump"]
        /\ conn' = [conn EXCEPT ![c] = IF r.out = "none" THEN Finalize(r) ELSE r]
    BY <1>7 DEF CgiEvent, Begins
  <2>2. Finalize(r).ip = r.ip /\ Finalize(r).endpoint = r.endpoint /\ Finalize(r).opened = r.opened
    <3> HIDE DEF r
    <3> QED
      BY <1>1 DEF ConnType, Finalize
  <2> QED
    BY <1>2, <2>1, <2>2
<1>8. CASE TimeoutEvent(c)
  <2>1. at[c] = "rest" /\ UNCHANGED <<conn, countVars>> /\ at' = [at EXCEPT ![c] = "unlist"]
    BY <1>8 DEF TimeoutEvent, Begins
  <2> QED
    BY <1>1, <1>2, <2>1
<1>9. CASE Read(c)
  <2> DEFINE more == [r EXCEPT !.input = r.input \o wire[c]]
             gone == [r EXCEPT !.keep = -1, !.sockEof = TRUE]
  <2>1. /\ at[c] = "read" /\ UNCHANGED countVars
        /\ \E p \in {"readPump", "after"} : at' = [at EXCEPT ![c] = p]
        /\ conn' = [conn EXCEPT ![c] = more] \/ conn' = [conn EXCEPT ![c] = gone] \/ UNCHANGED conn
    BY <1>9 DEF Read
  <2>2. /\ more.ip = r.ip /\ more.endpoint = r.endpoint /\ more.opened = r.opened
        /\ gone.ip = r.ip /\ gone.endpoint = r.endpoint /\ gone.opened = r.opened
    <3> HIDE DEF r
    <3> QED
      BY <1>1 DEF ConnType
  <2> HIDE DEF more, gone
  <2> QED
    BY <1>1, <1>2, <2>1, <2>2
<1>10. CASE PumpStep(c)
  BY <1>10, PumpAccounts
<1>11. CASE After(c)
  <2>1. /\ at[c] = "after" /\ UNCHANGED countVars
        /\ \E p \in {"unlist", "rest"} : at' = [at EXCEPT ![c] = p]
        /\ UNCHANGED conn \/ (r.state = "complete" /\ conn' = [conn EXCEPT ![c] = Prepared(r)])
    BY <1>11 DEF After
  <2>2. ASSUME r.state = "complete"
        PROVE  Prepared(r).ip = r.ip /\ Prepared(r).endpoint = r.endpoint /\ Prepared(r).opened = r.opened
    BY <1>1, <2>2 DEF Prepared, ConnType, Local, Opened, InRequest, BeforeParsed
  <2> QED
    BY <1>1, <1>2, <2>1, <2>2
<1>12. CASE Unlist(c)
  <2>1. /\ at[c] = "unlist" /\ UNCHANGED <<conn, countVars>>
        /\ at' = [at EXCEPT ![c] = IF r.endpoint THEN "release" ELSE "close"]
    BY <1>12 DEF Unlist
  <2>2. \A ip \in IPs : CountsFor(IF r.endpoint THEN "release" ELSE "close", r, ip) <=> CountsFor(at[c], r, ip)
    BY <2>1 DEF CountsFor
  <2> QED
    BY <1>1, <1>3, <2>1, <2>2
<1>13. CASE ReleaseRequest(c)
  <2> DEFINE n == [r EXCEPT !.opened = FALSE]
  <2>1. at[c] = "release" /\ conn' = [conn EXCEPT ![c] = n] /\ UNCHANGED clientLoad
        /\ at' = [at EXCEPT ![c] = "uncount"]
    BY <1>13 DEF ReleaseRequest
  <2>2. n.ip = r.ip /\ n.endpoint = r.endpoint /\ n.opened = FALSE
    <3> HIDE DEF r
    <3> QED
      BY <1>1 DEF ConnType
  <2> HIDE DEF n
  <2>3. activeRequests' = activeRequests + One(n.opened) - One(r.opened)
    BY <1>1, <1>13, <2>2 DEF ReleaseRequest, CloseRequest, One
  <2> QED
    BY <2>1, <2>2, <2>3, AdmittedAccounts
<1>14. CASE ReleaseConn(c)
  <2>1. /\ at[c] = "uncount" /\ at' = [at EXCEPT ![c] = "close"] /\ UNCHANGED <<conn, activeRequests>>
        /\ clientLoad' = [clientLoad EXCEPT ![r.ip] = IF @ > 1 THEN @ - 1 ELSE 0]
    BY <1>14 DEF ReleaseConn
  <2>2. r.endpoint /\ CountsFor(at[c], r, r.ip)
    BY <1>1, <2>1 DEF Local, Opened, CountsFor
  \* The connection is in the count of its client, which is not zero.
  <2>3. clientLoad[r.ip] >= 1
    <3> DEFINE A == {d \in Conns : Counted(d) /\ conn[d].ip = r.ip}
    <3>1. c \in A
      BY <2>1, <2>2 DEF Counted
    <3>2. IsFiniteSet(A) /\ clientLoad[r.ip] = Cardinality(A)
      BY <1>1, HttpConnAssumption, FS_Subset DEF CountsBalance
    <3>3. Cardinality(A) # 0 /\ Cardinality(A) \in Nat
      BY <3>1, <3>2, FS_EmptySet, FS_CardinalityType
    <3> QED
      BY <3>2, <3>3
  <2>4. at'[c] = "close" /\ conn'[c] = r /\ \A d \in Conns : d # c => at'[d] = at[d] /\ conn'[d] = conn[d]
    BY <2>1 DEF ConnInv, TypeInv
  <2>5. activeRequests' = activeRequests + One(r.opened) - One(r.opened)
    <3>1. One(r.opened) \in Int
      BY DEF One
    <3> QED
      BY <1>1, <2>1, <3>1
  <2>6. ASSUME NEW ip \in IPs
        PROVE  clientLoad'[ip] = clientLoad[ip] + One(CountsFor("close", r, ip)) - One(CountsFor(at[c], r, ip))
    <3>1. CASE ip = r.ip
      <4>1. One(CountsFor("close", r, ip)) = 0 /\ One(CountsFor(at[c], r, ip)) = 1
        BY <2>2, <3>1 DEF CountsFor, One
      <4> HIDE DEF r
      <4> QED
        BY <1>1, <2>1, <2>3, <3>1, <4>1
    <3>2. CASE ip # r.ip
      <4>1. One(CountsFor("close", r, ip)) = 0 /\ One(CountsFor(at[c], r, ip)) = 0
        BY <3>2 DEF CountsFor, One
      <4> HIDE DEF r
      <4> QED
        BY <1>1, <2>1, <3>2, <4>1
    <3> QED
      BY <3>1, <3>2
  <2> QED
    BY <2>4, <2>5, <2>6 DEF Accounts
<1>15. CASE Close(c)
  <2> DEFINE n == NewConn(CHOOSE i \in IPs : TRUE)
  <2>1. /\ at[c] = "close" /\ at' = [at EXCEPT ![c] = "free"] /\ conn' = [conn EXCEPT ![c] = n]
        /\ UNCHANGED countVars
    BY <1>15 DEF Close
  <2>2. n.opened = r.opened
    BY <1>1, <2>1 DEF Local, Opened, NewConn, InRequest, ConnType
  <2> HIDE DEF n
  <2>3. \A ip \in IPs : CountsFor("free", n, ip) <=> CountsFor(at[c], r, ip)
    BY <2>1 DEF CountsFor
  <2> QED
    BY <1>3, <2>1, <2>2, <2>3
<1> QED
  BY <1>4, <1>5, <1>6, <1>7, <1>8, <1>9, <1>10, <1>11, <1>12, <1>13, <1>14, <1>15 DEF ConnStep

\* Clients, sockets and processes count nothing.
LEMMA OthersKeepBalance ==
    ASSUME ConnInv, CountsBalance, NEW c \in Conns, ClientStep(c) \/ Notify(c) \/ CgiStep(c)
    PROVE  CountsBalance'
<1> DEFINE r == conn[c]
<1>1. r \in ConnType /\ Local(at[c], r, evq[c], mask[c])
  BY OwnState
<1>2. ASSUME NEW ip \in IPs, Accept(c, ip) PROVE CountsBalance'
  <2> DEFINE n == NewConn(ip)
  <2>1. /\ at[c] = "free" /\ at' = [at EXCEPT ![c] = "timer"] /\ conn' = [conn EXCEPT ![c] = n]
        /\ UNCHANGED countVars
    BY <1>2 DEF Accept
  <2>2. n.opened = r.opened
    BY <1>1, <2>1 DEF Local, Opened, NewConn, InRequest, ConnType
  <2> HIDE DEF n
  <2>3. at'[c] = "timer" /\ conn'[c] = n /\ \A d \in Conns : d # c => at'[d] = at[d] /\ conn'[d] = conn[d]
    BY <2>1 DEF ConnInv, TypeInv
  <2>4. \A i \in IPs : CountsFor("timer", n, i) <=> CountsFor(at[c], r, i)
    BY <2>1 DEF CountsFor
  <2> QED
    BY <2>1, <2>2, <2>3, <2>4, CountsNothing, BalanceKept
<1>3. CASE CgiExits(c)
  <2> DEFINE n == [r EXCEPT !.work = FALSE]
  <2>1. UNCHANGED <<at, countVars>> /\ conn' = [conn EXCEPT ![c] = n]
    BY <1>3 DEF CgiExits
  <2>2. n.opened = r.opened /\ n.ip = r.ip /\ n.endpoint = r.endpoint
    <3> HIDE DEF r
    <3> QED
      BY <1>1 DEF ConnType
  <2> HIDE DEF n
  <2>3. at' = at /\ conn'[c] = n /\ \A d \in Conns : d # c => conn'[d] = conn[d]
    BY <2>1 DEF ConnInv, TypeInv
  <2>4. \A i \in IPs : CountsFor(at[c], n, i) <=> CountsFor(at[c], r, i)
    BY <2>2 DEF CountsFor
  <2> QED
    BY <2>1, <2>2, <2>3, <2>4, CountsNothing, BalanceKept
<1>4. ASSUME UNCHANGED <<at, conn, countVars>> PROVE CountsBalance'
  BY <1>4 DEF CountsBalance, Counted, countVars
<1>5. CASE Notify(c) \/ ClientCloses(c) \/ \E p \in Pieces : Send(c, p)
  BY <1>4, <1>5 DEF Notify, ClientCloses, Send, connVars
\* The output of a program, which may complete the request but does not discount it.
<1>6. CASE CgiOutput(c) \/ CgiRedirect(c)
  <2>1. at[c] = "rest" /\ UNCHANGED countVars /\ r.work
    BY <1>6 DEF CgiOutput, CgiRedirect
  <2>2. PICK p \in {"rest", "tail", "pump"} : at' = [at EXCEPT ![c] = p]
    BY <1>6, <2>1, OwnState DEF CgiOutput, CgiRedirect
  <2>3. ASSUME NEW s \in CgiAnswers(r)
        PROVE  s \in ConnType /\ s.ip = r.ip /\ s.endpoint = r.endpoint /\ s.opened = r.opened
    <3>1. s = r \/ s = Finalize(r) \/ s = [r EXCEPT !.kind = "errdoc", !.out = "done"]
      BY <2>3 DEF CgiAnswers
    <3> HIDE DEF r
    <3>2. [r EXCEPT !.kind = "errdoc", !.out = "done"] \in ConnType
      BY <1>1 DEF ConnType
    <3>3. /\ Finalize(r).ip = r.ip /\ Finalize(r).endpoint = r.endpoint /\ Finalize(r).opened = r.opened
          /\ [r EXCEPT !.kind = "errdoc", !.out = "done"].ip = r.ip
          /\ [r EXCEPT !.kind = "errdoc", !.out = "done"].endpoint = r.endpoint
          /\ [r EXCEPT !.kind = "errdoc", !.out = "done"].opened = r.opened
      BY <1>1 DEF Finalize, ConnType
    <3>4. Finalize(r) \in ConnType
      BY <1>1, FinalizeType
    <3> QED
      BY <1>1, <3>1, <3>2, <3>3, <3>4
  <2>4. PICK n : conn' = [conn EXCEPT ![c] = n] /\ n.ip = r.ip /\ n.endpoint = r.endpoint /\ n.opened = r.opened
    <3>1. CASE CgiRedirect(c)
      <4>1. conn' = [conn EXCEPT ![c] = Finalize(r)]
        BY <3>1 DEF CgiRedirect
      <4>2. Finalize(r).ip = r.ip /\ Finalize(r).endpoint = r.endpoint /\ Finalize(r).opened = r.opened
        BY <1>1 DEF Finalize, ConnType
      <4> QED
        BY <4>1, <4>2
    <3>2. CASE CgiOutput(c)
      <4>1. PICK s \in CgiAnswers(r) :
               \/ conn' = [conn EXCEPT ![c] = s]
               \/ conn' = [conn EXCEPT ![c] = [s EXCEPT !.blocked = TRUE]]
               \/ conn' = [conn EXCEPT ![c] = [s EXCEPT !.out = "done", !.state = "finalized", !.left = TRUE]]
               \/ conn' = [conn EXCEPT ![c] = [Abort(s) EXCEPT !.state = "finalized", !.left = TRUE]]
        BY <3>2 DEF CgiOutput
      <4>2. s \in ConnType /\ s.ip = r.ip /\ s.endpoint = r.endpoint /\ s.opened = r.opened
        BY <2>3
      <4> DEFINE b == [s EXCEPT !.blocked = TRUE]
                 f == [s EXCEPT !.out = "done", !.state = "finalized", !.left = TRUE]
                 a == [Abort(s) EXCEPT !.state = "finalized", !.left = TRUE]
      <4> HIDE DEF r
      <4>3. /\ b.ip = r.ip /\ b.endpoint = r.endpoint /\ b.opened = r.opened
            /\ f.ip = r.ip /\ f.endpoint = r.endpoint /\ f.opened = r.opened
            /\ a.ip = r.ip /\ a.endpoint = r.endpoint /\ a.opened = r.opened
        BY <4>2 DEF ConnType, Abort
      <4> HIDE DEF a, b, f
      <4>4. conn' = [conn EXCEPT ![c] = s] \/ conn' = [conn EXCEPT ![c] = b]
            \/ conn' = [conn EXCEPT ![c] = f] \/ conn' = [conn EXCEPT ![c] = a]
        BY <4>1 DEF a, b, f
      <4> QED
        BY <4>2, <4>3, <4>4
    <3> QED
      BY <1>6, <3>1, <3>2
  <2>5. activeRequests' = activeRequests + One(n.opened) - One(conn[c].opened) /\ UNCHANGED clientLoad
    <3>1. One(n.opened) = One(conn[c].opened) /\ One(conn[c].opened) \in Int /\ activeRequests \in Int
      BY <2>4 DEF One, ConnInv, TypeInv
    <3> QED
      BY <2>1, <3>1 DEF countVars
  <2> QED
    BY <2>1, <2>2, <2>4, <2>5, AdmittedAccounts, BalanceKept
<1> QED
  BY <1>2, <1>3, <1>5, <1>6 DEF ClientStep, CgiStep

\* What httpValidateLimits counted before is what there is.
LEMMA BalanceSafe == Spec => []CountsBalance
<1>1. Init => CountsBalance
  <2> SUFFICES ASSUME Init PROVE CountsBalance
    OBVIOUS
  <2> DEFINE n == NewConn(CHOOSE i \in IPs : TRUE)
  <2>1. \A c \in Conns : at[c] = "free" /\ conn[c] = n
    BY DEF Init
  <2>2. n.opened = FALSE
    BY DEF NewConn
  <2> HIDE DEF n
  <2>3. {c \in Conns : conn[c].opened} = {}
    BY <2>1, <2>2
  <2>4. \A ip \in IPs : {c \in Conns : Counted(c) /\ conn[c].ip = ip} = {}
    BY <2>1 DEF Counted
  <2> QED
    BY <2>3, <2>4, FS_EmptySet DEF Init, CountsBalance
<1>2. CountsBalance /\ ConnInv /\ [Next]_vars => CountsBalance'
  <2> SUFFICES ASSUME CountsBalance, ConnInv, [Next]_vars PROVE CountsBalance'
    OBVIOUS
  <2>1. ASSUME UNCHANGED <<at, conn, countVars>> PROVE CountsBalance'
    BY <2>1 DEF CountsBalance, Counted, countVars
  <2>2. CASE TimerStep
    BY <2>1, <2>2 DEF TimerStep, TimerBegin, TimerEnd, TimerPasses, TimerExpires, TimerNotes, connVars
  <2>3. ASSUME NEW c \in Conns, ConnStep(c) PROVE CountsBalance'
    BY <2>3, ConnStepAccounts, BalanceKept
  <2>4. ASSUME NEW c \in Conns, ClientStep(c) \/ Notify(c) \/ CgiStep(c) PROVE CountsBalance'
    BY <2>4, OthersKeepBalance
  <2>5. CASE UNCHANGED vars
    BY <2>1, <2>5 DEF vars, connVars
  <2> QED
    BY <2>2, <2>3, <2>4, <2>5 DEF Next
<1> QED
  BY <1>1, <1>2, CallbacksSafe, PTL DEF Spec

\* However a connection and its requests end - completed, refused, aborted,
\* answered with an error document, or timed out while its client still sends -
\* each is discounted from the endpoint exactly once.
THEOREM CountsAreBalanced == Spec => []CountsBalance
BY BalanceSafe

\* The variables have their types; that no count goes below zero is the balance.
THEOREM TypesHold == Spec => []TypeOK
<1>1. ConnInv /\ CountsBalance => TypeOK
  <2> SUFFICES ASSUME ConnInv, CountsBalance PROVE TypeOK
    OBVIOUS
  <2>1. activeRequests \in Nat
    <3>1. IsFiniteSet({c \in Conns : conn[c].opened})
      BY HttpConnAssumption, FS_Subset
    <3> QED
      BY <3>1, FS_CardinalityType DEF CountsBalance
  <2> QED
    BY <2>1 DEF ConnInv, TypeInv, TypeOK
<1> QED
  BY <1>1, CallbacksSafe, BalanceSafe, PTL

\* The limits, with what makes the number of clients one.
LimitsInv ==
    /\ LimitsRespected
    /\ IsFiniteSet({ip \in IPs : clientLoad[ip] > 0})

\* Which steps count: all others leave the counts alone.
LEMMA WhoCounts ==
    ASSUME [Next]_vars
    PROVE  \/ UNCHANGED countVars
           \/ \E c \in Conns : Parse(c) \/ Complete(c) \/ ReleaseRequest(c) \/ Admit(c) \/ ReleaseConn(c)
<1>1. ASSUME NEW c \in Conns, PumpStep(c)
      PROVE  UNCHANGED countVars \/ Parse(c) \/ Complete(c)
  BY <1>1 DEF PumpStep, Route, Content, Ready, Running, PumpEnds
<1>2. ASSUME NEW c \in Conns, ConnStep(c)
      PROVE  \/ UNCHANGED countVars
             \/ Parse(c) \/ Complete(c) \/ ReleaseRequest(c) \/ Admit(c) \/ ReleaseConn(c)
  BY <1>1, <1>2 DEF ConnStep, StartTimer, IoEvent, CgiEvent, TimeoutEvent, Read, After, Unlist, Close
<1>3. ASSUME NEW c \in Conns, ClientStep(c) \/ Notify(c) \/ CgiStep(c)
      PROVE  UNCHANGED countVars
  BY <1>3 DEF ClientStep, Accept, Send, ClientCloses, Notify, CgiStep, CgiExits, CgiOutput, CgiRedirect
<1>4. ASSUME TimerStep PROVE UNCHANGED countVars
  BY <1>4 DEF TimerStep, TimerBegin, TimerEnd, TimerPasses, TimerExpires, TimerNotes
<1> QED
  BY <1>2, <1>3, <1>4 DEF Next, vars

\* Requests and clients are counted where the limit is tested, in one step.
LEMMA LimitsKept ==
    ASSUME LimitsInv, ConnInv, [Next]_vars
    PROVE  LimitsInv'
<1>1. /\ activeRequests \in Int /\ clientLoad \in [IPs -> Nat]
      /\ RequestMax \in Nat /\ ClientMax \in Nat /\ PerClientMax \in Nat
  BY Limits DEF ConnInv, TypeInv
<1> DEFINE load == {ip \in IPs : clientLoad[ip] > 0}
           next == {ip \in IPs : clientLoad'[ip] > 0}
<1>2. IsFiniteSet(load) /\ Cardinality(load) <= ClientMax
      /\ (\A ip \in IPs : clientLoad[ip] <= PerClientMax) /\ activeRequests <= RequestMax
  BY DEF LimitsInv, LimitsRespected, activeClients
<1>3. ASSUME activeRequests' <= RequestMax, IsFiniteSet(next), Cardinality(next) <= ClientMax,
             \A ip \in IPs : clientLoad'[ip] <= PerClientMax
      PROVE  LimitsInv'
  BY <1>3 DEF LimitsInv, LimitsRespected, activeClients
<1>4. ASSUME UNCHANGED clientLoad, activeRequests' <= RequestMax PROVE LimitsInv'
  BY <1>2, <1>3, <1>4
<1>5. CASE UNCHANGED countVars
  BY <1>2, <1>4, <1>5 DEF countVars
<1>6. ASSUME NEW c \in Conns, Parse(c) PROVE LimitsInv'
  <2>1. UNCHANGED clientLoad
    BY <1>6 DEF Parse
  <2>2. CASE activeRequests < RequestMax
    <3>1. activeRequests' = activeRequests \/ activeRequests' = activeRequests + 1
      BY <1>1, <1>6 DEF Parse
    <3> QED
      BY <1>1, <1>4, <2>1, <2>2, <3>1
  <2>3. CASE ~(activeRequests < RequestMax)
    <3>1. activeRequests' = activeRequests
      BY <1>1, <1>6, <2>3 DEF Parse, RequestAdmissible
    <3> QED
      BY <1>2, <1>4, <2>1, <3>1
  <2> QED
    BY <2>2, <2>3
<1>7. ASSUME NEW c \in Conns, Complete(c) \/ ReleaseRequest(c) PROVE LimitsInv'
  <2>1. UNCHANGED clientLoad /\ (activeRequests' = activeRequests \/ activeRequests' = activeRequests - 1)
    BY <1>1, <1>7 DEF Complete, ReleaseRequest, CloseRequest
  <2> QED
    BY <1>1, <1>2, <1>4, <2>1
<1>8. ASSUME NEW c \in Conns, Admit(c) PROVE LimitsInv'
  <2> DEFINE ip == conn[c].ip
  <2>1. ip \in IPs /\ UNCHANGED activeRequests
    BY <1>8, OwnState DEF Admit, ConnType
  <2>2. CASE Admissible(ip) /\ clientLoad' = [clientLoad EXCEPT ![ip] = @ + 1]
    <3>1. Cardinality(load) < ClientMax /\ clientLoad[ip] < PerClientMax
      BY <2>2 DEF Admissible, activeClients
    <3> HIDE DEF ip
    <3>2. \A i \in IPs : clientLoad'[i] = IF i = ip THEN clientLoad[ip] + 1 ELSE clientLoad[i]
      BY <1>1, <2>2
    <3>3. next = load \cup {ip}
      BY <1>1, <2>1, <3>2
    <3>4. /\ IsFiniteSet(load \cup {ip})
          /\ Cardinality(load \cup {ip}) = IF ip \in load THEN Cardinality(load) ELSE Cardinality(load) + 1
      BY <1>2, FS_AddElement
    <3>5. IsFiniteSet(next) /\ Cardinality(next) <= ClientMax
      <4>1. Cardinality(load) \in Nat
        BY <1>2, FS_CardinalityType
      <4> HIDE DEF load, next
      <4> QED
        BY <1>1, <3>1, <3>3, <3>4, <4>1
    <3>6. \A i \in IPs : clientLoad'[i] <= PerClientMax
      BY <1>1, <1>2, <2>1, <3>1, <3>2
    <3> QED
      BY <1>2, <1>3, <2>1, <3>5, <3>6
  <2>3. CASE UNCHANGED clientLoad
    BY <1>2, <1>4, <2>1, <2>3
  <2> QED
    BY <1>8, <2>2, <2>3 DEF Admit
<1>9. ASSUME NEW c \in Conns, ReleaseConn(c) PROVE LimitsInv'
  <2> DEFINE ip == conn[c].ip
  <2>1. /\ ip \in IPs /\ UNCHANGED activeRequests
        /\ clientLoad' = [clientLoad EXCEPT ![ip] = IF @ > 1 THEN @ - 1 ELSE 0]
    BY <1>9, OwnState DEF ReleaseConn, ConnType
  <2> HIDE DEF ip
  <2>2. \A i \in IPs : clientLoad'[i] <= clientLoad[i] /\ clientLoad'[i] \in Nat
    BY <1>1, <2>1
  <2>3. next \subseteq load
    BY <1>1, <2>2
  <2>4. IsFiniteSet(next) /\ Cardinality(next) <= Cardinality(load)
    BY <1>2, <2>3, FS_Subset
  <2>5. Cardinality(next) <= ClientMax
    <3>1. Cardinality(load) \in Nat /\ Cardinality(next) \in Nat
      BY <1>2, <2>4, FS_CardinalityType
    <3> HIDE DEF load, next
    <3> QED
      BY <1>1, <1>2, <2>4, <3>1
  <2>6. \A i \in IPs : clientLoad'[i] <= PerClientMax
    BY <1>1, <1>2, <2>2
  <2> QED
    BY <1>2, <1>3, <2>1, <2>4, <2>5, <2>6
<1> QED
  BY <1>5, <1>6, <1>7, <1>8, <1>9, WhoCounts

\* However many connections are accepted, served and destroyed at the same time, no
\* limit of the endpoint is exceeded: clientMax, requestsPerClientMax, requestMax.
THEOREM LimitsHold == Spec => []LimitsRespected
<1>1. Init => LimitsInv
  <2> SUFFICES ASSUME Init PROVE LimitsInv
    OBVIOUS
  <2>1. activeRequests = 0 /\ \A ip \in IPs : clientLoad[ip] = 0
    BY DEF Init
  <2>2. {ip \in IPs : clientLoad[ip] > 0} = {}
    BY <2>1
  <2> QED
    BY <2>1, <2>2, Limits, FS_EmptySet DEF LimitsInv, LimitsRespected, activeClients
<1>2. LimitsInv /\ ConnInv /\ [Next]_vars => LimitsInv'
  BY LimitsKept
<1>3. LimitsInv => LimitsRespected
  BY DEF LimitsInv
<1> QED
  BY <1>1, <1>2, <1>3, CallbacksSafe, PTL DEF Spec
=============================================================================
