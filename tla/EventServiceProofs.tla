------------------------- MODULE EventServiceProofs -------------------------
(* What holds of EventService for every number of dispatchers, events,     *)
(* workers and waiting threads: types, and one thread per dispatcher.      *)
EXTENDS EventService, FiniteSetTheorems, TLAPS

-----------------------------------------------------------------------------
(* Event queues. *)

\* An event goes in at a position of the queue or behind its last one.
LEMMA InsertPosition ==
    ASSUME NEW q \in Seq(Events), NEW e \in Events, NEW df \in [Events -> Nat]
    PROVE  Cardinality({i \in DOMAIN q : df[q[i]] <= df[e]}) \in 0..Len(q)
<1> DEFINE S == {i \in DOMAIN q : df[q[i]] <= df[e]}
<1>1. S \subseteq 1..Len(q)
  OBVIOUS
<1>2. Len(q) \in Nat
  OBVIOUS
<1>3. IsFiniteSet(1..Len(q)) /\ Cardinality(1..Len(q)) = Len(q)
  <2> DEFINE n == Len(q)
  <2>1. n \in Int /\ 1 \in Int
    BY <1>2
  <2>2. Cardinality(1..n) = IF 1 > n THEN 0 ELSE n - 1 + 1
    BY <2>1, FS_Interval, Zenon
  <2>3. IsFiniteSet(1..n)
    BY <2>1, FS_Interval, Zenon
  <2> QED
    BY <1>2, <2>2, <2>3
<1>4. IsFiniteSet(S) /\ Cardinality(S) <= Len(q)
  BY <1>1, <1>3, FS_Subset
<1>5. Cardinality(S) \in Nat
  BY <1>4, FS_CardinalityType
<1> QED
  BY <1>2, <1>4, <1>5

\* Inserting an event gives a queue of events.
LEMMA InsertType ==
    ASSUME NEW q \in Seq(Events), NEW e \in Events, NEW df \in [Events -> Nat]
    PROVE  Insert(q, e, df) \in Seq(Events)
<1> DEFINE k == Cardinality({i \in DOMAIN q : df[q[i]] <= df[e]})
<1>1. k \in 0..Len(q)
  BY InsertPosition
<1> HIDE DEF k
<1>2. InsertAt(q, k + 1, e) \in Seq(Events)
  BY <1>1 DEF InsertAt
<1> QED
  BY <1>2 DEF Insert, k

\* Dropping an event gives a queue of events.
LEMMA DropType ==
    ASSUME NEW q \in Seq(Events), NEW e \in Events
    PROVE  Drop(q, e) \in Seq(Events)
<1>1. CASE e \notin ToSet(q)
  BY <1>1 DEF Drop
<1>2. CASE e \in ToSet(q)
  <2> DEFINE i == CHOOSE j \in DOMAIN q : q[j] = e
  <2>1. i \in DOMAIN q
    BY <1>2 DEF ToSet
  <2>2. Drop(q, e) = RemoveAt(q, i)
    BY <1>2 DEF Drop
  <2> HIDE DEF i
  <2>3. RemoveAt(q, i) \in Seq(Events)
    BY <2>1 DEF RemoveAt
  <2> QED
    BY <2>2, <2>3
<1> QED
  BY <1>1, <1>2

-----------------------------------------------------------------------------
(* Type correctness.                                                       *)

\* What an actor holds follows from where it is.
Outside == {"idle", "off", "over", "next", "sleep", "epoll", "woke", "again"}
Working ==
    \A x \in Actors :
        /\ pc[x] \notin Outside => disp[x] \in Dispatchers
        /\ pc[x] \in {"got", "call"} => ev[x] \in Events
TypeInv == TypeOK /\ Working

PcType == /\ pc \in [Actors -> UNION {PcsOf(x) : x \in Actors}]
          /\ \A x \in Actors : pc[x] \in PcsOf(x)

\* The initial state is well typed.
LEMMA TypeInit == Init => TypeInv
<1> SUFFICES ASSUME Init
             PROVE  TypeInv
  OBVIOUS
<1>1. \A x \in Actors : pc[x] \in PcsOf(x)
  BY EventServiceAssumption
     DEF Init, Actors, PcsOf, ServicePcs, DispatchPcs, WaitPcs
<1>2. PcType
  BY <1>1, Zenon DEF PcType, Init
<1>3. Working
  BY EventServiceAssumption DEF Init, Working, Outside, Actors
<1>4. TypeOK
  <2>1. /\ parent \in [Dispatchers -> ParentQueues]
        /\ owner \in [Dispatchers -> Threads \cup {None}]
        /\ eventQ \in [Dispatchers -> Seq(Events)]
        /\ host \in [Waits -> Workers \cup Waits]
    BY DEF Init, ParentQueues
  <2>2. /\ disp \in [Actors -> Dispatchers \cup {None}]
        /\ ev \in [Actors -> Events \cup {None}]
        /\ ran \in [Actors -> BOOLEAN]
        /\ home \in [Events -> Dispatchers \cup {None}]
        /\ due \in [Events -> Nat] /\ period \in [Events -> Nat]
        /\ continuous \in [Events -> BOOLEAN]
        /\ created \subseteq Events
    BY DEF Init
  <2>3. /\ now \in Nat /\ clock \in Nat /\ pendingCount \in Int
        /\ willAwake \in Int /\ awakeAt \in Int
    BY DEF Init
  <2>4. /\ wasRunning \in [Waits -> BOOLEAN] /\ runEvents \in [Waits -> BOOLEAN]
        /\ lastPass \in [Waits -> BOOLEAN]
        /\ expires \in [Waits -> Nat]
        /\ condAt \in [Waits -> Int] /\ condDue \in [Waits -> Int]
    BY DEF Init
  <2>5. /\ enabled \in [Dispatchers -> BOOLEAN]
        /\ flagWaiting \in [Dispatchers -> BOOLEAN]
        /\ triggered \in [Dispatchers -> BOOLEAN]
        /\ currentQ \in [Dispatchers -> SUBSET Events]
    BY DEF Init
  <2>6. /\ calls \in SUBSET CallNames
        /\ waiting \in BOOLEAN /\ fresh \in BOOLEAN
        /\ wakeRequested \in BOOLEAN /\ wakePipe \in BOOLEAN
    BY EventServiceAssumption DEF Init
  <2> QED
    BY <1>2, <2>1, <2>2, <2>3, <2>4, <2>5, <2>6 DEF TypeOK, PcType
<1> QED
  BY <1>3, <1>4 DEF TypeInv

\* An actor that moves within its own code keeps the type of pc.
LEMMA MoveType ==
    ASSUME PcType, NEW x \in Actors, NEW l \in PcsOf(x), pc' = [pc EXCEPT ![x] = l]
    PROVE  PcType'
<1>1. pc' \in [Actors -> UNION {PcsOf(y) : y \in Actors}]
  BY DEF PcType
<1>2. \A y \in Actors : pc'[y] \in PcsOf(y)
  BY DEF PcType
<1> QED
  BY <1>1, <1>2, Zenon DEF PcType

\* Scheduling a dispatcher keeps the types of what it writes.
LEMMA ScheduleType ==
    ASSUME TypeInv, NEW d \in Dispatchers, NEW p \in ParentQueues, NEW q, NEW df,
           NEW t, Schedule(d, p, q, df, t)
    PROVE  /\ parent' \in [Dispatchers -> ParentQueues]
           /\ triggered' \in [Dispatchers -> BOOLEAN]
           /\ wakeRequested' \in BOOLEAN /\ wakePipe' \in BOOLEAN
BY DEF TypeInv, TypeOK, Schedule, Scheduled, SchedulingWakes, SchedulingSignals,
       WakeNotifierIf, SignalIf, ParentQueues

\* Insert and Drop, for the queues of a state.
LEMMA QueueType ==
    ASSUME TypeInv, NEW d \in Dispatchers, NEW e \in Events,
           NEW df \in [Events -> Nat]
    PROVE  /\ Drop(eventQ[d], e) \in Seq(Events)
           /\ Insert(eventQ[d], e, df) \in Seq(Events)
<1>1. eventQ[d] \in Seq(Events)
  BY DEF TypeInv, TypeOK
<1> QED
  BY <1>1, DropType, InsertType

\* Taking the next event moves an event from the queue to currentQ.
LEMMA TakeNextType ==
    ASSUME TypeInv, NEW x \in Actors, pc[x] \in {"fetch", "call"}, NEW q \in Seq(Events),
           NEW df, TakeNext(x, q, df)
    PROVE  /\ eventQ' \in [Dispatchers -> Seq(Events)]
           /\ currentQ' \in [Dispatchers -> SUBSET Events]
           /\ ev' \in [Actors -> Events \cup {None}]
           /\ PcType'
           /\ \A y \in Actors : pc'[y] \in {"got", "call"} => ev'[y] \in Events
           /\ \A y \in Actors : pc'[y] \notin Outside => disp[y] \in Dispatchers
<1> DEFINE d == disp[x]
<1>1. d \in Dispatchers /\ eventQ[d] \in Seq(Events) /\ currentQ[d] \in SUBSET Events
  BY DEF TypeInv, TypeOK, Working, Outside
<1>2. PcType
  BY DEF TypeInv, TypeOK, PcType
<1>3. CASE enabled[d] /\ q # <<>> /\ df[Head(q)] <= now
  <2>1. Head(q) \in Events /\ Tail(q) \in Seq(Events)
    BY <1>3
  <2>2. /\ eventQ' = [eventQ EXCEPT ![d] = Tail(q)]
        /\ currentQ' = [currentQ EXCEPT ![d] = (@ \ {ev[x]}) \cup {Head(q)}]
        /\ ev' = [ev EXCEPT ![x] = Head(q)]
        /\ pc' = [pc EXCEPT ![x] = "got"]
    BY <1>3 DEF TakeNext
  <2>3. PcType'
    BY <1>2, <2>2, MoveType, EventServiceAssumption
    DEF PcType, PcsOf, ServicePcs, DispatchPcs, WaitPcs
  <2> QED
    BY ZenonT(40), <1>1, <2>1, <2>2, <2>3 DEF TypeInv, TypeOK, Working, Outside
<1>4. CASE ~(enabled[d] /\ q # <<>> /\ df[Head(q)] <= now)
  <2>1. /\ eventQ' = [eventQ EXCEPT ![d] = q]
        /\ currentQ' = [currentQ EXCEPT ![d] = @ \ {ev[x]}]
        /\ ev' = [ev EXCEPT ![x] = None]
        /\ pc' = [pc EXCEPT ![x] = "finish"]
    BY <1>4 DEF TakeNext
  <2>2. PcType'
    BY <1>2, <2>1, MoveType, EventServiceAssumption
    DEF PcType, PcsOf, ServicePcs, DispatchPcs, WaitPcs
  <2> QED
    BY <1>1, <2>1, <2>2 DEF TypeInv, TypeOK, Working, Outside
<1> QED
  BY <1>3, <1>4

\* Every step keeps the types.
LEMMA TypeNext == TypeInv /\ [Next]_vars => TypeInv'
<1> SUFFICES ASSUME TypeInv, [Next]_vars
             PROVE  TypeInv'
  OBVIOUS
<1> USE EventServiceAssumption
    DEF TypeInv, TypeOK, Working, dispatcherVars, queueVars, eventVars, sleepVars,
        wakeVars, actorVars, waitVars
<1> DEFINE SchedulingTypes ==
             /\ parent' \in [Dispatchers -> ParentQueues]
             /\ triggered' \in [Dispatchers -> BOOLEAN]
             /\ wakeRequested' \in BOOLEAN /\ wakePipe' \in BOOLEAN
<1>1. CASE Tick
  BY <1>1 DEF Tick
<1>2. ASSUME NEW e \in Events, NEW d \in Dispatchers, NEW p \in Periods,
             NEW c \in BOOLEAN, CreateEvent(e, d, p, c)
      PROVE  TypeInv'
  <2>1. due' \in [Events -> Nat]
    BY SMTT(40), <1>2 DEF CreateEvent
  <2>2. eventQ' \in [Dispatchers -> Seq(Events)]
    BY <1>2, <2>1, QueueType DEF CreateEvent
  <2>3. SchedulingTypes
    BY ZenonT(40), <1>2, ScheduleType DEF CreateEvent, ScheduleIf
  <2> QED
    BY <1>2, <2>1, <2>2, <2>3 DEF CreateEvent
<1>3. ASSUME NEW e \in Events, NEW own \in BOOLEAN, RemoveEvent(e, own)
      PROVE  TypeInv'
  <2>1. home[e] \in Dispatchers
    BY <1>3 DEF RemoveEvent
  <2>2. eventQ' \in [Dispatchers -> Seq(Events)]
    <3>1. Drop(eventQ[home[e]], e) \in Seq(Events)
      BY <2>1, DropType
    <3> QED
      BY <1>3, <2>1, <3>1 DEF RemoveEvent
  <2>3. SchedulingTypes
    BY ZenonT(40), <1>3, <2>1, ScheduleType DEF RemoveEvent, ScheduleIf
  <2>4. continuous' \in [Events -> BOOLEAN]
    BY ZenonT(60), <1>3 DEF RemoveEvent
  <2> QED
    BY <1>3, <2>1, <2>2, <2>3, <2>4 DEF RemoveEvent
<1>5. ASSUME NEW e \in Events, NEW enable \in BOOLEAN,
             EnableContinuousEvent(e, enable)
      PROVE  TypeInv'
  BY <1>5 DEF EnableContinuousEvent
<1>6. ASSUME NEW x \in Actors, DisableDispatcher(x)
      PROVE  TypeInv'
  <2>1. disp[x] \in Dispatchers
    BY <1>6 DEF DisableDispatcher, Outside
  <2>2. eventQ' \in [Dispatchers -> Seq(Events)]
    BY <1>6, <2>1 DEF DisableDispatcher
  <2> QED
    BY <1>6, <2>1, <2>2 DEF DisableDispatcher, WakeNotifierIf, SignalIf, ParentQueues
<1>7. ASSUME NEW x \in Actors, FetchEvent(x)
      PROVE  TypeInv'
  <2>1. disp[x] \in Dispatchers
    BY <1>7 DEF FetchEvent, Outside
  <2>2. eventQ[disp[x]] \in Seq(Events)
    BY <2>1
  <2>3. /\ eventQ' \in [Dispatchers -> Seq(Events)]
        /\ currentQ' \in [Dispatchers -> SUBSET Events]
        /\ ev' \in [Actors -> Events \cup {None}]
        /\ PcType'
        /\ \A y \in Actors : pc'[y] \in {"got", "call"} => ev'[y] \in Events
        /\ \A y \in Actors : pc'[y] \notin Outside => disp[y] \in Dispatchers
    <3> HIDE DEF TypeInv
    <3> QED
      BY <1>7, <2>2, TakeNextType DEF FetchEvent
  <2> QED
    BY <1>7, <2>1, <2>3 DEF FetchEvent, PcType, ParentQueues
<1>8. ASSUME NEW x \in Actors, CallEvent(x)
      PROVE  TypeInv'
  <2>1. PcType'
    BY <1>8, MoveType DEF CallEvent, PcType, PcsOf, ServicePcs, DispatchPcs,
       WaitPcs
  <2> QED
    BY <1>8, <2>1 DEF CallEvent, PcType, Outside
<1>9. ASSUME NEW x \in Actors, ReturnEvent(x)
      PROVE  TypeInv'
  <2>1. disp[x] \in Dispatchers /\ ev[x] \in Events
    BY <1>9 DEF ReturnEvent, Outside
  <2> DEFINE d     == disp[x]
             again == continuous[ev[x]]
             df    == IF again THEN [due EXCEPT ![ev[x]] =
                                        now + (IF period[ev[x]] > 0 THEN period[ev[x]] ELSE 1)]
                      ELSE due
             q     == IF again THEN Insert(eventQ[d], ev[x], df) ELSE eventQ[d]
  <2>2. df \in [Events -> Nat]
    BY SMTT(40), <2>1
  <2>3. q \in Seq(Events)
    BY <2>1, <2>2, QueueType
  <2>4. /\ pc[x] = "call"
        /\ due' = df
        /\ home' = IF again THEN [home EXCEPT ![ev[x]] = d] ELSE home
        /\ fresh' = (fresh \/ again)
        /\ ScheduleIf(again /\ enabled[d], d, q, df, now)
        /\ TakeNext(x, q, df)
        /\ ran' = [ran EXCEPT ![x] = TRUE]
        /\ UNCHANGED <<calls, enabled, owner, flagWaiting, period, continuous, created, now,
                       clock, sleepVars, pendingCount, disp, waitVars>>
    BY <1>9 DEF ReturnEvent
  <2> HIDE DEF q, df
  <2>5. SchedulingTypes
    BY <2>1, <2>4, ScheduleType DEF ScheduleIf
  <2>6. /\ eventQ' \in [Dispatchers -> Seq(Events)]
        /\ currentQ' \in [Dispatchers -> SUBSET Events]
        /\ ev' \in [Actors -> Events \cup {None}]
        /\ PcType'
        /\ \A y \in Actors : pc'[y] \in {"got", "call"} => ev'[y] \in Events
        /\ \A y \in Actors : pc'[y] \notin Outside => disp[y] \in Dispatchers
    <3> HIDE DEF TypeInv
    <3> QED
      BY <2>3, <2>4, TakeNextType
  <2> QED
    BY <2>1, <2>2, <2>4, <2>5, <2>6 DEF PcType
<1>10. ASSUME NEW x \in Actors, FinishDispatch(x)
       PROVE  TypeInv'
  <2>1. PcType'
    BY <1>10, MoveType DEF FinishDispatch, Actors, PcType, PcsOf, ServicePcs, DispatchPcs,
       WaitPcs
  <2> QED
    BY <1>10, <2>1 DEF FinishDispatch, PcType, Outside, WakeNotifierIf
<1>11. ASSUME NEW x \in Actors, StartService(x)
       PROVE  TypeInv'
  <2>1. PcType'
    BY <1>11, MoveType DEF StartService, PcType, PcsOf, ServicePcs, DispatchPcs,
       WaitPcs
  <2> QED
    BY <1>11, <2>1 DEF StartService, PcType, Outside, Threads, Actors
<1>12. ASSUME NEW x \in Actors, RescheduleDispatcher(x)
       PROVE  TypeInv'
  <2>1. disp[x] \in Dispatchers
    BY <1>12 DEF RescheduleDispatcher, Outside
  <2>2. SchedulingTypes
    BY <1>12, <2>1, ScheduleType DEF RescheduleDispatcher, ParentQueues
  <2>3. PcType'
    BY <1>12, MoveType DEF RescheduleDispatcher, PcType, PcsOf, ServicePcs, DispatchPcs,
       WaitPcs
  <2> QED
    BY <1>12, <2>1, <2>2, <2>3 DEF RescheduleDispatcher, PcType, Outside
<1>13. ASSUME NEW x \in Actors, Retire(x)
       PROVE  TypeInv'
  <2>1. PcType'
    BY ZenonT(40), <1>13, MoveType DEF Retire, Actors, PcType, PcsOf, ServicePcs, DispatchPcs,
       WaitPcs
  <2> QED
    BY <1>13, <2>1 DEF Retire, PcType, Outside, WakeNotifierIf
<1>14. ASSUME NEW d \in Dispatchers, PickPending(d) \/ PickReady(d)
       PROVE  TypeInv'
  <2>0. Service \in Actors
    BY DEF Actors
  <2>1. PcType'
    BY <1>14, <2>0, MoveType DEF PickPending, PickReady, TakeOver, PcType, PcsOf,
       ServicePcs
  <2>2. pendingCount' \in Int
    BY <1>14 DEF PickPending, PickReady
  <2>3. /\ disp' = [disp EXCEPT ![Service] = d]
        /\ owner' = [owner EXCEPT ![d] = None]
        /\ parent' = [parent EXCEPT ![d] = "run"]
        /\ pc' = [pc EXCEPT ![Service] = "svc"]
        /\ UNCHANGED <<calls, enabled, flagWaiting, triggered, queueVars, eventVars, now, clock,
                       sleepVars, fresh, wakeVars, ev, ran, waitVars>>
    BY <1>14 DEF PickPending, PickReady, TakeOver
  <2> QED
    BY <2>0, <2>1, <2>2, <2>3 DEF PcType, Outside, ParentQueues
<1>15. CASE ServiceDispatcher
  <2>0. Service \in Actors /\ disp[Service] \in Dispatchers
    BY <1>15 DEF ServiceDispatcher, Actors, Outside
  <2> DEFINE d == disp[Service]
  <2>1. ASSUME NEW w \in Idle, pc' = [pc EXCEPT ![w] = "start", ![Service] = "next"],
               disp' = [disp EXCEPT ![w] = d, ![Service] = None]
        PROVE  PcType' /\ Working' /\ disp' \in [Actors -> Dispatchers \cup {None}]
    <3>1. w \in Actors /\ w # Service
      BY DEF Idle, Actors
    <3>2. "start" \in PcsOf(w) /\ "next" \in PcsOf(Service)
      BY <3>1 DEF Idle, PcsOf, ServicePcs, DispatchPcs
    <3>3. PcType'
      <4>1. \A y \in Actors : pc'[y] \in PcsOf(y)
        BY <2>0, <2>1, <3>1, <3>2
      <4>2. pc' \in [Actors -> UNION {PcsOf(y) : y \in Actors}]
        <5> HIDE DEF TypeInv
        <5>1. pc' = [y \in Actors |-> pc'[y]]
          BY <2>1 DEF TypeInv
        <5>2. \A y \in Actors : pc'[y] \in UNION {PcsOf(z) : z \in Actors}
          BY <4>1
        <5> QED
          BY <5>1, <5>2, Zenon
      <4> QED
        BY <4>1, <4>2 DEF PcType
    <3>4. Working'
      BY <1>15, <2>0, <2>1, <3>1 DEF ServiceDispatcher, Outside
    <3> QED
      BY <2>0, <2>1, <3>1, <3>3, <3>4
  <2>2. ASSUME NEW l \in {"start", "pend"}, pc' = [pc EXCEPT ![Service] = l],
               UNCHANGED disp
        PROVE  PcType' /\ Working' /\ disp' \in [Actors -> Dispatchers \cup {None}]
    <3>1. PcType'
      BY <2>0, <2>2, MoveType DEF PcType, PcsOf, ServicePcs, DispatchPcs
    <3>2. Working'
      BY <1>15, <2>0, <2>2 DEF ServiceDispatcher
    <3> QED
      BY <2>2, <3>1, <3>2
  <2>3. PcType' /\ Working' /\ disp' \in [Actors -> Dispatchers \cup {None}]
    BY <1>15, <2>1, <2>2 DEF ServiceDispatcher
  <2> QED
    BY <1>15, <2>0, <2>3 DEF ServiceDispatcher, PcType, Threads
<1>16. CASE QueuePending
  <2>0. Service \in Actors
    BY DEF Actors
  <2>1. PcType'
    BY <1>16, <2>0, MoveType DEF QueuePending, PcType, PcsOf, ServicePcs, DispatchPcs,
       WaitPcs
  <2> QED
    <3>1. parent' \in [Dispatchers -> ParentQueues]
      BY <1>16 DEF QueuePending, ParentQueues
    <3>2. pendingCount' \in Int
      BY <1>16 DEF QueuePending
    <3>3. Working'
      BY <1>16, <2>0 DEF QueuePending, Outside
    <3> QED
      BY <1>16, <2>0, <2>1, <3>1, <3>2, <3>3 DEF QueuePending, PcType
<1>17. CASE NothingReady
  <2>0. Service \in Actors
    BY DEF Actors
  <2>1. PcType'
    BY <1>17, <2>0, MoveType DEF NothingReady, PcType, PcsOf, ServicePcs, DispatchPcs,
       WaitPcs
  <2> QED
    BY <1>17, <2>0, <2>1 DEF NothingReady, PcType, Outside
<1>18. CASE Sleep
  <2>0. Service \in Actors
    BY DEF Actors
  <2>1. \A d \in Dispatchers : eventQ[d] # <<>> => due[Head(eventQ[d])] \in Nat
    OBVIOUS
  <2>2. IdleTimes \subseteq Int
    BY SMTT(40), <2>1 DEF IdleTimes, On
  <2>3. willAwake' \in Int /\ awakeAt' \in Int /\ waiting' \in BOOLEAN
    <3>1. PICK ticks \in IdleTimes :
             IF ticks > 0 THEN waiting' = TRUE /\ willAwake' = now + ticks
                               /\ awakeAt' = clock + ticks
             ELSE UNCHANGED sleepVars
      BY <1>18 DEF Sleep
    <3>2. ticks \in Int
      BY <2>2
    <3>3. CASE ticks > 0
      BY <3>1, <3>2, <3>3
    <3>4. CASE ~(ticks > 0)
      BY <3>1, <3>4
    <3> QED
      BY <3>3, <3>4
  <2>4. \E l \in {"epoll", "again"} : pc' = [pc EXCEPT ![Service] = l]
    BY <1>18 DEF Sleep
  <2>5. PcType'
    BY <2>0, <2>4, MoveType DEF PcType, PcsOf, ServicePcs
  <2>6. UNCHANGED <<calls, dispatcherVars, queueVars, eventVars, now, clock, fresh, pendingCount,
                    wakeVars, disp, ev, ran, waitVars>>
    BY <1>18 DEF Sleep
  <2> QED
    BY <2>0, <2>3, <2>4, <2>5, <2>6 DEF PcType, Outside
<1>19. CASE Awake \/ LoopAgain
  <2>0. Service \in Actors
    BY DEF Actors
  <2>1. CASE Awake
    <3>1. PcType'
      BY <2>0, <2>1, MoveType DEF Awake, PcType, PcsOf, ServicePcs
    <3> QED
      BY <2>0, <2>1, <3>1 DEF Awake, PcType, Outside
  <2>2. CASE LoopAgain
    <3>1. PcType'
      BY <2>0, <2>2, MoveType DEF LoopAgain, PcType, PcsOf, ServicePcs
    <3> QED
      BY <2>0, <2>2, <3>1 DEF LoopAgain, PcType, Outside
  <2> QED
    BY <1>19, <2>1, <2>2
<1>20. ASSUME NEW x \in Waits, NEW d \in Dispatchers, NEW w \in Workers \cup {x},
              NEW t \in Periods, BeginWait(x, d, w, t)
       PROVE  TypeInv'
  <2>0. x \in Actors /\ x # Service /\ x \notin Workers
    BY DEF Actors
  <2>1. PcType'
    BY <1>20, <2>0, MoveType DEF BeginWait, PcType, PcsOf, WaitPcs
  <2>2. Working'
    BY <1>20, <2>0 DEF BeginWait, Outside
  <2>3. /\ disp' \in [Actors -> Dispatchers \cup {None}]
        /\ host' \in [Waits -> Workers \cup Waits]
        /\ lastPass' \in [Waits -> BOOLEAN] /\ expires' \in [Waits -> Nat]
    BY SMTT(40), <1>20, <2>0 DEF BeginWait
  <2> QED
    BY <1>20, <2>1, <2>2, <2>3 DEF BeginWait, PcType
<1>21. ASSUME NEW x \in Waits, ClaimDispatcher(x)
       PROVE  TypeInv'
  <2>0. x \in Actors /\ x # Service /\ x \notin Workers
    BY DEF Actors
  <2>1. PcType'
    BY <1>21, <2>0, MoveType DEF ClaimDispatcher, PcType, PcsOf, WaitPcs
  <2> QED
    BY <1>21, <2>0, <2>1 DEF ClaimDispatcher, PcType, Outside, ParentQueues, Threads
<1>22. ASSUME NEW x \in Waits, LoopWait(x) \/ WaitTimedOut(x) \/ WaitSignalled(x)
       PROVE  TypeInv'
  <2>0. x \in Actors /\ x # Service /\ x \notin Workers
    BY DEF Actors
  <2>1. CASE LoopWait(x)
    <3>1. PcType'
      BY <2>0, <2>1, MoveType DEF LoopWait, PcType, PcsOf, WaitPcs
    <3> QED
      BY <2>0, <2>1, <3>1 DEF LoopWait, PcType, Outside
  <2>2. CASE WaitTimedOut(x)
    <3>1. PcType'
      BY <2>0, <2>2, MoveType DEF WaitTimedOut, PcType, PcsOf, WaitPcs
    <3> QED
      BY <2>0, <2>2, <3>1 DEF WaitTimedOut, PcType, Outside
  <2>3. CASE WaitSignalled(x)
    <3>1. PcType'
      BY <2>0, <2>3, MoveType DEF WaitSignalled, PcType, PcsOf, WaitPcs
    <3> QED
      BY <2>0, <2>3, <3>1 DEF WaitSignalled, PcType, Outside
  <2> QED
    BY <1>22, <2>1, <2>2, <2>3
<1>23. ASSUME NEW x \in Waits, PrepareWait(x)
       PROVE  TypeInv'
  <2>0. x \in Actors /\ x # Service /\ x \notin Workers
    BY DEF Actors
  <2>1. disp[x] \in Dispatchers
    BY <1>23, <2>0 DEF PrepareWait, Outside
  <2>2. eventQ[disp[x]] # <<>> => due[Head(eventQ[disp[x]])] \in Nat
    BY SMTT(40), <2>1
  <2> DEFINE left  == expires[x] - now
             first == due[Head(eventQ[disp[x]])] - now
             delay == IF left < 0 \/ (eventQ[disp[x]] # <<>> /\ first < 0) THEN 0
                      ELSE IF eventQ[disp[x]] # <<>> /\ first < left THEN first ELSE left
  <2>3. condAt' \in [Waits -> Int] /\ condDue' \in [Waits -> Int]
    <3>1. delay \in Int
      <4>1. left \in Int /\ (eventQ[disp[x]] # <<>> => first \in Int)
        <5>1. expires[x] \in Nat /\ now \in Nat
          OBVIOUS
        <5> HIDE DEF TypeInv
        <5> QED
          BY <2>2, <5>1
      <4> HIDE DEF left, first, TypeInv
      <4> QED
        BY <4>1
    <3>2. /\ condAt' = [condAt EXCEPT ![x] = clock + delay]
          /\ condDue' = [condDue EXCEPT ![x] = now + delay]
      BY <1>23 DEF PrepareWait
    <3> HIDE DEF delay
    <3> QED
      BY <3>1, <3>2
  <2>4. PcType'
    BY <1>23, <2>0, MoveType DEF PrepareWait, PcType, PcsOf, WaitPcs
  <2> QED
    BY <1>23, <2>0, <2>1, <2>3, <2>4 DEF PrepareWait, PcType, Outside
<1>24. ASSUME NEW x \in Waits, EndWait(x)
       PROVE  TypeInv'
  <2>0. x \in Actors /\ x # Service /\ x \notin Workers
    BY DEF Actors
  <2>1. disp[x] \in Dispatchers
    BY <1>24, <2>0 DEF EndWait, Outside
  <2>2. SchedulingTypes
    BY ZenonT(40), <1>24, <2>1, ScheduleType DEF EndWait, ParentQueues
  <2>3. PcType'
    BY <1>24, <2>0, MoveType DEF EndWait, PcType, PcsOf, WaitPcs
  <2> QED
    BY SMTT(40), <1>24, <2>0, <2>1, <2>2, <2>3 DEF EndWait, PcType, Outside
<1>25. CASE UNCHANGED vars
  BY <1>25 DEF vars
<1> HIDE DEF TypeInv
<1>26. ASSUME NEW e \in Events, EventStep(e)
       PROVE  TypeInv'
  <2>3. CASE \E d \in Dispatchers, p \in Periods, c \in BOOLEAN : CreateEvent(e, d, p, c)
    BY <1>2, <2>3
  <2>4. CASE \E own \in BOOLEAN : RemoveEvent(e, own)
    BY <1>3, <2>4
  <2>5. CASE \E enable \in BOOLEAN : EnableContinuousEvent(e, enable)
    BY <1>5, <2>5
  <2> QED
    BY <1>26, <2>3, <2>4, <2>5, Zenon DEF EventStep
<1> QED
  BY <1>1, <1>6, <1>7, <1>8, <1>9, <1>10, <1>11, <1>12, <1>13, <1>14, <1>15, <1>16,
     <1>17, <1>18, <1>19, <1>20, <1>21, <1>22, <1>23, <1>24, <1>25, <1>26
  DEF Next, DispatchStep, ServiceStep, WaitStep

\* Every variable has its type in every reachable state, whatever the sizes.
THEOREM TypeCorrect == Spec => []TypeOK
<1>1. TypeInv => TypeOK
  BY DEF TypeInv
<1> QED
  BY <1>1, TypeInit, TypeNext, PTL DEF Spec

-----------------------------------------------------------------------------
(* No event is stranded.                                                     *)

\* An enabled dispatcher is always on some queue, on the idle one only while
\* it has no events.
IdleIsEmpty ==
    \A d \in Dispatchers :
        enabled[d] => parent[d] # "none" /\ (parent[d] = "idle" => eventQ[d] = <<>>)
StrandedInv == TypeInv /\ IdleIsEmpty

\* What mprScheduleDispatcher leaves idle has no events.
LEMMA ScheduleIdle ==
    ASSUME StrandedInv, NEW d \in Dispatchers, NEW p \in ParentQueues, NEW q, NEW df,
           NEW t, Schedule(d, p, q, df, t)
    PROVE  /\ \A c \in Dispatchers \ {d} : parent'[c] = parent[c]
           /\ enabled[d] => parent'[d] # "none" /\ (parent'[d] = "idle" => q = <<>>)
BY DEF StrandedInv, TypeInv, TypeOK, Schedule, Scheduled

\* A queue changed to q is no harm when q has fewer events or d is scheduled.
LEMMA QueueIdle ==
    ASSUME StrandedInv, NEW d \in Dispatchers, NEW b, NEW q, NEW q2, NEW df, NEW t,
           ScheduleIf(b, d, q, df, t), q = <<>> => q2 = <<>>,
           b \/ (eventQ[d] = <<>> => q2 = <<>>) \/ ~enabled[d],
           eventQ' = [eventQ EXCEPT ![d] = q2], UNCHANGED enabled
    PROVE  IdleIsEmpty'
<1>1. \A c \in Dispatchers : eventQ'[c] = IF c = d THEN q2 ELSE eventQ[c]
  BY DEF StrandedInv, TypeInv, TypeOK
<1>2. CASE b
  <2>1. parent[d] \in ParentQueues /\ Schedule(d, parent[d], q, df, t)
    BY <1>2 DEF ScheduleIf, StrandedInv, TypeInv, TypeOK
  <2> QED
    BY <1>1, <2>1, ScheduleIdle DEF StrandedInv, IdleIsEmpty
<1>3. CASE ~b
  BY <1>1, <1>3 DEF ScheduleIf, StrandedInv, IdleIsEmpty
<1> QED
  BY <1>2, <1>3

\* No step strands an event.
LEMMA StrandedNext == StrandedInv /\ [Next]_vars => StrandedInv'
<1> SUFFICES ASSUME StrandedInv, [Next]_vars
             PROVE  IdleIsEmpty'
  BY TypeNext DEF StrandedInv
<1>0. TypeInv /\ IdleIsEmpty
  BY DEF StrandedInv
<1>1. ASSUME NEW e \in Events, EventStep(e)
      PROVE  IdleIsEmpty'
  <2>1. ASSUME NEW d \in Dispatchers, NEW p \in Periods, NEW c \in BOOLEAN,
               CreateEvent(e, d, p, c)
        PROVE  IdleIsEmpty'
    <3> DEFINE q == Insert(eventQ[d], e, due')
    <3>1. /\ eventQ' = [eventQ EXCEPT ![d] = q]
          /\ ScheduleIf(enabled[d], d, eventQ'[d], due', clock)
          /\ UNCHANGED enabled
      BY <2>1 DEF CreateEvent
    <3>2. eventQ'[d] = q
      BY <1>0, <3>1 DEF TypeInv, TypeOK
    <3> HIDE DEF q
    <3> QED
      BY <3>1, <3>2, QueueIdle
  <2>2. ASSUME NEW own \in BOOLEAN, RemoveEvent(e, own)
        PROVE  IdleIsEmpty'
    <3> DEFINE d == home[e]
               q == IF ~Running(e) THEN Drop(eventQ[d], e) ELSE eventQ[d]
               b == enabled[d] /\ due[e] = willAwake /\ q # <<>>
    <3>1. /\ eventQ' = [eventQ EXCEPT ![d] = q]
          /\ ScheduleIf(b, d, q, due, now)
          /\ UNCHANGED enabled
          /\ d \in Dispatchers
      BY <1>0, <2>2 DEF RemoveEvent, TypeInv, TypeOK
    <3>2. eventQ[d] = <<>> => q = <<>>
      BY DEF Drop, ToSet
    <3> HIDE DEF q, b
    <3> QED
      BY <3>1, <3>2, QueueIdle
  <2>4. ASSUME NEW enable \in BOOLEAN, EnableContinuousEvent(e, enable)
        PROVE  IdleIsEmpty'
    BY <1>0, <2>4 DEF EnableContinuousEvent, dispatcherVars, queueVars, IdleIsEmpty
  <2> QED
    BY <1>1, <2>1, <2>2, <2>4 DEF EventStep
<1>2. ASSUME NEW x \in Actors, DisableDispatcher(x)
      PROVE  IdleIsEmpty'
  BY <1>0, <1>2 DEF DisableDispatcher, TypeInv, TypeOK, IdleIsEmpty
<1>3. ASSUME NEW x \in Actors, FetchEvent(x)
      PROVE  IdleIsEmpty'
  <2> DEFINE d == disp[x]
  <2>1. d \in Dispatchers
    BY <1>0, <1>3 DEF FetchEvent, TypeInv, Working, Outside
  <2>2. \/ eventQ' = [eventQ EXCEPT ![d] = eventQ[d]]
        \/ eventQ[d] # <<>> /\ eventQ' = [eventQ EXCEPT ![d] = Tail(eventQ[d])]
    BY <1>3 DEF FetchEvent, TakeNext
  <2>3. \A c \in Dispatchers : eventQ[c] = <<>> => eventQ'[c] = <<>>
    BY <1>0, <2>1, <2>2 DEF TypeInv, TypeOK
  <2> QED
    BY <1>0, <1>3, <2>1, <2>3 DEF FetchEvent, IdleIsEmpty, TypeInv, TypeOK
<1>4. ASSUME NEW x \in Actors, ReturnEvent(x)
      PROVE  IdleIsEmpty'
  <2> DEFINE d == disp[x]
             e == ev[x]
             again == continuous[e]
             df == IF again THEN [due EXCEPT ![e] = now + (IF period[e] > 0 THEN period[e] ELSE 1)]
                   ELSE due
             q  == IF again THEN Insert(eventQ[d], e, df) ELSE eventQ[d]
             b  == again /\ enabled[d]
  <2>1. d \in Dispatchers
    BY <1>0, <1>4 DEF ReturnEvent, TypeInv, Working, Outside
  <2>2. ScheduleIf(b, d, q, df, now) /\ TakeNext(x, q, df) /\ UNCHANGED enabled
    BY <1>4 DEF ReturnEvent
  <2>3. PICK q2 : eventQ' = [eventQ EXCEPT ![d] = q2] /\ (q = <<>> => q2 = <<>>)
    <3> HIDE DEF q, df
    <3> QED
      BY <2>2 DEF TakeNext
  <2>4. b \/ (eventQ[d] = <<>> => q = <<>>) \/ ~enabled[d]
    OBVIOUS
  <2> HIDE DEF q, df, b
  <2> QED
    BY <2>1, <2>2, <2>3, <2>4, QueueIdle
<1>5. ASSUME NEW x \in Actors, RescheduleDispatcher(x)
      PROVE  IdleIsEmpty'
  <2> DEFINE d == disp[x]
  <2>1. d \in Dispatchers
    BY <1>0, <1>5 DEF RescheduleDispatcher, TypeInv, Working, Outside
  <2>2. CASE enabled[d]
    <3>1. Schedule(d, "none", eventQ[d], due, now) /\ UNCHANGED <<enabled, eventQ>>
      BY <1>5, <2>2 DEF RescheduleDispatcher, queueVars
    <3> QED
      BY <1>0, <2>1, <3>1, ScheduleIdle DEF IdleIsEmpty, ParentQueues
  <2>3. CASE ~enabled[d]
    BY <1>0, <1>5, <2>3 DEF RescheduleDispatcher, queueVars, IdleIsEmpty
  <2> QED
    BY <2>2, <2>3
<1>6. ASSUME NEW x \in Waits, EndWait(x)
      PROVE  IdleIsEmpty'
  <2> DEFINE d == disp[x]
  <2>1. d \in Dispatchers
    BY <1>0, <1>6, EventServiceAssumption DEF EndWait, TypeInv, Working, Outside, Actors
  <2>2. CASE ~wasRunning[x]
    <3>1. Schedule(d, "none", eventQ[d], due, now) /\ UNCHANGED <<enabled, eventQ>>
      BY <1>6, <2>2 DEF EndWait, queueVars
    <3> QED
      BY <1>0, <2>1, <3>1, ScheduleIdle DEF IdleIsEmpty, ParentQueues
  <2>3. CASE wasRunning[x]
    BY <1>0, <1>6, <2>3 DEF EndWait, queueVars, IdleIsEmpty
  <2> QED
    BY <2>2, <2>3
<1>7. ASSUME NEW d \in Dispatchers, PickPending(d) \/ PickReady(d)
      PROVE  IdleIsEmpty'
  BY <1>0, <1>7 DEF PickPending, PickReady, TakeOver, queueVars, IdleIsEmpty, TypeInv, TypeOK
<1>8. CASE QueuePending
  BY <1>0, <1>8 DEF QueuePending, queueVars, IdleIsEmpty, TypeInv, TypeOK
<1>9. ASSUME NEW x \in Waits, ClaimDispatcher(x)
      PROVE  IdleIsEmpty'
  BY <1>0, <1>9 DEF ClaimDispatcher, queueVars, IdleIsEmpty, TypeInv, TypeOK
<1>10. ASSUME UNCHANGED <<parent, enabled, eventQ>>
       PROVE  IdleIsEmpty'
  BY <1>0, <1>10 DEF IdleIsEmpty
<1>11. ASSUME NEW x \in Actors, CallEvent(x) \/ FinishDispatch(x) \/ StartService(x) \/ Retire(x)
       PROVE  IdleIsEmpty'
  BY <1>10, <1>11 DEF CallEvent, FinishDispatch, StartService, Retire, dispatcherVars, queueVars
<1>12. CASE ServiceDispatcher \/ NothingReady \/ Sleep \/ Awake \/ LoopAgain \/ Tick \/ UNCHANGED vars
  BY <1>10, <1>12 DEF ServiceDispatcher, NothingReady, Sleep, Awake, LoopAgain, Tick, vars,
     dispatcherVars, queueVars
<1>13. ASSUME NEW x \in Waits,
              \/ LoopWait(x) \/ PrepareWait(x) \/ WaitSignalled(x) \/ WaitTimedOut(x)
              \/ \E d \in Dispatchers, w \in Workers \cup {x}, t \in Periods : BeginWait(x, d, w, t)
       PROVE  IdleIsEmpty'
  BY <1>10, <1>13 DEF LoopWait, PrepareWait, WaitSignalled, WaitTimedOut, BeginWait,
     dispatcherVars, queueVars
<1>14. CASE ServiceStep
  BY <1>7, <1>8, <1>12, <1>14 DEF ServiceStep
<1>15. ASSUME NEW x \in Actors, DispatchStep(x)
       PROVE  IdleIsEmpty'
  BY <1>3, <1>4, <1>5, <1>11, <1>15 DEF DispatchStep
<1>16. ASSUME NEW x \in Waits, WaitStep(x)
       PROVE  IdleIsEmpty'
  BY <1>6, <1>9, <1>13, <1>16 DEF WaitStep
<1> QED
  BY <1>1, <1>2, <1>12, <1>13, <1>14, <1>15, <1>16 DEF Next

\* An event queued on an enabled dispatcher is on a queue that is serviced.
THEOREM NothingStranded == Spec => []NoStrandedEvent
<1>1. Init => StrandedInv
  <2>1. Init => IdleIsEmpty
    BY DEF Init, IdleIsEmpty
  <2> QED
    BY <2>1, TypeInit DEF StrandedInv
<1>2. StrandedInv => NoStrandedEvent
  BY DEF StrandedInv, TypeInv, TypeOK, IdleIsEmpty, NoStrandedEvent, ParentQueues
<1> QED
  BY <1>1, <1>2, StrandedNext, PTL DEF Spec

-----------------------------------------------------------------------------
(* One thread per dispatcher: the inductive invariant says who holds one.    *)

\* A thread that is past claiming its dispatcher in mprWaitForEvent.
LoopPcs == {"loop", "fetch", "got", "call", "finish", "prep", "cond", "exit"}
HoldPcs == {"svc", "pend", "start", "fetch", "got", "call", "finish", "resched"}

\* x put d on the run queue and will take it off.
Holds(x, d) ==
    /\ disp[x] = d
    /\ IF x \in Waits THEN pc[x] \in LoopPcs /\ ~wasRunning[x] ELSE pc[x] \in HoldPcs

\* x found d on the run queue, held by the thread it runs on.
Nested(x, d) ==
    x \in Waits /\ disp[x] = d /\ pc[x] \in LoopPcs /\ wasRunning[x] /\ runEvents[x]

\* A dispatcher is on the run queue exactly while it has its one holder, the
\* owner is the holder's thread once that runs events, and what is nested on it
\* runs inside the holder's callback.
Held(d) ==
    /\ parent[d] = "run" <=> \E x \in Actors : Holds(x, d)
    /\ \A x, y \in Actors : Holds(x, d) /\ Holds(y, d) => x = y
    /\ \A x \in Actors : Holds(x, d) =>
          /\ owner[d] \in {None, Service, Thread(x)}
          /\ pc[x] \notin {"svc", "pend", "start"} => owner[d] = Thread(x)
    /\ \A y \in Waits : Nested(y, d) => host[y] \in Workers /\ disp[host[y]] = d

\* A thread waits in one place: in its own call, or inside the callback of the
\* worker that made the call.
WaitInv ==
    \A x \in Waits :
        /\ pc[x] \in LoopPcs /\ ~wasRunning[x] => runEvents[x]
        /\ pc[x] \in {"fetch", "got", "call", "finish"} => runEvents[x]
        /\ Active(x) =>
              /\ host[x] \in Workers \cup {x}
              /\ host[x] # x => pc[host[x]] = "call"
              /\ \A y \in Waits : Active(y) /\ host[y] = host[x] => y = x

SerialInv ==
    /\ TypeInv
    /\ WaitInv
    /\ \A d \in Dispatchers : enabled[d] => Held(d)
    /\ OneThreadPerDispatcher

\* All the actors at work on an enabled dispatcher run on one thread.
LEMMA HeldByOneThread ==
    ASSUME SerialInv, NEW d \in Dispatchers, enabled[d], NEW x \in Actors, NEW y \in Actors,
           Holds(x, d) \/ Nested(x, d), Holds(y, d) \/ Nested(y, d)
    PROVE  Thread(x) = Thread(y)
<1>1. Held(d)
  BY DEF SerialInv
<1>2. ASSUME NEW z \in Waits, Nested(z, d)
      PROVE  Holds(host[z], d) /\ host[z] \in Actors /\ Thread(host[z]) = Thread(z)
  <2>1. host[z] \in Workers /\ disp[host[z]] = d
    BY <1>1, <1>2 DEF Held
  <2>2. pc[host[z]] = "call"
    BY <1>2, <2>1, EventServiceAssumption
    DEF SerialInv, WaitInv, Active, Nested, LoopPcs
  <2> QED
    BY <2>1, <2>2, EventServiceAssumption DEF Holds, HoldPcs, Actors, Thread
<1>3. \A u, v \in Actors : Holds(u, d) /\ Holds(v, d) => u = v
  BY <1>1 DEF Held
<1>4. CASE Holds(x, d) /\ Holds(y, d)
  BY <1>3, <1>4
<1>5. CASE Holds(x, d) /\ Nested(y, d)
  BY <1>2, <1>3, <1>5 DEF Nested
<1>6. CASE Nested(x, d) /\ Holds(y, d)
  BY <1>2, <1>3, <1>6 DEF Nested
<1>7. CASE Nested(x, d) /\ Nested(y, d)
  <2>1. x \in Waits /\ y \in Waits
    BY <1>7 DEF Nested
  <2>2. host[x] = host[y]
    BY <1>2, <1>3, <1>7, <2>1
  <2> QED
    BY <2>1, <2>2 DEF Thread
<1> QED
  BY <1>4, <1>5, <1>6, <1>7

\* What executes an event holds its dispatcher or is nested on it.
LEMMA ExecutingHolds ==
    ASSUME SerialInv, NEW x \in Actors, pc[x] \in {"fetch", "got", "call"}
    PROVE  Holds(x, disp[x]) \/ Nested(x, disp[x])
BY DEF SerialInv, WaitInv, Holds, Nested, HoldPcs, LoopPcs

\* The part of the invariant that a step must restore.
SerialNext ==
    /\ WaitInv'
    /\ \A d \in Dispatchers : enabled'[d] => Held(d)'
    /\ OneThreadPerDispatcher'

\* A step that moves no actor and no dispatcher to or from the run queue.
LEMMA QuietStep ==
    ASSUME SerialInv, UNCHANGED <<pc, disp, enabled, owner, host, wasRunning, runEvents>>,
           \A d \in Dispatchers : enabled[d] => (parent'[d] = "run" <=> parent[d] = "run")
    PROVE  SerialNext
<1>1. WaitInv'
  BY DEF SerialInv, WaitInv, Active
<1>2. \A d \in Dispatchers : enabled'[d] => Held(d)'
  BY DEF SerialInv, Held, Holds, Nested, Thread
<1>3. OneThreadPerDispatcher'
  BY DEF SerialInv, OneThreadPerDispatcher, Executing, Thread
<1> QED
  BY <1>1, <1>2, <1>3 DEF SerialNext

\* A step of an actor that keeps what it holds: it moves within the code that
\* holds the dispatcher, or outside of it.
LEMMA MoveStep ==
    ASSUME SerialInv, NEW x \in Actors, NEW l, NEW c,
           pc' = [pc EXCEPT ![x] = l], disp' = [disp EXCEPT ![x] = c],
           UNCHANGED <<enabled, owner, host, wasRunning, runEvents>>,
           \A d \in Dispatchers : enabled[d] => (parent'[d] = "run" <=> parent[d] = "run"),
           \/ /\ x \in Waits /\ pc[x] \in LoopPcs /\ l \in LoopPcs /\ c = disp[x]
              /\ l \in {"fetch", "got", "call", "finish"} => runEvents[x]
           \/ /\ x \notin Waits /\ c = disp[x]
              /\ pc[x] \in HoldPcs \ {"svc", "pend", "start"}
              /\ l \in HoldPcs \ {"svc", "pend", "start"}
           \/ x \notin Waits /\ pc[x] \notin HoldPcs /\ l \notin HoldPcs,
           pc[x] = "call" => \A y \in Waits : Active(y) /\ host[y] = x => y = x,
           l \in {"got", "call"} =>
              \/ pc[x] \in {"got", "call"}
              \/ pc[x] = "fetch" /\ disp[x] \in Dispatchers /\ enabled[disp[x]]
    PROVE  SerialNext
<1> USE DEF SerialInv
<1>0. pc \in [Actors -> UNION {PcsOf(y) : y \in Actors}]
      /\ disp \in [Actors -> Dispatchers \cup {None}]
  BY DEF TypeInv, TypeOK
<1>1. WaitInv'
  <2> SUFFICES ASSUME NEW z \in Waits
               PROVE  /\ pc'[z] \in LoopPcs /\ ~wasRunning[z] => runEvents[z]
                      /\ pc'[z] \in {"fetch", "got", "call", "finish"} => runEvents[z]
                      /\ Active(z)' =>
                            /\ host[z] \in Workers \cup {z}
                            /\ host[z] # z => pc'[host[z]] = "call"
                            /\ \A y \in Waits : Active(y)' /\ host[y] = host[z] => y = z
    BY DEF WaitInv
  <2>1. \A y \in Waits : Active(y)' <=> Active(y)
    BY <1>0 DEF Active, LoopPcs, Actors
  <2>2. \A y \in Waits : y \in Actors
    BY DEF Actors
  <2>3. pc'[z] \in LoopPcs /\ ~wasRunning[z] => runEvents[z]
    BY <1>0, <2>2 DEF WaitInv
  <2>4. pc'[z] \in {"fetch", "got", "call", "finish"} => runEvents[z]
    BY <1>0, <2>2 DEF WaitInv
  <2>5. ASSUME Active(z), host[z] # z
        PROVE  pc'[host[z]] = "call"
    <3>1. pc[host[z]] = "call" /\ host[z] \in Workers
      BY <2>5 DEF WaitInv
    <3>2. host[z] # x
      BY <2>5, <3>1
    <3> QED
      BY <1>0, <3>1, <3>2 DEF Actors
  <2> QED
    BY <2>1, <2>3, <2>4, <2>5 DEF WaitInv
<1>2. \A d \in Dispatchers : enabled'[d] => Held(d)'
  <2> SUFFICES ASSUME NEW d \in Dispatchers, enabled[d]
               PROVE  Held(d)'
    OBVIOUS
  <2>1. Held(d)
    OBVIOUS
  <2>2. \A y \in Actors : Holds(y, d)' <=> Holds(y, d)
    BY <1>0 DEF Holds, HoldPcs, LoopPcs
  <2>3. \A y \in Waits : Nested(y, d)' <=> Nested(y, d)
    BY <1>0 DEF Nested, LoopPcs, Actors
  <2>4. \A y \in Actors : Thread(y)' = Thread(y)
    BY DEF Thread
  <2>5. parent'[d] = "run" <=> \E y \in Actors : Holds(y, d)'
    BY <2>1, <2>2 DEF Held
  <2>6. \A y \in Actors : Holds(y, d)' =>
          /\ owner'[d] \in {None, Service, Thread(y)'}
          /\ pc'[y] \notin {"svc", "pend", "start"} => owner'[d] = Thread(y)'
    BY <1>0, <2>1, <2>2, <2>4 DEF Held, Holds, LoopPcs
  <2>7. ASSUME NEW y \in Waits, Nested(y, d)
        PROVE  host'[y] \in Workers /\ disp'[host'[y]] = d
    <3>1. host[y] \in Workers /\ disp[host[y]] = d
      BY <2>1, <2>7 DEF Held
    <3>2. pc[host[y]] = "call"
      BY <2>7, <3>1, EventServiceAssumption DEF WaitInv, Active, Nested, LoopPcs
    <3>3. host[y] = x => c = disp[x]
      BY <3>2 DEF HoldPcs
    <3> QED
      BY <1>0, <3>1, <3>3 DEF Actors
  <2>8. \A y, z \in Actors : Holds(y, d)' /\ Holds(z, d)' => y = z
    BY <2>1, <2>2 DEF Held
  <2> QED
    BY <2>3, <2>5, <2>6, <2>7, <2>8 DEF Held
<1>3. OneThreadPerDispatcher'
  <2> SUFFICES ASSUME NEW u \in Actors, NEW v \in Actors, Executing(u)', Executing(v)',
                      disp'[u] = disp'[v]
               PROVE  Thread(u) = Thread(v)
    BY DEF OneThreadPerDispatcher, Thread
  <2>1. disp'[u] = disp[u] /\ disp'[v] = disp[v]
    BY <1>0 DEF Executing, HoldPcs, LoopPcs
  <2>2. CASE Executing(u) /\ Executing(v)
    BY <2>1, <2>2 DEF OneThreadPerDispatcher
  <2>3. CASE ~(Executing(u) /\ Executing(v))
    <3>1. /\ pc[u] \in {"fetch", "got", "call"} /\ pc[v] \in {"fetch", "got", "call"}
          /\ disp[u] \in Dispatchers /\ enabled[disp[u]]
      BY <1>0, <2>1, <2>3 DEF Executing
    <3> QED
      BY <2>1, <3>1, ExecutingHolds, HeldByOneThread
  <2> QED
    BY <2>2, <2>3
<1> QED
  BY <1>1, <1>2, <1>3 DEF SerialNext
-----------------------------------------------------------------------------
(* The invariant holds initially and every step keeps it.                    *)

\* No actor holds a dispatcher initially.
LEMMA SerialInit == Init => SerialInv
<1> SUFFICES ASSUME Init
             PROVE  SerialInv
  OBVIOUS
<1>1. TypeInv
  BY TypeInit
<1>2. \A x \in Actors : pc[x] \in {"next", "idle", "off"}
  BY DEF Init
<1>3. WaitInv
  BY <1>2, EventServiceAssumption DEF Init, WaitInv, LoopPcs, Active, Actors
<1>4. \A x \in Actors : \A d \in Dispatchers : ~Holds(x, d)
  BY <1>2 DEF Holds, HoldPcs, LoopPcs
<1>5. \A d \in Dispatchers : Held(d)
  BY <1>2, <1>4 DEF Init, Held, Nested, LoopPcs, Actors
<1>6. OneThreadPerDispatcher
  BY <1>2 DEF OneThreadPerDispatcher, Executing
<1> QED
  BY <1>1, <1>3, <1>5, <1>6 DEF SerialInv

RunKept == \A d \in Dispatchers : enabled[d] => (parent'[d] = "run" <=> parent[d] = "run")

\* mprScheduleDispatcher neither puts a dispatcher on the run queue nor takes
\* it off.
LEMMA ScheduleKeepsRun ==
    ASSUME TypeInv, NEW d \in Dispatchers, NEW b, NEW q, NEW df, NEW t,
           ScheduleIf(b, d, q, df, t)
    PROVE  RunKept
BY DEF TypeInv, TypeOK, ScheduleIf, Schedule, Scheduled, RunKept

\* What holds an enabled dispatcher, or is nested on it, keeps it on the run queue.
LEMMA BusyIsOnRun ==
    ASSUME SerialInv, NEW x \in Actors, NEW d \in Dispatchers, enabled[d],
           Holds(x, d) \/ Nested(x, d)
    PROVE  parent[d] = "run"
<1>1. CASE Holds(x, d)
  BY <1>1 DEF SerialInv, Held
<1>2. CASE Nested(x, d)
  <2>1. x \in Waits /\ host[x] \in Workers /\ disp[host[x]] = d
    BY <1>2 DEF SerialInv, Held, Nested
  <2>2. pc[host[x]] = "call"
    BY <1>2, <2>1, EventServiceAssumption
    DEF SerialInv, WaitInv, Active, Nested, LoopPcs
  <2>3. Holds(host[x], d) /\ host[x] \in Actors
    BY <2>1, <2>2, EventServiceAssumption DEF Holds, HoldPcs, Actors
  <2> QED
    BY <2>3 DEF SerialInv, Held
<1> QED
  BY <1>1, <1>2

\* The operations on events and the clock leave the actors where they are.
LEMMA SerialQuiet ==
    ASSUME SerialInv,
           \/ Tick
           \/ \E e \in Events : EventStep(e)
           \/ UNCHANGED vars
    PROVE  SerialNext
<1> USE DEF SerialInv
<1>1. UNCHANGED <<pc, disp, enabled, owner, host, wasRunning, runEvents>> /\ RunKept
  <2>1. CASE Tick \/ UNCHANGED vars
    BY <2>1 DEF Tick, vars, dispatcherVars, actorVars, waitVars, RunKept
  <2>2. ASSUME NEW e \in Events, NEW d \in Dispatchers, NEW p \in Periods,
               NEW c \in BOOLEAN, CreateEvent(e, d, p, c)
        PROVE  UNCHANGED <<pc, disp, enabled, owner, host, wasRunning, runEvents>> /\ RunKept
    BY <2>2, ScheduleKeepsRun DEF CreateEvent, actorVars, waitVars
  <2>3. ASSUME NEW e \in Events, NEW own \in BOOLEAN, RemoveEvent(e, own)
        PROVE  UNCHANGED <<pc, disp, enabled, owner, host, wasRunning, runEvents>> /\ RunKept
    <3>1. home[e] \in Dispatchers
      BY <2>3 DEF RemoveEvent, TypeInv, TypeOK
    <3> QED
      BY <2>3, <3>1, ScheduleKeepsRun DEF RemoveEvent, actorVars, waitVars
  <2>5. ASSUME NEW e \in Events, NEW enable \in BOOLEAN, EnableContinuousEvent(e, enable)
        PROVE  UNCHANGED <<pc, disp, enabled, owner, host, wasRunning, runEvents>> /\ RunKept
    BY <2>5 DEF EnableContinuousEvent, dispatcherVars, actorVars, waitVars, RunKept
  <2> HIDE DEF SerialInv
  <2> QED
    BY <2>1, <2>2, <2>3, <2>5 DEF EventStep
<1> QED
  BY <1>1, QuietStep DEF RunKept

\* dispatchEvents moves within the code that holds the dispatcher.
LEMMA SerialDispatch ==
    ASSUME SerialInv, NEW x \in Actors,
           FetchEvent(x) \/ CallEvent(x) \/ ReturnEvent(x) \/ FinishDispatch(x)
    PROVE  SerialNext
<1> DEFINE d == disp[x]
<1>1. TypeInv
  BY DEF SerialInv
<1>2. pc[x] \in {"fetch", "got", "call", "finish"} /\ d \in Dispatchers
  BY <1>1 DEF FetchEvent, CallEvent, ReturnEvent, FinishDispatch, TypeInv, Working, Outside
<1>3. RunKept
  <2>1. CASE FetchEvent(x)
    <3>1. enabled[d] => parent[d] = "run"
      BY <1>2, <2>1, ExecutingHolds, BusyIsOnRun DEF FetchEvent
    <3> QED
      BY <1>1, <1>2, <2>1, <3>1 DEF FetchEvent, RunKept, TypeInv, TypeOK
  <2>2. CASE ReturnEvent(x)
    <3>1. \E b, q, df : ScheduleIf(b, d, q, df, now)
      BY <2>2 DEF ReturnEvent
    <3> QED
      BY <1>1, <1>2, <3>1, ScheduleKeepsRun
  <2>3. CASE CallEvent(x) \/ FinishDispatch(x)
    BY <2>3 DEF CallEvent, FinishDispatch, dispatcherVars, RunKept
  <2> QED
    BY <2>1, <2>2, <2>3
<1>4. PICK l \in {"got", "call", "finish", "resched", "exit", "prep"} :
         /\ pc' = [pc EXCEPT ![x] = l]
         /\ l = "got" => enabled[d] /\ pc[x] \in {"fetch", "call"}
         /\ l = "call" => pc[x] = "got"
         /\ l \in {"exit", "prep"} => x \in Waits
         /\ l = "resched" => x \notin Waits
  <2>1. CASE FetchEvent(x)
    BY SMTT(40), <2>1 DEF FetchEvent, TakeNext
  <2>2. CASE ReturnEvent(x)
    BY <2>2 DEF ReturnEvent, TakeNext
  <2>3. CASE CallEvent(x)
    BY <2>3 DEF CallEvent
  <2>4. CASE FinishDispatch(x)
    BY <2>4 DEF FinishDispatch
  <2> QED
    BY <2>1, <2>2, <2>3, <2>4
<1>5. UNCHANGED <<enabled, owner, host, wasRunning, runEvents, disp>>
  BY DEF FetchEvent, CallEvent, ReturnEvent, FinishDispatch, dispatcherVars, waitVars
<1>6. pc[x] = "call" => \A y \in Waits : Active(y) /\ host[y] = x => y = x
  BY DEF FetchEvent, CallEvent, ReturnEvent, FinishDispatch
<1>7. disp' = [disp EXCEPT ![x] = disp[x]]
  BY <1>1, <1>5 DEF TypeInv, TypeOK
<1>8. x \in Waits => runEvents[x]
  BY <1>2 DEF SerialInv, WaitInv
<1>9. \/ /\ x \in Waits /\ pc[x] \in LoopPcs /\ l \in LoopPcs
         /\ l \in {"fetch", "got", "call", "finish"} => runEvents[x]
      \/ /\ x \notin Waits
         /\ pc[x] \in HoldPcs \ {"svc", "pend", "start"}
         /\ l \in HoldPcs \ {"svc", "pend", "start"}
  BY <1>2, <1>4, <1>8 DEF LoopPcs, HoldPcs
<1> QED
  BY <1>2, <1>3, <1>4, <1>5, <1>6, <1>7, <1>9, MoveStep DEF RunKept
\* The service thread between two dispatchers, and a worker that goes back to
\* the pool, hold nothing.
LEMMA SerialOutside ==
    ASSUME SerialInv,
           \/ NothingReady \/ Sleep \/ Awake \/ LoopAgain
           \/ \E x \in Actors : Retire(x)
    PROVE  SerialNext
<1>1. TypeInv
  BY DEF SerialInv
<1>2. CASE NothingReady \/ Sleep \/ Awake \/ LoopAgain
  <2>1. PICK l \in {"woke", "again", "sleep", "epoll", "next"} :
           pc' = [pc EXCEPT ![Service] = l]
    BY <1>2 DEF NothingReady, Sleep, Awake, LoopAgain
  <2>2. /\ UNCHANGED <<enabled, owner, host, wasRunning, runEvents, disp, parent>>
        /\ pc[Service] \in {"next", "sleep", "epoll", "woke", "again"}
    BY <1>2 DEF NothingReady, Sleep, Awake, LoopAgain, dispatcherVars, waitVars
  <2>3. disp' = [disp EXCEPT ![Service] = disp[Service]]
    BY <1>1, <2>2 DEF TypeInv, TypeOK
  <2>4. Service \in Actors /\ Service \notin Waits
    BY EventServiceAssumption DEF Actors
  <2> QED
    BY <2>1, <2>2, <2>3, <2>4, MoveStep DEF HoldPcs
<1>3. ASSUME NEW x \in Actors, Retire(x)
      PROVE  SerialNext
  <2>1. x \notin Waits
    BY <1>1, <1>3, EventServiceAssumption
    DEF Retire, TypeInv, TypeOK, PcsOf, WaitPcs, Actors
  <2>2. PICK l \in {"next", "idle"} :
           pc' = [pc EXCEPT ![x] = l] /\ disp' = [disp EXCEPT ![x] = None]
    BY <1>3 DEF Retire
  <2>3. /\ UNCHANGED <<enabled, owner, host, wasRunning, runEvents, parent>>
        /\ pc[x] = "retire"
    BY <1>3 DEF Retire, dispatcherVars, waitVars
  <2> QED
    BY <2>1, <2>2, <2>3, MoveStep DEF HoldPcs
<1> QED
  BY <1>2, <1>3

\* mprWaitForEvent between its claim and its end.
LEMMA SerialWaiting ==
    ASSUME SerialInv, NEW x \in Waits,
           LoopWait(x) \/ PrepareWait(x) \/ WaitSignalled(x) \/ WaitTimedOut(x)
    PROVE  SerialNext
<1>1. PICK l \in {"loop", "exit", "fetch", "prep", "cond"} :
         pc' = [pc EXCEPT ![x] = l] /\ (l = "fetch" => runEvents[x])
  BY DEF LoopWait, PrepareWait, WaitSignalled, WaitTimedOut
<1>2. /\ UNCHANGED <<enabled, owner, host, wasRunning, runEvents, disp, parent>>
      /\ pc[x] \in {"loop", "prep", "cond"}
  BY DEF LoopWait, PrepareWait, WaitSignalled, WaitTimedOut, dispatcherVars, waitVars
<1>3. disp' = [disp EXCEPT ![x] = disp[x]] /\ x \in Actors
  BY <1>2 DEF SerialInv, TypeInv, TypeOK, Actors
<1> QED
  BY <1>1, <1>2, <1>3, MoveStep DEF LoopPcs

\* A step that starts no execution keeps one thread per dispatcher.
LEMMA NoNewExecution ==
    ASSUME SerialInv,
           \A x \in Actors : Executing(x)' => /\ Executing(x)
                                              /\ disp'[x] = disp[x]
                                              /\ x \in Waits => host'[x] = host[x]
    PROVE  OneThreadPerDispatcher'
BY DEF SerialInv, OneThreadPerDispatcher, Thread

\* A step that leaves the waiting threads and the callbacks they were called
\* from where they are.
LEMMA WaitsUndisturbed ==
    ASSUME SerialInv, UNCHANGED <<host, wasRunning, runEvents>>,
           \A y \in Waits : pc'[y] = pc[y],
           \A w \in Workers : pc[w] = "call" => pc'[w] = "call"
    PROVE  WaitInv'
BY DEF SerialInv, WaitInv, Active

\* A step that changes nothing about who holds a dispatcher.
LEMMA HeldElsewhere ==
    ASSUME SerialInv, NEW d \in Dispatchers, enabled[d],
           parent'[d] = "run" <=> parent[d] = "run",
           owner'[d] = owner[d],
           \A y \in Waits : pc[y] # "off" => host'[y] = host[y],
           \A y \in Actors :
              /\ Holds(y, d)' <=> Holds(y, d)
              /\ Holds(y, d) /\ pc'[y] \notin {"svc", "pend", "start"}
                    => pc[y] \notin {"svc", "pend", "start"},
           \A y \in Waits : Nested(y, d)' <=> Nested(y, d),
           \A w \in Workers : pc[w] = "call" => disp'[w] = disp[w]
    PROVE  Held(d)'
<1>1. Held(d)
  BY DEF SerialInv
<1>2. ASSUME NEW y \in Actors, Holds(y, d)
      PROVE  Thread(y)' = Thread(y)
  BY <1>2 DEF Thread, Holds, LoopPcs
<1>3. ASSUME NEW y \in Actors, Holds(y, d)'
      PROVE  /\ owner'[d] \in {None, Service, Thread(y)'}
             /\ pc'[y] \notin {"svc", "pend", "start"} => owner'[d] = Thread(y)'
  BY <1>1, <1>2, <1>3 DEF Held
<1>4. ASSUME NEW y \in Waits, Nested(y, d)'
      PROVE  host'[y] \in Workers /\ disp'[host'[y]] = d
  <2>1. Nested(y, d) /\ pc[y] \in LoopPcs
    BY <1>4 DEF Nested
  <2>2. host[y] \in Workers /\ disp[host[y]] = d /\ host'[y] = host[y]
    BY <1>1, <2>1 DEF Held, LoopPcs
  <2>3. pc[host[y]] = "call"
    BY <2>1, <2>2, EventServiceAssumption DEF SerialInv, WaitInv, Active, LoopPcs
  <2> QED
    BY <2>2, <2>3
<1> QED
  BY <1>1, <1>3, <1>4 DEF Held

\* A dispatcher disabled by a callback needs no holder any more.
LEMMA SerialDisable ==
    ASSUME SerialInv, NEW x \in Actors, DisableDispatcher(x)
    PROVE  SerialNext
<1>1. UNCHANGED <<owner, pc, disp, host, wasRunning, runEvents>>
  BY DEF DisableDispatcher, actorVars, waitVars
<1>2. WaitInv'
  BY <1>1, WaitsUndisturbed
<1>3. ASSUME NEW d \in Dispatchers, enabled'[d]
      PROVE  Held(d)'
  <2>1. enabled[d] /\ parent'[d] = parent[d]
    BY <1>3 DEF DisableDispatcher, SerialInv, TypeInv, TypeOK
  <2>2. \A y \in Actors : Holds(y, d)' <=> Holds(y, d)
    BY <1>1 DEF Holds
  <2>3. \A y \in Waits : Nested(y, d)' <=> Nested(y, d)
    BY <1>1 DEF Nested
  <2> QED
    BY <1>1, <2>1, <2>2, <2>3, HeldElsewhere
<1>4. OneThreadPerDispatcher'
  BY <1>1, NoNewExecution DEF Executing
<1> QED
  BY <1>2, <1>3, <1>4 DEF SerialNext
\* A worker, or the service thread itself, begins to service its dispatcher.
LEMMA SerialStart ==
    ASSUME SerialInv, NEW x \in Actors, StartService(x)
    PROVE  SerialNext
<1> DEFINE c == disp[x]
<1>1. TypeInv
  BY DEF SerialInv
<1>2. /\ x \notin Waits
      /\ c \in Dispatchers
      /\ pc[x] = "start"
      /\ pc' = [pc EXCEPT ![x] = IF enabled[c] THEN "fetch" ELSE "retire"]
      /\ owner' = [owner EXCEPT ![c] = IF enabled[c] THEN x ELSE @]
      /\ UNCHANGED <<parent, enabled, disp, host, wasRunning, runEvents>>
  BY <1>1, EventServiceAssumption
  DEF StartService, TypeInv, TypeOK, Working, Outside, PcsOf, WaitPcs, Actors, waitVars
<1>3. \A y \in Actors : pc'[y] = IF y = x THEN IF enabled[c] THEN "fetch" ELSE "retire"
                                 ELSE pc[y]
  BY <1>1, <1>2 DEF TypeInv, TypeOK
<1>4. WaitInv'
  BY <1>2, <1>3, WaitsUndisturbed DEF Actors
<1>5. ASSUME NEW d \in Dispatchers, enabled'[d]
      PROVE  Held(d)'
  <2>0. enabled[d] /\ Held(d)
    BY <1>2, <1>5 DEF SerialInv
  <2>1. \A y \in Actors : Holds(y, d)' <=> Holds(y, d)
    BY <1>2, <1>3, <2>0 DEF Holds, HoldPcs
  <2>2. \A y \in Waits : Nested(y, d)' <=> Nested(y, d)
    BY <1>2, <1>3 DEF Nested, Actors
  <2>3. CASE d = c
    <3>1. Holds(x, d) /\ \A y \in Actors : Holds(y, d) => y = x
      BY <1>2, <2>0, <2>3 DEF Held, Holds, HoldPcs
    <3>2. owner'[d] = x /\ Thread(x)' = x
      BY <1>1, <1>2, <2>0, <2>3 DEF Thread, TypeInv, TypeOK
    <3>3. \A y \in Actors : Holds(y, d)' =>
            /\ owner'[d] \in {None, Service, Thread(y)'}
            /\ pc'[y] \notin {"svc", "pend", "start"} => owner'[d] = Thread(y)'
      BY <2>1, <3>1, <3>2
    <3>4. \A y \in Waits : Nested(y, d)' => host'[y] \in Workers /\ disp'[host'[y]] = d
      BY <1>2, <2>0, <2>2 DEF Held
    <3> QED
      BY <1>2, <2>0, <2>1, <3>3, <3>4 DEF Held
  <2>4. CASE d # c
    <3>1. owner'[d] = owner[d]
      BY <1>1, <1>2, <2>4 DEF TypeInv, TypeOK
    <3>2. \A y \in Actors : Holds(y, d) => y # x
      BY <2>4 DEF Holds
    <3> QED
      BY <1>2, <1>3, <2>0, <2>1, <2>2, <3>1, <3>2, HeldElsewhere
  <2> QED
    BY <2>3, <2>4
<1>6. OneThreadPerDispatcher'
  BY <1>2, <1>3, NoNewExecution DEF Executing
<1> QED
  BY <1>4, <1>5, <1>6 DEF SerialNext

\* A dispatcher leaves the run queue together with its holder.
LEMMA ReleaseStep ==
    ASSUME SerialInv, NEW x \in Actors, NEW l, NEW c, x \notin Waits,
           pc[x] \in {"resched", "pend"}, l \in {"retire", "next"},
           pc' = [pc EXCEPT ![x] = l], disp' = [disp EXCEPT ![x] = c],
           UNCHANGED <<enabled, host, wasRunning, runEvents>>,
           \A d \in Dispatchers \ {disp[x]} : parent'[d] = parent[d] /\ owner'[d] = owner[d],
           enabled[disp[x]] => parent'[disp[x]] # "run"
    PROVE  SerialNext
<1>1. TypeInv /\ disp[x] \in Dispatchers
  BY DEF SerialInv, TypeInv, Working, Outside
<1>2. \A y \in Actors : /\ pc'[y] = IF y = x THEN l ELSE pc[y]
                        /\ disp'[y] = IF y = x THEN c ELSE disp[y]
  BY <1>1 DEF TypeInv, TypeOK
<1>3. WaitInv'
  BY <1>2, WaitsUndisturbed DEF Actors
<1>4. ASSUME NEW d \in Dispatchers, enabled'[d]
      PROVE  Held(d)'
  <2>0. enabled[d] /\ Held(d)
    BY <1>4 DEF SerialInv
  <2>1. \A y \in Actors : Holds(y, d)' <=> Holds(y, d) /\ y # x
    BY <1>2 DEF Holds, HoldPcs
  <2>2. \A y \in Waits : Nested(y, d)' <=> Nested(y, d)
    BY <1>2 DEF Nested, Actors
  <2>3. CASE d = disp[x]
    <3>1. Holds(x, d) /\ \A y \in Actors : Holds(y, d) => y = x
      BY <2>0, <2>3 DEF Held, Holds, HoldPcs
    <3>2. \A y \in Actors : ~Holds(y, d)'
      BY <2>1, <3>1
    <3>3. \A y \in Waits : ~Nested(y, d)
      <4> SUFFICES ASSUME NEW y \in Waits, Nested(y, d)
                   PROVE  FALSE
        OBVIOUS
      <4>1. host[y] \in Workers /\ disp[host[y]] = d
        BY <2>0 DEF Held
      <4>2. pc[host[y]] = "call"
        BY <4>1, EventServiceAssumption DEF SerialInv, WaitInv, Active, Nested, LoopPcs
      <4>3. Holds(host[y], d) /\ host[y] \in Actors
        BY <4>1, <4>2, EventServiceAssumption DEF Holds, HoldPcs, Actors
      <4> QED
        BY <3>1, <4>2, <4>3
    <3> QED
      BY <2>0, <2>2, <2>3, <3>2, <3>3 DEF Held
  <2>4. CASE d # disp[x]
    <3>1. \A y \in Actors : Holds(y, d) => y # x
      BY <2>4 DEF Holds
    <3> QED
      BY <1>2, <2>0, <2>1, <2>2, <2>4, <3>1, HeldElsewhere DEF Actors
  <2> QED
    BY <2>3, <2>4
<1>5. OneThreadPerDispatcher'
  BY <1>2, NoNewExecution DEF Executing
<1> QED
  BY <1>3, <1>4, <1>5 DEF SerialNext

\* A holder gives its dispatcher back.
LEMMA SerialRelease ==
    ASSUME SerialInv,
           QueuePending \/ \E x \in Actors : RescheduleDispatcher(x)
    PROVE  SerialNext
<1>1. TypeInv
  BY DEF SerialInv
<1>2. CASE QueuePending
  <2>1. /\ Service \in Actors /\ Service \notin Waits
        /\ disp[Service] \in Dispatchers
    BY <1>1, <1>2, EventServiceAssumption DEF QueuePending, TypeInv, Working, Outside, Actors
  <2> QED
    BY <1>1, <1>2, <2>1, ReleaseStep DEF QueuePending, waitVars, TypeInv, TypeOK
<1>3. ASSUME NEW x \in Actors, RescheduleDispatcher(x)
      PROVE  SerialNext
  <2> DEFINE c == disp[x]
  <2>1. x \notin Waits /\ c \in Dispatchers
    BY ZenonT(40), <1>1, <1>3, EventServiceAssumption
    DEF RescheduleDispatcher, TypeInv, TypeOK, Working, Outside, PcsOf, WaitPcs, Actors
  <2>2. /\ pc[x] = "resched" /\ pc' = [pc EXCEPT ![x] = "retire"]
        /\ UNCHANGED <<enabled, disp, host, wasRunning, runEvents>>
        /\ owner' = [owner EXCEPT ![c] = IF enabled[c] THEN None ELSE @]
        /\ IF enabled[c] THEN Schedule(c, "none", eventQ[c], due, now)
           ELSE UNCHANGED <<parent, triggered, wakeVars>>
    BY <1>3 DEF RescheduleDispatcher, waitVars
  <2>3. /\ enabled[c] => parent'[c] # "run"
        /\ \A d \in Dispatchers \ {c} : parent'[d] = parent[d] /\ owner'[d] = owner[d]
    BY <1>1, <2>1, <2>2 DEF Schedule, Scheduled, TypeInv, TypeOK
  <2>4. disp' = [disp EXCEPT ![x] = disp[x]]
    BY <1>1, <2>2 DEF TypeInv, TypeOK
  <2> QED
    BY <2>1, <2>2, <2>3, <2>4, ReleaseStep
<1> QED
  BY <1>2, <1>3
\* The service thread becomes the holder of a dispatcher that had none.
LEMMA SerialTake ==
    ASSUME SerialInv, NEW c \in Dispatchers, PickPending(c) \/ PickReady(c)
    PROVE  SerialNext
<1>1. TypeInv
  BY DEF SerialInv
<1>2. /\ pc[Service] = "next" /\ Service \in Actors /\ Service \notin Waits
      /\ parent[c] # "run"
      /\ parent' = [parent EXCEPT ![c] = "run"]
      /\ owner' = [owner EXCEPT ![c] = None]
      /\ pc' = [pc EXCEPT ![Service] = "svc"]
      /\ disp' = [disp EXCEPT ![Service] = c]
      /\ UNCHANGED <<enabled, host, wasRunning, runEvents>>
  BY EventServiceAssumption DEF PickPending, PickReady, TakeOver, On, Actors, waitVars
<1>3. \A y \in Actors : /\ pc'[y] = IF y = Service THEN "svc" ELSE pc[y]
                        /\ disp'[y] = IF y = Service THEN c ELSE disp[y]
  BY <1>1, <1>2 DEF TypeInv, TypeOK
<1>4. Service \notin Workers
  BY EventServiceAssumption
<1>5. WaitInv'
  BY <1>2, <1>3, <1>4, WaitsUndisturbed DEF Actors
<1>6. ASSUME NEW d \in Dispatchers, enabled'[d]
      PROVE  Held(d)'
  <2>0. enabled[d] /\ Held(d)
    BY <1>2, <1>6 DEF SerialInv
  <2>1. \A y \in Waits : Nested(y, d)' <=> Nested(y, d)
    BY <1>2, <1>3 DEF Nested, Actors
  <2>2. \A y \in Actors : Holds(y, d)' <=> Holds(y, d) \/ (y = Service /\ d = c)
    BY <1>2, <1>3 DEF Holds, HoldPcs
  <2>3. CASE d = c
    <3>1. \A y \in Actors : ~Holds(y, d) /\ ~Nested(y, d)
      BY <1>2, <2>0, <2>3, BusyIsOnRun
    <3>2. parent'[d] = "run" /\ owner'[d] = None
      BY <1>1, <1>2, <2>3 DEF TypeInv, TypeOK
    <3>3. \A y \in Actors : Holds(y, d)' <=> y = Service
      BY <2>2, <2>3, <3>1
    <3>4. \A y \in Waits : ~Nested(y, d)'
      BY <2>1, <3>1 DEF Actors
    <3> QED
      BY <1>2, <1>3, <3>2, <3>3, <3>4 DEF Held
  <2>4. CASE d # c
    <3>1. parent'[d] = parent[d] /\ owner'[d] = owner[d]
      BY <1>1, <1>2, <2>4 DEF TypeInv, TypeOK
    <3>2. \A y \in Actors : Holds(y, d) => y # Service
      BY <1>2 DEF Holds, HoldPcs
    <3> QED
      BY <1>2, <1>3, <1>4, <2>0, <2>1, <2>2, <2>4, <3>1, <3>2, HeldElsewhere DEF Actors
  <2> QED
    BY <2>3, <2>4
<1>7. OneThreadPerDispatcher'
  BY <1>2, <1>3, NoNewExecution DEF Executing
<1> QED
  BY <1>5, <1>6, <1>7 DEF SerialNext

\* The service thread hands its dispatcher to a worker, or goes on itself.
LEMMA SerialHandOver ==
    ASSUME SerialInv, ServiceDispatcher
    PROVE  SerialNext
<1> DEFINE c == disp[Service]
<1>1. TypeInv
  BY DEF SerialInv
<1>2. /\ Service \in Actors /\ Service \notin Waits /\ Service \notin Workers
      /\ pc[Service] = "svc" /\ c \in Dispatchers
      /\ owner' = [owner EXCEPT ![c] = Service]
      /\ UNCHANGED <<parent, enabled, host, wasRunning, runEvents>>
  BY <1>1, EventServiceAssumption
  DEF ServiceDispatcher, TypeInv, Working, Outside, Actors, waitVars
<1>3. PICK h \in Actors :
         /\ h = Service \/ (h \in Workers /\ pc[h] = "idle")
         /\ \A y \in Actors :
               /\ y = h => pc'[y] \in {"start", "pend"} /\ disp'[y] = c
               /\ y # h /\ y = Service => pc'[y] = "next"
               /\ y # h /\ y # Service => pc'[y] = pc[y] /\ disp'[y] = disp[y]
  <2>1. CASE \E w \in Idle : /\ pc' = [pc EXCEPT ![w] = "start", ![Service] = "next"]
                             /\ disp' = [disp EXCEPT ![w] = c, ![Service] = None]
    <3>1. PICK w \in Idle : /\ pc' = [pc EXCEPT ![w] = "start", ![Service] = "next"]
                            /\ disp' = [disp EXCEPT ![w] = c, ![Service] = None]
      BY <2>1
    <3>2. w \in Workers /\ w \in Actors /\ pc[w] = "idle" /\ w # Service
      BY <1>2 DEF Idle, Actors
    <3>3. \A y \in Actors :
             /\ pc'[y] = IF y = Service THEN "next" ELSE IF y = w THEN "start" ELSE pc[y]
             /\ disp'[y] = IF y = Service THEN None ELSE IF y = w THEN c ELSE disp[y]
      BY <1>1, <3>1, <3>2 DEF TypeInv, TypeOK
    <3>4. \A y \in Actors :
             /\ y = w => pc'[y] \in {"start", "pend"} /\ disp'[y] = c
             /\ y # w /\ y = Service => pc'[y] = "next"
             /\ y # w /\ y # Service => pc'[y] = pc[y] /\ disp'[y] = disp[y]
      BY <3>2, <3>3
    <3> HIDE DEF c
    <3> QED
      BY <3>2, <3>4, Zenon
  <2>2. CASE UNCHANGED disp /\ \E l \in {"start", "pend"} : pc' = [pc EXCEPT ![Service] = l]
    BY <1>1, <1>2, <2>2 DEF TypeInv, TypeOK
  <2> QED
    BY <2>1, <2>2 DEF ServiceDispatcher
<1>4. \A y \in Waits : y \in Actors /\ y # h /\ y # Service
  BY <1>2, <1>3, EventServiceAssumption DEF Actors
<1>5. \A y \in Waits : pc'[y] = pc[y] /\ disp'[y] = disp[y]
  BY <1>3, <1>4
<1>6. \A w \in Workers : pc[w] = "call" => pc'[w] = "call" /\ disp'[w] = disp[w]
  BY <1>2, <1>3 DEF Actors
<1>7. WaitInv'
  BY <1>2, <1>5, <1>6, WaitsUndisturbed
<1>8. h \notin Waits
  BY <1>4
<1>9. ASSUME NEW d \in Dispatchers, enabled'[d]
      PROVE  Held(d)'
  <2>0. enabled[d] /\ Held(d)
    BY <1>2, <1>9 DEF SerialInv
  <2>1. \A y \in Waits : Nested(y, d)' <=> Nested(y, d)
    BY <1>2, <1>5 DEF Nested
  <2>2. CASE d = c
    <3>1. Holds(Service, d) /\ \A y \in Actors : Holds(y, d) => y = Service
      BY <1>2, <2>0, <2>2 DEF Held, Holds, HoldPcs
    <3>2. Holds(h, d)'
      BY <1>3, <1>8, <2>2 DEF Holds, HoldPcs
    <3>3. ASSUME NEW y \in Actors, Holds(y, d)'
          PROVE  y = h
      <4>1. CASE y = Service /\ y # h
        BY <1>2, <1>3, <3>3, <4>1 DEF Holds, HoldPcs
      <4>2. CASE y # Service /\ y # h
        <5>1. Holds(y, d)
          BY <1>2, <1>3, <3>3, <4>2 DEF Holds
        <5> QED
          BY <3>1, <4>2, <5>1
      <4> QED
        BY <4>1, <4>2
    <3>4. owner'[d] = Service /\ parent'[d] = "run"
      <4>1. parent[d] = "run"
        BY <1>2, <2>0, <3>1, BusyIsOnRun
      <4> QED
        BY <1>1, <1>2, <2>2, <4>1 DEF TypeInv, TypeOK
    <3>5. \A y \in Waits : ~Nested(y, d)
      <4> SUFFICES ASSUME NEW y \in Waits, Nested(y, d)
                   PROVE  FALSE
        OBVIOUS
      <4>1. host[y] \in Workers /\ disp[host[y]] = d
        BY <2>0 DEF Held
      <4>2. pc[host[y]] = "call"
        BY <4>1, EventServiceAssumption DEF SerialInv, WaitInv, Active, Nested, LoopPcs
      <4>3. Holds(host[y], d) /\ host[y] \in Actors
        BY <4>1, <4>2, EventServiceAssumption DEF Holds, HoldPcs, Actors
      <4> QED
        BY <1>2, <3>1, <4>1, <4>3
    <3> QED
      BY <1>3, <2>1, <3>2, <3>3, <3>4, <3>5 DEF Held
  <2>3. CASE d # c
    <3>1. owner'[d] = owner[d]
      BY <1>1, <1>2, <2>3 DEF TypeInv, TypeOK
    <3>2. ASSUME NEW y \in Actors
          PROVE  /\ Holds(y, d)' <=> Holds(y, d)
                 /\ Holds(y, d) /\ pc'[y] \notin {"svc", "pend", "start"}
                       => pc[y] \notin {"svc", "pend", "start"}
      <4>1. CASE y = h
        <5>1. ~Holds(y, d)
          BY <1>2, <1>3, <1>8, <2>3, <4>1 DEF Holds, HoldPcs
        <5>2. ~Holds(y, d)'
          BY <1>3, <2>3, <4>1 DEF Holds
        <5> QED
          BY <5>1, <5>2
      <4>2. CASE y # h /\ y = Service
        <5>1. ~Holds(y, d)
          BY <2>3, <4>2 DEF Holds
        <5>2. ~Holds(y, d)'
          BY <1>2, <1>3, <4>2 DEF Holds, HoldPcs
        <5> QED
          BY <5>1, <5>2
      <4>3. CASE y # h /\ y # Service
        BY <1>2, <1>3, <4>3 DEF Holds
      <4> QED
        BY <4>1, <4>2, <4>3
    <3> QED
      BY <1>2, <1>6, <2>0, <2>1, <3>1, <3>2, HeldElsewhere
  <2> QED
    BY <2>2, <2>3
<1>10. OneThreadPerDispatcher'
  BY <1>2, <1>3, NoNewExecution DEF Executing
<1> QED
  BY <1>7, <1>9, <1>10 DEF SerialNext

\* A call of mprWaitForEvent that has begun holds nothing yet.
LEMMA SerialBegin ==
    ASSUME SerialInv, NEW x \in Waits, NEW c \in Dispatchers, NEW w \in Workers \cup {x},
           NEW t, BeginWait(x, c, w, t)
    PROVE  SerialNext
<1>1. TypeInv
  BY DEF SerialInv
<1>2. /\ x \in Actors /\ x \notin Workers /\ x # Service
      /\ pc[x] = "off" /\ pc' = [pc EXCEPT ![x] = "claim"]
      /\ disp' = [disp EXCEPT ![x] = c]
      /\ host' = [host EXCEPT ![x] = w]
      /\ w # x => pc[w] = "call" /\ ~\E y \in Waits : Active(y) /\ host[y] = w
      /\ UNCHANGED <<parent, enabled, owner, wasRunning, runEvents>>
  BY EventServiceAssumption DEF BeginWait, dispatcherVars, Actors
<1>3. \A y \in Actors : /\ pc'[y] = IF y = x THEN "claim" ELSE pc[y]
                        /\ disp'[y] = IF y = x THEN c ELSE disp[y]
  BY <1>1, <1>2 DEF TypeInv, TypeOK
<1>4. \A y \in Waits : host'[y] = IF y = x THEN w ELSE host[y]
  BY <1>1, <1>2 DEF TypeInv, TypeOK
<1>5. WaitInv'
  <2>1. \A y \in Waits : y \in Actors /\ (Active(y)' <=> Active(y) \/ y = x)
    BY <1>2, <1>3 DEF Active, Actors
  <2>2. ~Active(x)
    BY <1>2 DEF Active
  <2>3. \A v \in Workers : v \in Actors /\ v # x /\ v \notin Waits
    BY <1>2, EventServiceAssumption DEF Actors
  <2>4. \A v \in Workers : pc'[v] = pc[v]
    BY <1>3, <2>3
  <2> SUFFICES ASSUME NEW z \in Waits
               PROVE  /\ pc'[z] \in LoopPcs /\ ~wasRunning'[z] => runEvents'[z]
                      /\ pc'[z] \in {"fetch", "got", "call", "finish"} => runEvents'[z]
                      /\ Active(z)' =>
                            /\ host'[z] \in Workers \cup {z}
                            /\ host'[z] # z => pc'[host'[z]] = "call"
                            /\ \A y \in Waits : Active(y)' /\ host'[y] = host'[z] => y = z
    BY DEF WaitInv
  <2>5. /\ pc'[z] \in LoopPcs /\ ~wasRunning'[z] => runEvents'[z]
        /\ pc'[z] \in {"fetch", "got", "call", "finish"} => runEvents'[z]
    BY <1>2, <1>3, <2>1 DEF SerialInv, WaitInv, LoopPcs
  <2>6. ASSUME Active(z)'
        PROVE  /\ host'[z] \in Workers \cup {z}
               /\ host'[z] # z => pc'[host'[z]] = "call"
               /\ \A y \in Waits : Active(y)' /\ host'[y] = host'[z] => y = z
    <3>1. CASE z = x
      <4>1. ASSUME NEW y \in Waits, Active(y), y # x
            PROVE  host[y] # w
        <5>1. CASE w = x
          BY <2>3, <4>1, <5>1 DEF SerialInv, WaitInv
        <5>2. CASE w # x
          BY <1>2, <4>1, <5>2
        <5> QED
          BY <5>1, <5>2
      <4> QED
        BY <1>2, <1>4, <2>1, <2>4, <3>1, <4>1
    <3>2. CASE z # x
      <4>1. Active(z) /\ host'[z] = host[z]
        BY <1>4, <2>1, <2>6, <3>2
      <4>2. /\ host[z] \in Workers \cup {z}
            /\ host[z] # z => pc[host[z]] = "call"
            /\ \A y \in Waits : Active(y) /\ host[y] = host[z] => y = z
        BY <4>1 DEF SerialInv, WaitInv
      <4>3. w # host[z]
        <5>1. CASE w = x
          BY <2>3, <3>2, <4>2, <5>1
        <5>2. CASE w # x
          BY <1>2, <4>1, <5>2
        <5> QED
          BY <5>1, <5>2
      <4> QED
        BY <1>4, <2>1, <2>4, <3>2, <4>1, <4>2, <4>3
    <3> QED
      BY <3>1, <3>2
  <2> QED
    BY <2>5, <2>6
<1>6. ASSUME NEW d \in Dispatchers, enabled'[d]
      PROVE  Held(d)'
  <2>1. enabled[d]
    BY <1>2, <1>6
  <2>2. ASSUME NEW y \in Actors
        PROVE  /\ Holds(y, d)' <=> Holds(y, d)
               /\ Holds(y, d) /\ pc'[y] \notin {"svc", "pend", "start"}
                     => pc[y] \notin {"svc", "pend", "start"}
    BY <1>2, <1>3 DEF Holds, HoldPcs, LoopPcs
  <2>3. \A y \in Waits : Nested(y, d)' <=> Nested(y, d)
    BY <1>2, <1>3 DEF Nested, LoopPcs, Actors
  <2>4. /\ \A y \in Waits : pc[y] # "off" => host'[y] = host[y]
        /\ \A v \in Workers : pc[v] = "call" => disp'[v] = disp[v]
    BY <1>2, <1>3, <1>4 DEF Actors
  <2> QED
    BY <1>2, <2>1, <2>2, <2>3, <2>4, HeldElsewhere
<1>7. OneThreadPerDispatcher'
  BY <1>2, <1>3, <1>4, NoNewExecution DEF Executing
<1> QED
  BY <1>5, <1>6, <1>7 DEF SerialNext

\* A claim takes a dispatcher that nobody holds, or joins its holder when that
\* is the caller's own thread.
LEMMA SerialClaim ==
    ASSUME SerialInv, NEW x \in Waits, ClaimDispatcher(x)
    PROVE  SerialNext
<1> DEFINE c    == disp[x]
           busy == parent[c] = "run"
           mine == ~busy \/ owner[c] = host[x]
<1>1. TypeInv
  BY DEF SerialInv
<1>2. /\ x \in Actors /\ x \notin Workers /\ x # Service
      /\ pc[x] = "claim" /\ pc' = [pc EXCEPT ![x] = "loop"]
      /\ c \in Dispatchers
      /\ wasRunning' = [wasRunning EXCEPT ![x] = busy]
      /\ runEvents' = [runEvents EXCEPT ![x] = mine]
      /\ parent' = [parent EXCEPT ![c] = IF mine THEN "run" ELSE @]
      /\ owner' = [owner EXCEPT ![c] = IF mine THEN host[x] ELSE @]
      /\ UNCHANGED <<enabled, disp, host>>
  BY <1>1, EventServiceAssumption
  DEF ClaimDispatcher, TypeInv, Working, Outside, Actors
<1>3. \A y \in Actors : pc'[y] = IF y = x THEN "loop" ELSE pc[y]
  BY <1>1, <1>2 DEF TypeInv, TypeOK
<1>4. \A y \in Waits : /\ wasRunning'[y] = IF y = x THEN busy ELSE wasRunning[y]
                       /\ runEvents'[y] = IF y = x THEN mine ELSE runEvents[y]
  BY <1>1, <1>2 DEF TypeInv, TypeOK
<1>5. \A y \in Waits : y \in Actors
  BY DEF Actors
<1>6. Active(x)
  BY <1>2 DEF Active
<1>7. WaitInv'
  <2>1. \A y \in Waits : Active(y)' <=> Active(y)
    BY <1>2, <1>3, <1>5 DEF Active
  <2>2. \A w \in Workers : pc'[w] = pc[w]
    BY <1>2, <1>3 DEF Actors
  <2>3. \A z \in Waits : /\ pc'[z] \in LoopPcs /\ ~wasRunning'[z] => runEvents'[z]
                         /\ pc'[z] \in {"fetch", "got", "call", "finish"} => runEvents'[z]
    BY <1>3, <1>4, <1>5 DEF SerialInv, WaitInv
  <2>4. \A z \in Waits : Active(z) =>
            /\ host[z] \in Workers \cup {z}
            /\ host[z] # z => pc'[host[z]] = "call"
            /\ \A y \in Waits : Active(y) /\ host[y] = host[z] => y = z
    BY <2>2 DEF SerialInv, WaitInv
  <2> QED
    BY <1>2, <2>1, <2>3, <2>4 DEF WaitInv
<1>8. ASSUME NEW d \in Dispatchers, enabled'[d]
      PROVE  Held(d)'
  <2>0. enabled[d] /\ Held(d)
    BY <1>2, <1>8 DEF SerialInv
  <2>1. \A y \in Actors : y # x =>
          /\ Holds(y, d)' <=> Holds(y, d)
          /\ Nested(y, d)' <=> Nested(y, d)
    BY <1>2, <1>3, <1>4 DEF Holds, Nested
  <2>2. ~Holds(x, d) /\ ~Nested(x, d)
    BY <1>2 DEF Holds, Nested, LoopPcs
  <2>3. Thread(x)' = host[x] /\ \A y \in Actors : Thread(y)' = Thread(y)
    BY <1>2 DEF Thread
  <2>4. CASE d # c
    <3>1. parent'[d] = parent[d] /\ owner'[d] = owner[d]
      BY <1>1, <1>2, <2>4 DEF TypeInv, TypeOK
    <3>2. ~Holds(x, d)' /\ ~Nested(x, d)'
      BY <1>2, <2>4 DEF Holds, Nested
    <3>3. ASSUME NEW y \in Actors
          PROVE  /\ Holds(y, d)' <=> Holds(y, d)
                 /\ Holds(y, d) /\ pc'[y] \notin {"svc", "pend", "start"}
                       => pc[y] \notin {"svc", "pend", "start"}
      BY <1>3, <2>1, <2>2, <3>2
    <3>4. \A y \in Waits : Nested(y, d)' <=> Nested(y, d)
      BY <1>5, <2>1, <2>2, <3>2
    <3> QED
      BY <1>2, <2>0, <3>1, <3>3, <3>4, HeldElsewhere
  <2>5. CASE d = c /\ ~busy
    <3>1. \A y \in Actors : ~Holds(y, d) /\ ~Nested(y, d)
      BY <2>0, <2>5, BusyIsOnRun
    <3>2. Holds(x, d)'
      BY <1>2, <1>3, <1>4, <2>5 DEF Holds, LoopPcs
    <3>3. \A y \in Actors : Holds(y, d)' <=> y = x
      BY <1>2, <2>1, <3>1, <3>2
    <3>4. \A y \in Waits : ~Nested(y, d)'
      <4>1. ~Nested(x, d)'
        BY <1>4, <2>5 DEF Nested
      <4> QED
        BY <1>5, <2>1, <3>1, <4>1
    <3>5. parent'[d] = "run" /\ owner'[d] = host[x]
      BY <1>1, <1>2, <2>5 DEF TypeInv, TypeOK
    <3> QED
      BY <2>3, <3>3, <3>4, <3>5, <1>2 DEF Held
  <2>6. CASE d = c /\ busy
    <3>1. ~Holds(x, d)'
      BY <1>4, <2>6 DEF Holds
    <3>2. \A y \in Actors : Holds(y, d)' <=> Holds(y, d)
      BY <2>1, <2>2, <3>1
    <3>3. parent'[d] = "run" /\ parent[d] = "run" /\ owner'[d] = owner[d]
      BY <1>1, <1>2, <2>6 DEF TypeInv, TypeOK
    <3>4. PICK r \in Actors : Holds(r, d)
      BY <2>0, <3>3 DEF Held
    <3>5. mine => host[x] \in Workers /\ disp[host[x]] = d
      <4> SUFFICES ASSUME mine
                   PROVE  host[x] \in Workers /\ disp[host[x]] = d
        OBVIOUS
      <4>1. owner[d] = host[x]
        BY <2>6
      <4>2. host[x] \in Workers \cup {x} /\ \A y \in Waits : Active(y) /\ host[y] = host[x] => y = x
        BY <1>6 DEF SerialInv, WaitInv
      <4>3. host[x] # None /\ host[x] # Service
        BY <1>2, <4>2, EventServiceAssumption DEF Actors
      <4>4. owner[d] \in {None, Service, Thread(r)}
        BY <2>0, <3>4 DEF Held
      <4>5. Thread(r) = host[x]
        BY <4>1, <4>3, <4>4
      <4>6. r # x
        BY <2>2, <3>4
      <4>7. r \notin Waits
        <5> SUFFICES ASSUME r \in Waits
                     PROVE  FALSE
          OBVIOUS
        <5>1. Active(r)
          BY <3>4 DEF Holds, Active, LoopPcs
        <5> QED
          BY <4>2, <4>5, <4>6, <5>1 DEF Thread
      <4>8. r = host[x]
        BY <4>5, <4>7 DEF Thread
      <4> QED
        BY <1>2, <3>4, <4>2, <4>6, <4>8 DEF Holds
    <3>6. \A y \in Waits : Nested(y, d)' => host'[y] \in Workers /\ disp'[host'[y]] = d
      <4>1. Nested(x, d)' => mine
        BY <1>4 DEF Nested
      <4>2. \A y \in Waits : y # x /\ Nested(y, d)' => host[y] \in Workers /\ disp[host[y]] = d
        BY <1>5, <2>0, <2>1 DEF Held
      <4> QED
        BY <1>2, <3>5, <4>1, <4>2
    <3>7. \A y \in Actors : Holds(y, d)' =>
            /\ owner'[d] \in {None, Service, Thread(y)'}
            /\ pc'[y] \notin {"svc", "pend", "start"} => owner'[d] = Thread(y)'
      BY <1>3, <2>0, <2>2, <2>3, <3>2, <3>3 DEF Held
    <3>8. \A y, z \in Actors : Holds(y, d)' /\ Holds(z, d)' => y = z
      BY <2>0, <3>2 DEF Held
    <3>9. \E y \in Actors : Holds(y, d)'
      BY <3>2, <3>4
    <3> QED
      BY <3>3, <3>6, <3>7, <3>8, <3>9 DEF Held
  <2> QED
    BY <2>4, <2>5, <2>6
<1>9. OneThreadPerDispatcher'
  BY <1>2, <1>3, NoNewExecution DEF Executing
<1> QED
  BY <1>7, <1>8, <1>9 DEF SerialNext

\* The end of a wait gives up the dispatcher it held, or leaves it to the
\* holder it was nested on.
LEMMA SerialEnd ==
    ASSUME SerialInv, NEW x \in Waits, EndWait(x)
    PROVE  SerialNext
<1> DEFINE c == disp[x]
<1>1. TypeInv
  BY DEF SerialInv
<1>2. /\ x \in Actors /\ x \notin Workers /\ x # Service
      /\ pc[x] = "exit" /\ pc' = [pc EXCEPT ![x] = "over"]
      /\ c \in Dispatchers
      /\ disp' = [disp EXCEPT ![x] = None]
      /\ IF wasRunning[x] THEN UNCHANGED <<parent, triggered, wakeVars>>
         ELSE Schedule(c, "none", eventQ[c], due, now)
      /\ UNCHANGED <<enabled, owner, host, wasRunning, runEvents>>
  BY <1>1, EventServiceAssumption DEF EndWait, TypeInv, Working, Outside, Actors
<1>3. \A y \in Actors : /\ pc'[y] = IF y = x THEN "over" ELSE pc[y]
                        /\ disp'[y] = IF y = x THEN None ELSE disp[y]
  BY <1>1, <1>2 DEF TypeInv, TypeOK
<1>4. \A y \in Waits : y \in Actors
  BY DEF Actors
<1>5. \A w \in Workers : w \in Actors /\ pc'[w] = pc[w] /\ disp'[w] = disp[w]
  BY <1>2, <1>3 DEF Actors
<1>6. WaitInv'
  <2>1. \A y \in Waits : Active(y)' => Active(y) /\ pc'[y] = pc[y]
    BY <1>3, <1>4 DEF Active
  <2>2. \A z \in Waits : /\ pc'[z] \in LoopPcs /\ ~wasRunning[z] => runEvents[z]
                         /\ pc'[z] \in {"fetch", "got", "call", "finish"} => runEvents[z]
    BY <1>3, <1>4 DEF SerialInv, WaitInv, LoopPcs
  <2>3. \A z \in Waits : Active(z) =>
            /\ host[z] \in Workers \cup {z}
            /\ host[z] # z => pc'[host[z]] = "call"
            /\ \A y \in Waits : Active(y) /\ host[y] = host[z] => y = z
    BY <1>5 DEF SerialInv, WaitInv
  <2> QED
    BY <1>2, <2>1, <2>2, <2>3 DEF WaitInv
<1>7. ASSUME NEW d \in Dispatchers, enabled'[d]
      PROVE  Held(d)'
  <2>0. enabled[d] /\ Held(d)
    BY <1>2, <1>7 DEF SerialInv
  <2>1. ~Holds(x, d)' /\ ~Nested(x, d)'
    BY <1>2, <1>3 DEF Holds, Nested, LoopPcs
  <2>2. \A y \in Actors : y # x => /\ Holds(y, d)' <=> Holds(y, d)
                                   /\ Nested(y, d)' <=> Nested(y, d)
    BY <1>2, <1>3 DEF Holds, Nested
  <2>3. CASE Holds(x, d)
    <3>1. d = c /\ ~wasRunning[x]
      BY <2>3 DEF Holds
    <3>2. \A y \in Actors : ~Holds(y, d)'
      BY <1>2, <2>0, <2>1, <2>2, <2>3 DEF Held
    <3>3. parent'[d] # "run"
      BY <1>1, <1>2, <2>0, <3>1 DEF Schedule, Scheduled, TypeInv, TypeOK
    <3>4. \A y \in Waits : ~Nested(y, d)
      <4> SUFFICES ASSUME NEW y \in Waits, Nested(y, d)
                   PROVE  FALSE
        OBVIOUS
      <4>1. host[y] \in Workers /\ disp[host[y]] = d
        BY <2>0 DEF Held
      <4>2. pc[host[y]] = "call"
        BY <4>1, EventServiceAssumption DEF SerialInv, WaitInv, Active, Nested, LoopPcs
      <4>3. Holds(host[y], d) /\ host[y] \in Actors
        BY <4>1, <4>2, EventServiceAssumption DEF Holds, HoldPcs, Actors
      <4> QED
        BY <1>2, <2>0, <2>3, <4>1, <4>3 DEF Held
    <3> QED
      BY <1>4, <2>1, <2>2, <3>2, <3>3, <3>4 DEF Held
  <2>4. CASE ~Holds(x, d)
    <3>1. \A y \in Actors : Holds(y, d)' <=> Holds(y, d)
      BY <2>1, <2>2, <2>4
    <3>2. parent'[d] = "run" <=> parent[d] = "run"
      <4>1. CASE wasRunning[x]
        BY <1>2, <4>1
      <4>2. CASE ~wasRunning[x]
        <5>1. d # c
          BY <1>2, <2>4, <4>2 DEF Holds, LoopPcs
        <5> QED
          BY <1>1, <1>2, <4>2, <5>1 DEF Schedule, TypeInv, TypeOK
      <4> QED
        BY <4>1, <4>2
    <3>3. \A y \in Actors : Holds(y, d)' =>
            /\ owner'[d] \in {None, Service, Thread(y)'}
            /\ pc'[y] \notin {"svc", "pend", "start"} => owner'[d] = Thread(y)'
      BY <1>2, <1>3, <2>0, <2>1, <3>1 DEF Held, Thread
    <3>4. \A y \in Waits : Nested(y, d)' => host'[y] \in Workers /\ disp'[host'[y]] = d
      BY <1>2, <1>4, <1>5, <2>0, <2>1, <2>2 DEF Held
    <3> QED
      BY <2>0, <3>1, <3>2, <3>3, <3>4 DEF Held
  <2> QED
    BY <2>3, <2>4
<1>8. OneThreadPerDispatcher'
  BY <1>2, <1>3, NoNewExecution DEF Executing
<1> QED
  BY <1>6, <1>7, <1>8 DEF SerialNext

\* Every step keeps the invariant.
LEMMA SerialStep == SerialInv /\ [Next]_vars => SerialInv'
<1> SUFFICES ASSUME SerialInv, [Next]_vars
             PROVE  SerialInv'
  OBVIOUS
<1>1. TypeInv'
  BY TypeNext DEF SerialInv
<1>2. SerialNext
  <2>1. CASE Tick \/ (\E e \in Events : EventStep(e)) \/ UNCHANGED vars
    BY <2>1, SerialQuiet
  <2>2. CASE ServiceStep
    BY <2>2, SerialTake, SerialHandOver, SerialRelease, SerialOutside DEF ServiceStep
  <2>3. ASSUME NEW x \in Actors, DispatchStep(x) \/ DisableDispatcher(x)
        PROVE  SerialNext
    BY <2>3, SerialDispatch, SerialStart, SerialRelease, SerialOutside, SerialDisable
    DEF DispatchStep
  <2>4. ASSUME NEW x \in Waits, WaitStep(x)
        PROVE  SerialNext
    BY <2>4, SerialWaiting, SerialClaim, SerialEnd DEF WaitStep
  <2>5. ASSUME NEW x \in Waits, NEW d \in Dispatchers, NEW w \in Workers \cup {x},
               NEW t \in Periods, BeginWait(x, d, w, t)
        PROVE  SerialNext
    BY <2>5, SerialBegin
  <2> QED
    BY <2>1, <2>2, <2>3, <2>4, <2>5 DEF Next
<1> QED
  BY <1>1, <1>2 DEF SerialInv, SerialNext

-----------------------------------------------------------------------------
\* Two events of one dispatcher are never executed by two threads at a time:
\* neither another worker, nor the service thread, nor a thread that waits for
\* the dispatcher's events in mprWaitForEvent gets past the run queue.
THEOREM SerialDispatching == Spec => []OneThreadPerDispatcher
<1>1. SerialInv => OneThreadPerDispatcher
  BY DEF SerialInv
<1> QED
  BY <1>1, SerialInit, SerialStep, PTL DEF Spec

\* While a dispatcher is enabled it is on the run queue exactly as long as one
\* actor holds it, so no second thread can take it from another queue.
THEOREM RunQueueIsHeld == Spec => [](\A d \in Dispatchers : enabled[d] => Held(d))
<1>1. SerialInv => \A d \in Dispatchers : enabled[d] => Held(d)
  BY DEF SerialInv
<1> QED
  BY <1>1, SerialInit, SerialStep, PTL DEF Spec
=============================================================================
