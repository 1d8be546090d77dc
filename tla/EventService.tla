---------------------------- MODULE EventService ----------------------------
(***************************************************************************)
(* The event service of the Multithreaded Portable Runtime (MPR):          *)
(* dispatchers, their event queues, the thread that services them          *)
(* (mprServiceEvents), the workers it hands dispatchers to                 *)
(* (serviceDispatcherMain) and the threads that run one dispatcher         *)
(* themselves (mprWaitForEvent).  Source: deps/mpr/mprLib.c, the files     *)
(* dispatcher.c and event.c, with the sleep of epoll.c and cond.c.         *)
(*                                                                         *)
(* A section of code that holds the event service lock is one step.  What  *)
(* runs outside the lock is a step of its own: the lock is what the code   *)
(* relies on, and the gaps between two sections are where it can go wrong. *)
(*                                                                         *)
(* Left abstract: the position of a dispatcher in its queue (the service   *)
(* thread may take any member), the pool behind mprStartWorker (module     *)
(* WorkerPool), signals, and shutdown.  mprRescheduleEvent and             *)
(* mprRestartContinuousEvent are left out: nothing in the repository calls *)
(* them, so an event is queued once, and again when its callback returns.  *)
(***************************************************************************)
EXTENDS Integers, SequencesExt

CONSTANTS
    Dispatchers,    \* MprDispatcher objects
    Events,         \* MprEvent objects; each is created at most once
    Workers,        \* the threads the worker pool can run
    Waits,          \* activations of mprWaitForEvent, each used once
    Service,        \* the thread in mprServiceEvents
    NonBlock,       \* MPR->nonBlock, serviced inline (or None)
    None,           \* a null pointer
    Periods,        \* delays and periods, in ticks
    MaxTicks,       \* the clock stops here
    MaxPending,     \* no more calls that can raise pendingCount beyond this
    Forever,        \* MPR_MAX_TIMEOUT
    CallMixes       \* sets of calls to choose from, see calls

Actors == {Service} \cup Workers \cup Waits
CallNames == {"remove", "enable", "disable", "wait"}

ASSUME EventServiceAssumption ==
    /\ Service \notin Workers \cup Waits
    /\ Workers \cap Waits = {}
    /\ None \notin Actors \cup Dispatchers \cup Events
    /\ Periods \subseteq Nat
    /\ MaxTicks \in Nat /\ MaxPending \in Nat
    /\ Forever \in Nat /\ \A p \in Periods : MaxTicks + p < Forever
    /\ CallMixes \subseteq SUBSET CallNames

VARIABLES
    parent,         \* the queue a dispatcher is on; "none" when it is on no queue
    enabled,        \* MPR_DISPATCHER_ENABLED
    owner,          \* dispatcher->owner
    flagWaiting,    \* MPR_DISPATCHER_WAITING
    triggered,      \* dispatcher->cond->triggered
    eventQ,         \* dispatcher->eventQ
    currentQ,       \* dispatcher->currentQ
    home,           \* event->dispatcher
    due,            \* event->due
    period,         \* event->period
    continuous,     \* MPR_EVENT_CONTINUOUS
    created,        \* the events that exist
    now,            \* es->now, the cached time
    clock,          \* mprGetTicks()
    willAwake,      \* es->willAwake
    waiting,        \* es->waiting
    fresh,          \* es->eventCount differs from the copy of the service thread
    pendingCount,   \* es->pendingCount
    wakeRequested,  \* ws->wakeRequested
    wakePipe,       \* ws->breakPipe is readable
    awakeAt,        \* when epoll_wait times out
    pc,             \* where each actor is
    disp,           \* the dispatcher it works on
    ev,             \* the event it runs
    ran,            \* count > 0 in dispatchEvents
    host,           \* the thread that called mprWaitForEvent
    wasRunning,     \* locals of mprWaitForEvent
    runEvents,
    lastPass,       \* it runs dispatchEvents after the condition was signalled
    expires,
    condAt,         \* when its mprWaitForCond times out
    condDue,        \* the same in terms of es->now: how far ahead it looked
    calls           \* the calls the program makes besides mprCreateEvent

dispatcherVars == <<parent, enabled, owner, flagWaiting, triggered>>
queueVars      == <<eventQ, currentQ>>
eventVars      == <<home, due, period, continuous, created>>
sleepVars      == <<willAwake, waiting, awakeAt>>
wakeVars       == <<wakeRequested, wakePipe>>
actorVars      == <<pc, disp, ev, ran>>
waitVars       == <<host, wasRunning, runEvents, lastPass, expires, condAt,
                    condDue>>
vars == <<dispatcherVars, queueVars, eventVars, now, clock, sleepVars, fresh,
          pendingCount, wakeVars, actorVars, waitVars, calls>>

-----------------------------------------------------------------------------
\* An actor's thread: a nested mprWaitForEvent runs on the thread that called it.
Thread(x) == IF x \in Waits THEN host[x] ELSE x

\* The activation of mprWaitForEvent has begun and has not returned.
Active(x) == pc[x] \notin {"off", "over"}

\* The event is executing: between the two writes of MPR_EVENT_RUNNING.
Running(e) == \E x \in Actors : pc[x] = "call" /\ ev[x] = e

On(q) == {d \in Dispatchers : parent[d] = q}
Idle  == {w \in Workers : pc[w] = "idle"}
AvailableWorkers == Idle # {}

(* Operators named Bug... are plausible mistakes in the definition below them.  *)
(* No specification uses them: they show that the properties notice.           *)

BugInsertLast(q, e, df) == Append(q, e)
BugInsertFirst(q, e, df) ==
    InsertAt(q, Cardinality({i \in DOMAIN q : df[q[i]] < df[e]}) + 1, e)

\* An event queue is sorted by due time, first come first served among equals.
Insert(q, e, df) ==
    InsertAt(q, Cardinality({i \in DOMAIN q : df[q[i]] <= df[e]}) + 1, e)
Drop(q, e) ==
    IF e \in ToSet(q) THEN RemoveAt(q, CHOOSE i \in DOMAIN q : q[i] = e) ELSE q

BugScheduleRunning(d, p, q, df, t) ==
    IF ~enabled[d] THEN p
    ELSE IF q = <<>> THEN "idle"
    ELSE IF df[Head(q)] > t THEN "wait" ELSE "ready"
\* mprScheduleDispatcher(d) with d on queue p, its events q due at df, at time t.
Scheduled(d, p, q, df, t) ==
    IF p = "run" \/ ~enabled[d] THEN p
    ELSE IF q = <<>> THEN "idle"
    ELSE IF df[Head(q)] > t THEN "wait" ELSE "ready"
BugWakeForTimersOnly(d, p, q, df, t) ==
    IF p = "run" \/ ~enabled[d] THEN waiting
    ELSE q # <<>> /\ df[Head(q)] > t /\ df[Head(q)] < willAwake
SchedulingWakes(d, p, q, df, t) ==
    IF p = "run" \/ ~enabled[d] THEN waiting
    ELSE q # <<>> /\ IF df[Head(q)] > t THEN df[Head(q)] < willAwake ELSE waiting
BugNoSignal(d, p, q, df, t) == FALSE
SchedulingSignals(d, p, q, df, t) ==
    /\ flagWaiting[d]
    /\ \/ p = "run" \/ ~enabled[d]
       \/ q # <<>> /\ (df[Head(q)] > t => df[Head(q)] < willAwake)

\* mprWakeNotifier, called when b: a second wakeup before the service thread
\* has cleared wakeRequested writes nothing.
WakeNotifierIf(b) ==
    /\ wakeRequested' = (wakeRequested \/ b)
    /\ wakePipe'      = (wakePipe \/ (b /\ ~wakeRequested))

\* mprSignalCond(d->cond), called when b: the condition latches.
SignalIf(d, b) == triggered' = [triggered EXCEPT ![d] = @ \/ b]

\* Apply mprScheduleDispatcher to d, which is on queue p.
Schedule(d, p, q, df, t) ==
    /\ parent' = [parent EXCEPT ![d] = Scheduled(d, p, q, df, t)]
    /\ WakeNotifierIf(SchedulingWakes(d, p, q, df, t))
    /\ SignalIf(d, SchedulingSignals(d, p, q, df, t))

\* The same, only when the code reaches it.
ScheduleIf(b, d, q, df, t) ==
    IF b THEN Schedule(d, parent[d], q, df, t)
    ELSE UNCHANGED <<parent, triggered, wakeVars>>

-----------------------------------------------------------------------------
\* mprCreateEventService and mprCreateDispatcher(MPR_DISPATCHER_ENABLED) for
\* every dispatcher: they start on the idle queue.
Init ==
    /\ calls \in CallMixes
    /\ parent = [d \in Dispatchers |-> "idle"]
    /\ enabled = [d \in Dispatchers |-> TRUE]
    /\ owner = [d \in Dispatchers |-> None]
    /\ flagWaiting = [d \in Dispatchers |-> FALSE]
    /\ triggered = [d \in Dispatchers |-> FALSE]
    /\ eventQ = [d \in Dispatchers |-> <<>>]
    /\ currentQ = [d \in Dispatchers |-> {}]
    /\ home = [e \in Events |-> None]
    /\ due = [e \in Events |-> 0]
    /\ period = [e \in Events |-> 0]
    /\ continuous = [e \in Events |-> FALSE]
    /\ created = {}
    /\ now = 0 /\ clock = 0 /\ willAwake = 0 /\ awakeAt = 0
    /\ waiting = FALSE /\ fresh = FALSE /\ pendingCount = 0
    /\ wakeRequested = FALSE /\ wakePipe = FALSE
    /\ pc = [x \in Actors |-> IF x = Service THEN "next"
                              ELSE IF x \in Workers THEN "idle" ELSE "off"]
    /\ disp = [x \in Actors |-> None]
    /\ ev = [x \in Actors |-> None]
    /\ ran = [x \in Actors |-> FALSE]
    /\ host = [x \in Waits |-> x]
    /\ wasRunning = [x \in Waits |-> FALSE]
    /\ runEvents = [x \in Waits |-> FALSE]
    /\ lastPass = [x \in Waits |-> FALSE]
    /\ expires = [x \in Waits |-> 0]
    /\ condAt = [x \in Waits |-> 0]
    /\ condDue = [x \in Waits |-> 0]

Tick ==
    /\ clock < MaxTicks
    /\ clock' = clock + 1
    /\ UNCHANGED <<dispatcherVars, queueVars, eventVars, now, sleepVars, fresh,
                   pendingCount, wakeVars, actorVars, waitVars, calls>>

-----------------------------------------------------------------------------
(* Operations on events, called by any thread at any time. *)

\* mprCreateEvent and mprQueueEvent: a timer when c, otherwise a one-shot event.
CreateEvent(e, d, p, c) ==
    /\ e \notin created
    /\ created' = created \cup {e}
    /\ now' = clock
    /\ due' = [due EXCEPT ![e] = clock + p]
    /\ period' = [period EXCEPT ![e] = p]
    /\ continuous' = [continuous EXCEPT ![e] = c]
    /\ home' = [home EXCEPT ![e] = d]
    /\ eventQ' = [eventQ EXCEPT ![d] = Insert(@, e, due')]
    /\ fresh' = TRUE
    /\ ScheduleIf(enabled[d], d, eventQ'[d], due', clock)
    /\ UNCHANGED <<enabled, owner, flagWaiting, currentQ, clock, sleepVars,
                   pendingCount, actorVars, waitVars, calls>>

\* mprRemoveEvent of an event of d, by the callback of e itself when own.
\* The write of the flags is not ordered with the unlocked writes of
\* MPR_EVENT_RUNNING around the callback, by another thread: either may win.
RemoveEvent(e, own) ==
    LET d      == home[e]
        unlink == ~Running(e)
        q      == IF unlink THEN Drop(eventQ[d], e) ELSE eventQ[d]
        races  == ~own /\ \E x \in Actors : pc[x] \in {"got", "call"} /\ ev[x] = e
    IN  /\ "remove" \in calls
        /\ home[e] # None
        /\ own => Running(e)
        /\ eventQ' = [eventQ EXCEPT ![d] = q]
        /\ currentQ' = [currentQ EXCEPT ![d] = IF unlink THEN @ \ {e} ELSE @]
        /\ home' = [home EXCEPT ![e] = None]
        /\ \E c \in {FALSE} \cup (IF races THEN {continuous[e]} ELSE {}) :
               continuous' = [continuous EXCEPT ![e] = c]
        /\ ScheduleIf(enabled[d] /\ due[e] = willAwake /\ q # <<>>, d, q, due, now)
        /\ UNCHANGED <<enabled, owner, flagWaiting, due, period, created, now, clock,
                       sleepVars, fresh, pendingCount, actorVars, waitVars, calls>>

\* mprStopContinuousEvent and mprEnableContinuousEvent.
EnableContinuousEvent(e, enable) ==
    /\ "enable" \in calls
    /\ home[e] # None
    /\ continuous' = [continuous EXCEPT ![e] = enable]
    /\ UNCHANGED <<dispatcherVars, queueVars, home, due, period, created, now, clock,
                   sleepVars, fresh, pendingCount, wakeVars, actorVars, waitVars, calls>>

\* mprDisableDispatcher, called by a callback that ends the life of its own
\* dispatcher (httpDestroyConn on a connection's dispatcher).
DisableDispatcher(x) ==
    LET d == disp[x]
        q == eventQ[d]
    IN  /\ "disable" \in calls
        /\ pc[x] = "call" /\ enabled[d]
        /\ eventQ' = [eventQ EXCEPT ![d] = <<>>]
        /\ home' = [e \in Events |-> IF e \in ToSet(q) THEN None ELSE home[e]]
        /\ continuous' = [e \in Events |-> continuous[e] /\ e \notin ToSet(q)]
        /\ parent' = [parent EXCEPT ![d] = "none"]
        /\ enabled' = [enabled EXCEPT ![d] = FALSE]
        /\ LET rescheduled == \E i \in 1..(Len(q) - 1) : due[q[i]] = willAwake
           IN  /\ WakeNotifierIf(rescheduled /\ waiting)
               /\ SignalIf(d, rescheduled /\ flagWaiting[d])
        /\ UNCHANGED <<owner, flagWaiting, currentQ, due, period, created, now, clock,
                       sleepVars, fresh, pendingCount, actorVars, waitVars, calls>>

-----------------------------------------------------------------------------
(* dispatchEvents, by the actor that services dispatcher disp[x]. *)

\* mprGetNextEvent and the loop test: take the head of q if it is due.
TakeNext(x, q, df) ==
    LET d   == disp[x]
        e   == Head(q)
    IN  IF enabled[d] /\ q # <<>> /\ df[e] <= now
        THEN /\ eventQ' = [eventQ EXCEPT ![d] = Tail(q)]
             /\ currentQ' = [currentQ EXCEPT ![d] = (@ \ {ev[x]}) \cup {e}]
             /\ ev' = [ev EXCEPT ![x] = e]
             /\ pc' = [pc EXCEPT ![x] = "got"]
        ELSE /\ eventQ' = [eventQ EXCEPT ![d] = q]
             /\ currentQ' = [currentQ EXCEPT ![d] = @ \ {ev[x]}]
             /\ ev' = [ev EXCEPT ![x] = None]
             /\ pc' = [pc EXCEPT ![x] = "finish"]

\* The first look at the queue.  mprWaitForEvent calls makeRunnable before it.
FetchEvent(x) ==
    /\ pc[x] = "fetch"
    /\ TakeNext(x, eventQ[disp[x]], due)
    /\ parent' = [parent EXCEPT ![disp[x]] = IF x \in Waits THEN "run" ELSE @]
    /\ UNCHANGED <<enabled, owner, flagWaiting, triggered, eventVars, now, clock,
                   sleepVars, fresh, pendingCount, wakeVars, disp, ran, waitVars, calls>>

\* The lock is released, MPR_EVENT_RUNNING is set, the callback is entered.
CallEvent(x) ==
    /\ pc[x] = "got"
    /\ pc' = [pc EXCEPT ![x] = "call"]
    /\ UNCHANGED <<dispatcherVars, queueVars, eventVars, now, clock, sleepVars, fresh,
                   pendingCount, wakeVars, disp, ev, ran, waitVars, calls>>

\* The callback returns: a continuous event is queued again, any other only
\* leaves currentQ; then the next event is taken, all in one locked section.
\* A callback cannot return while it is inside a nested mprWaitForEvent.
ReturnEvent(x) ==
    LET d   == disp[x]
        e   == ev[x]
        again == continuous[e]
        df  == IF again THEN [due EXCEPT ![e] = now + (IF period[e] > 0 THEN period[e] ELSE 1)]
               ELSE due
        q   == IF again THEN Insert(eventQ[d], e, df) ELSE eventQ[d]
    IN  /\ pc[x] = "call"
        /\ ~\E y \in Waits \ {x} : Active(y) /\ host[y] = x
        /\ due' = df
        /\ home' = IF again THEN [home EXCEPT ![e] = d] ELSE home
        /\ fresh' = (fresh \/ again)
        /\ ScheduleIf(again /\ enabled[d], d, q, df, now)
        /\ TakeNext(x, q, df)
        /\ ran' = [ran EXCEPT ![x] = TRUE]
        /\ UNCHANGED <<enabled, owner, flagWaiting, period, continuous, created, now,
                       clock, sleepVars, pendingCount, disp, waitVars, calls>>

\* The end of dispatchEvents, outside the lock.
FinishDispatch(x) ==
    /\ pc[x] = "finish"
    /\ WakeNotifierIf(ran[x] /\ waiting)
    /\ fresh' = (fresh \/ (ran[x] /\ waiting))
    /\ pc' = [pc EXCEPT ![x] = IF x \notin Waits THEN "resched"
                               ELSE IF ran[x] \/ lastPass[x] THEN "exit" ELSE "prep"]
    /\ ran' = [ran EXCEPT ![x] = FALSE]
    /\ UNCHANGED <<dispatcherVars, queueVars, eventVars, now, clock, sleepVars,
                   pendingCount, disp, ev, waitVars, calls>>

-----------------------------------------------------------------------------
(* serviceDispatcherMain, on a worker or inline on the service thread. *)

\* The dispatcher may have been disabled since the worker was started.
StartService(x) ==
    LET d == disp[x]
    IN  /\ pc[x] = "start"
        /\ owner' = [owner EXCEPT ![d] = IF enabled[d] THEN x ELSE @]
        /\ pc' = [pc EXCEPT ![x] = IF enabled[d] THEN "fetch" ELSE "retire"]
        /\ UNCHANGED <<parent, enabled, flagWaiting, triggered, queueVars, eventVars, now,
                       clock, sleepVars, fresh, pendingCount, wakeVars, disp, ev, ran, waitVars, calls>>

BugParkIdle(x) ==
    LET d == disp[x]
    IN  /\ pc[x] = "resched"
        /\ pc' = [pc EXCEPT ![x] = "retire"]
        /\ owner' = [owner EXCEPT ![d] = IF enabled[d] THEN None ELSE @]
        /\ parent' = [parent EXCEPT ![d] = IF enabled[d] THEN "idle" ELSE @]
        /\ UNCHANGED <<enabled, flagWaiting, triggered, queueVars, eventVars, now, clock,
                       sleepVars, fresh, pendingCount, wakeVars, disp, ev, ran, waitVars, calls>>

\* An enabled dispatcher is given up: it leaves the run queue and is scheduled
\* from nowhere, in one locked section.
RescheduleDispatcher(x) ==
    LET d == disp[x]
    IN  /\ pc[x] = "resched"
        /\ pc' = [pc EXCEPT ![x] = "retire"]
        /\ owner' = [owner EXCEPT ![d] = IF enabled[d] THEN None ELSE @]
        /\ IF enabled[d] THEN Schedule(d, "none", eventQ[d], due, now)
           ELSE UNCHANGED <<parent, triggered, wakeVars>>
        /\ UNCHANGED <<enabled, flagWaiting, queueVars, eventVars, now, clock, sleepVars,
                       fresh, pendingCount, disp, ev, ran, waitVars, calls>>

BugRetireInline(x) ==
    /\ pc[x] = "retire"
    /\ pc' = [pc EXCEPT ![x] = "idle"]
    /\ disp' = [disp EXCEPT ![x] = None]
    /\ WakeNotifierIf(TRUE)
    /\ UNCHANGED <<dispatcherVars, queueVars, eventVars, now, clock, sleepVars, fresh,
                   pendingCount, ev, ran, waitVars, calls>>
BugRetireSilently(x) ==
    /\ pc[x] = "retire"
    /\ pc' = [pc EXCEPT ![x] = IF x = Service THEN "next" ELSE "idle"]
    /\ disp' = [disp EXCEPT ![x] = None]
    /\ UNCHANGED <<dispatcherVars, queueVars, eventVars, now, clock, sleepVars, fresh,
                   pendingCount, wakeVars, ev, ran, waitVars, calls>>

\* The worker goes back to the pool and wakes the service thread for the
\* pending dispatchers (changeState of thread.c), or the service thread goes on.
Retire(x) ==
    /\ pc[x] = "retire"
    /\ pc' = [pc EXCEPT ![x] = IF x = Service THEN "next" ELSE "idle"]
    /\ disp' = [disp EXCEPT ![x] = None]
    /\ WakeNotifierIf(x # Service)
    /\ UNCHANGED <<dispatcherVars, queueVars, eventVars, now, clock, sleepVars, fresh,
                   pendingCount, ev, ran, waitVars, calls>>

-----------------------------------------------------------------------------
(* mprServiceEvents. *)

TakeOver(d) ==
    /\ parent' = [parent EXCEPT ![d] = "run"]
    /\ owner' = [owner EXCEPT ![d] = None]
    /\ pc' = [pc EXCEPT ![Service] = "svc"]
    /\ disp' = [disp EXCEPT ![Service] = d]

\* getNextReadyDispatcher: a pending dispatcher when a worker is available.
PickPending(d) ==
    /\ pc[Service] = "next"
    /\ AvailableWorkers /\ d \in On("pending")
    /\ TakeOver(d)
    /\ pendingCount' = pendingCount - 1
    /\ UNCHANGED <<enabled, flagWaiting, triggered, queueVars, eventVars, now, clock,
                   sleepVars, fresh, wakeVars, ev, ran, waitVars, calls>>

\* The head of the queue is due.  An emptied queue reads as due: the code looks
\* at the queue header, whose due field is zero.
HeadDue(d) == IF eventQ[d] = <<>> THEN TRUE ELSE due[Head(eventQ[d])] <= now

\* Otherwise a ready dispatcher, or a waiting one that has become ready.
PickReady(d) ==
    /\ pc[Service] = "next"
    /\ ~(AvailableWorkers /\ On("pending") # {})
    /\ \/ d \in On("ready")
       \/ On("ready") = {} /\ d \in On("wait") /\ enabled[d] /\ HeadDue(d)
    /\ TakeOver(d)
    /\ UNCHANGED <<enabled, flagWaiting, triggered, queueVars, eventVars, now, clock,
                   sleepVars, fresh, pendingCount, wakeVars, ev, ran, waitVars, calls>>

\* serviceDispatcher: inline, or by a worker, or not at all when none is free.
ServiceDispatcher ==
    LET d == disp[Service]
    IN  /\ pc[Service] = "svc"
        /\ owner' = [owner EXCEPT ![d] = Service]
        /\ \/ /\ d = NonBlock
              /\ pc' = [pc EXCEPT ![Service] = "start"]
              /\ UNCHANGED disp
           \/ /\ d # NonBlock
              /\ \E w \in Idle :
                    /\ pc' = [pc EXCEPT ![w] = "start", ![Service] = "next"]
                    /\ disp' = [disp EXCEPT ![w] = d, ![Service] = None]
           \/ /\ d # NonBlock /\ Idle = {}
              /\ pc' = [pc EXCEPT ![Service] = "pend"]
              /\ UNCHANGED disp
        /\ UNCHANGED <<parent, enabled, flagWaiting, triggered, queueVars, eventVars, now,
                       clock, sleepVars, fresh, pendingCount, wakeVars, ev, ran, waitVars, calls>>

BugPendUncounted ==
    /\ pc[Service] = "pend"
    /\ parent' = [parent EXCEPT ![disp[Service]] = "pending"]
    /\ pc' = [pc EXCEPT ![Service] = "next"]
    /\ disp' = [disp EXCEPT ![Service] = None]
    /\ UNCHANGED <<enabled, owner, flagWaiting, triggered, queueVars, eventVars, now, clock,
                   sleepVars, fresh, pendingCount, wakeVars, ev, ran, waitVars, calls>>

\* No worker: the dispatcher waits on the pending queue.
QueuePending ==
    /\ pc[Service] = "pend"
    /\ parent' = [parent EXCEPT ![disp[Service]] = "pending"]
    /\ pendingCount' = pendingCount + 1
    /\ pc' = [pc EXCEPT ![Service] = "next"]
    /\ disp' = [disp EXCEPT ![Service] = None]
    /\ UNCHANGED <<enabled, owner, flagWaiting, triggered, queueVars, eventVars, now, clock,
                   sleepVars, fresh, wakeVars, ev, ran, waitVars, calls>>

\* Nothing to service: sleep unless an event was queued or run since the loop began.
NothingReady ==
    /\ pc[Service] = "next"
    /\ On("pending") = {} \/ ~AvailableWorkers
    /\ On("ready") = {}
    /\ ~\E d \in On("wait") : enabled[d] /\ HeadDue(d)
    /\ pc' = [pc EXCEPT ![Service] = IF fresh THEN "again" ELSE "sleep"]
    /\ UNCHANGED <<dispatcherVars, queueVars, eventVars, now, clock, sleepVars, fresh,
                   pendingCount, wakeVars, disp, ev, ran, waitVars, calls>>

\* getIdleTicks, in the locked section that announces the sleep: the least of
\* the times until the first events of the waiting dispatchers.
IdleTimes ==
    IF On("ready") # {} THEN {0}
    ELSE {Forever} \cup {due[Head(eventQ[d])] - now :
                            d \in {x \in On("wait") : eventQ[x] # <<>>}}
Sleep ==
    /\ pc[Service] = "sleep"
    /\ \E ticks \in IdleTimes :
          /\ \A t \in IdleTimes : ticks <= t
          /\ IF ticks > 0
             THEN /\ waiting' = TRUE
                  /\ willAwake' = now + ticks
                  /\ awakeAt' = clock + ticks
                  /\ pc' = [pc EXCEPT ![Service] = "epoll"]
             ELSE /\ pc' = [pc EXCEPT ![Service] = "again"]
                  /\ UNCHANGED sleepVars
    /\ UNCHANGED <<dispatcherVars, queueVars, eventVars, now, clock, fresh, pendingCount,
                   wakeVars, disp, ev, ran, waitVars, calls>>

\* epoll_wait returns because of the break pipe, which serviceIO drains, or
\* because its time is up.  At the end of the clock every timeout has expired, but for the
\* one of a service thread that has nothing to wait for.
Expired(t) == clock >= t \/ (clock = MaxTicks /\ t < Forever)
Awake ==
    /\ pc[Service] = "epoll"
    /\ wakePipe \/ Expired(awakeAt)
    /\ wakePipe' = FALSE
    /\ pc' = [pc EXCEPT ![Service] = "woke"]
    /\ UNCHANGED <<dispatcherVars, queueVars, eventVars, now, clock, sleepVars, fresh,
                   pendingCount, wakeRequested, disp, ev, ran, waitVars, calls>>

\* The end of mprWaitForIO clears wakeRequested; then, and when there was no
\* wait, the time is read and mprServiceEvents loops.
LoopAgain ==
    /\ pc[Service] \in {"woke", "again"}
    /\ wakeRequested' = (wakeRequested /\ pc[Service] = "again")
    /\ now' = clock
    /\ fresh' = FALSE
    /\ pc' = [pc EXCEPT ![Service] = "next"]
    /\ UNCHANGED <<dispatcherVars, queueVars, eventVars, clock, sleepVars, pendingCount,
                   wakePipe, disp, ev, ran, waitVars, calls>>

-----------------------------------------------------------------------------
(* mprWaitForEvent. *)

\* Called by a thread of its own, or by the callback that worker w is running.
BeginWait(x, d, w, timeout) ==
    /\ "wait" \in calls
    /\ pc[x] = "off"
    /\ pendingCount <= MaxPending
    /\ enabled[d] /\ ~flagWaiting[d]
    /\ w # x => pc[w] = "call" /\ ~\E y \in Waits : Active(y) /\ host[y] = w
    /\ host' = [host EXCEPT ![x] = w]
    /\ expires' = [expires EXCEPT ![x] = clock + timeout]
    /\ lastPass' = [lastPass EXCEPT ![x] = FALSE]
    /\ now' = clock
    /\ disp' = [disp EXCEPT ![x] = d]
    /\ pc' = [pc EXCEPT ![x] = "claim"]
    /\ UNCHANGED <<dispatcherVars, queueVars, eventVars, clock, sleepVars, fresh,
                   pendingCount, wakeVars, ev, ran, wasRunning, runEvents, condAt, condDue, calls>>

BugClaimAlways(x) ==
    LET d == disp[x]
    IN  /\ pc[x] = "claim"
        /\ wasRunning' = [wasRunning EXCEPT ![x] = parent[d] = "run"]
        /\ runEvents' = [runEvents EXCEPT ![x] = TRUE]
        /\ parent' = [parent EXCEPT ![d] = "run"]
        /\ owner' = [owner EXCEPT ![d] = host[x]]
        /\ pc' = [pc EXCEPT ![x] = "loop"]
        /\ UNCHANGED <<enabled, flagWaiting, triggered, queueVars, eventVars, now, clock,
                       sleepVars, fresh, pendingCount, wakeVars, disp, ev, ran, host,
                       lastPass, expires, condAt, condDue, calls>>

\* Dedicate the dispatcher to this thread unless another thread services it.
ClaimDispatcher(x) ==
    LET d    == disp[x]
        busy == parent[d] = "run"
        mine == ~busy \/ owner[d] = host[x]
    IN  /\ pc[x] = "claim"
        /\ wasRunning' = [wasRunning EXCEPT ![x] = busy]
        /\ runEvents' = [runEvents EXCEPT ![x] = mine]
        /\ parent' = [parent EXCEPT ![d] = IF mine THEN "run" ELSE @]
        /\ owner' = [owner EXCEPT ![d] = IF mine THEN host[x] ELSE @]
        /\ pc' = [pc EXCEPT ![x] = "loop"]
        /\ UNCHANGED <<enabled, flagWaiting, triggered, queueVars, eventVars, now, clock,
                       sleepVars, fresh, pendingCount, wakeVars, disp, ev, ran, host,
                       lastPass, expires, condAt, condDue, calls>>

LoopWait(x) ==
    /\ pc[x] = "loop"
    /\ pc' = [pc EXCEPT ![x] = IF now > expires[x] THEN "exit"
                               ELSE IF runEvents[x] THEN "fetch" ELSE "prep"]
    /\ UNCHANGED <<dispatcherVars, queueVars, eventVars, now, clock, sleepVars, fresh,
                   pendingCount, wakeVars, disp, ev, ran, waitVars, calls>>

\* getDispatcherIdleTicks and MPR_DISPATCHER_WAITING, in one locked section.
PrepareWait(x) ==
    LET d     == disp[x]
        left  == expires[x] - now
        first == due[Head(eventQ[d])] - now
        delay == IF left < 0 \/ (eventQ[d] # <<>> /\ first < 0) THEN 0
                 ELSE IF eventQ[d] # <<>> /\ first < left THEN first ELSE left
    IN  /\ pc[x] = "prep"
        /\ condAt' = [condAt EXCEPT ![x] = clock + delay]
        /\ condDue' = [condDue EXCEPT ![x] = now + delay]
        /\ flagWaiting' = [flagWaiting EXCEPT ![d] = TRUE]
        /\ pc' = [pc EXCEPT ![x] = "cond"]
        /\ UNCHANGED <<parent, enabled, owner, triggered, queueVars, eventVars, now, clock,
                       sleepVars, fresh, pendingCount, wakeVars, disp, ev, ran, host,
                       wasRunning, runEvents, lastPass, expires, calls>>

\* mprWaitForCond returns zero: run the events once more and leave.
WaitSignalled(x) ==
    LET d == disp[x]
    IN  /\ pc[x] = "cond"
        /\ triggered[d]
        /\ triggered' = [triggered EXCEPT ![d] = FALSE]
        /\ flagWaiting' = [flagWaiting EXCEPT ![d] = FALSE]
        /\ lastPass' = [lastPass EXCEPT ![x] = TRUE]
        /\ pc' = [pc EXCEPT ![x] = IF runEvents[x] THEN "fetch" ELSE "exit"]
        /\ UNCHANGED <<parent, enabled, owner, queueVars, eventVars, now, clock, sleepVars,
                       fresh, pendingCount, wakeVars, disp, ev, ran, host, wasRunning,
                       runEvents, expires, condAt, condDue, calls>>

\* mprWaitForCond times out: look again.
WaitTimedOut(x) ==
    LET d == disp[x]
    IN  /\ pc[x] = "cond"
        /\ ~triggered[d] /\ Expired(condAt[x])
        /\ flagWaiting' = [flagWaiting EXCEPT ![d] = FALSE]
        /\ now' = clock
        /\ pc' = [pc EXCEPT ![x] = IF clock = MaxTicks THEN "exit" ELSE "loop"]
        /\ UNCHANGED <<parent, enabled, owner, triggered, queueVars, eventVars, clock,
                       sleepVars, fresh, pendingCount, wakeVars, disp, ev, ran, waitVars, calls>>

\* A dispatcher that was not running when the wait began is scheduled again.
\* The owner stays: the local variable claimed is never set.
EndWait(x) ==
    LET d == disp[x]
    IN  /\ pc[x] = "exit"
        /\ IF wasRunning[x] THEN UNCHANGED <<parent, triggered, wakeVars>>
           ELSE Schedule(d, "none", eventQ[d], due, now)
        /\ disp' = [disp EXCEPT ![x] = None]
        /\ pc' = [pc EXCEPT ![x] = "over"]
        /\ expires' = [expires EXCEPT ![x] = 0]
        /\ condAt' = [condAt EXCEPT ![x] = 0]
        /\ condDue' = [condDue EXCEPT ![x] = 0]
        /\ UNCHANGED <<enabled, owner, flagWaiting, queueVars, eventVars, now, clock,
                       sleepVars, fresh, pendingCount, ev, ran, host, wasRunning,
                       runEvents, lastPass, calls>>

-----------------------------------------------------------------------------
DispatchStep(x) ==
    \/ FetchEvent(x) \/ CallEvent(x) \/ ReturnEvent(x) \/ FinishDispatch(x)
    \/ StartService(x) \/ RescheduleDispatcher(x) \/ Retire(x)

ServiceStep ==
    \/ \E d \in Dispatchers : PickPending(d) \/ PickReady(d)
    \/ ServiceDispatcher \/ QueuePending \/ NothingReady
    \/ Sleep \/ Awake \/ LoopAgain

WaitStep(x) ==
    \/ ClaimDispatcher(x) \/ LoopWait(x) \/ PrepareWait(x)
    \/ WaitSignalled(x) \/ WaitTimedOut(x) \/ EndWait(x)

EventStep(e) ==
    \/ \E d \in Dispatchers, p \in Periods, c \in BOOLEAN : CreateEvent(e, d, p, c)
    \/ \E own \in BOOLEAN : RemoveEvent(e, own)
    \/ \E enable \in BOOLEAN : EnableContinuousEvent(e, enable)

Next ==
    \/ Tick
    \/ ServiceStep
    \/ \E x \in Actors : DispatchStep(x) \/ DisableDispatcher(x)
    \/ \E x \in Waits : \/ WaitStep(x)
                        \/ \E d \in Dispatchers, w \in Workers \cup {x}, t \in Periods :
                              BeginWait(x, d, w, t)
    \/ \E e \in Events : EventStep(e)

Spec == Init /\ [][Next]_vars

\* Every thread keeps running and every callback returns; time passes.
Fairness ==
    /\ WF_vars(Tick)
    /\ WF_vars(ServiceStep)
    /\ \A x \in Actors : WF_vars(DispatchStep(x))
    /\ \A x \in Waits : WF_vars(WaitStep(x))
FairSpec == Spec /\ Fairness
-----------------------------------------------------------------------------
(* Properties. *)

ParentQueues == {"none", "idle", "wait", "ready", "run", "pending"}
Threads      == {Service} \cup Workers \cup Waits
ServicePcs   == {"next", "svc", "pend", "sleep", "epoll", "woke", "again"}
DispatchPcs  == {"start", "fetch", "got", "call", "finish", "resched", "retire"}
WaitPcs      == {"off", "claim", "loop", "fetch", "got", "call", "finish", "prep",
                 "cond", "exit", "over"}
PcsOf(x)     == IF x = Service THEN ServicePcs \cup DispatchPcs
                ELSE IF x \in Workers THEN DispatchPcs \cup {"idle"} ELSE WaitPcs

\* Every variable has the type of the field it stands for, and each kind of
\* actor stays inside its own code.
TypeOK ==
    /\ calls \in SUBSET CallNames
    /\ parent \in [Dispatchers -> ParentQueues]
    /\ enabled \in [Dispatchers -> BOOLEAN]
    /\ owner \in [Dispatchers -> Threads \cup {None}]
    /\ flagWaiting \in [Dispatchers -> BOOLEAN]
    /\ triggered \in [Dispatchers -> BOOLEAN]
    /\ eventQ \in [Dispatchers -> Seq(Events)]
    /\ currentQ \in [Dispatchers -> SUBSET Events]
    /\ home \in [Events -> Dispatchers \cup {None}]
    /\ due \in [Events -> Nat] /\ period \in [Events -> Nat]
    /\ continuous \in [Events -> BOOLEAN]
    /\ created \subseteq Events
    /\ now \in Nat /\ clock \in Nat /\ pendingCount \in Int
    /\ willAwake \in Int /\ awakeAt \in Int
    /\ waiting \in BOOLEAN /\ fresh \in BOOLEAN
    /\ wakeRequested \in BOOLEAN /\ wakePipe \in BOOLEAN
    /\ pc \in [Actors -> UNION {PcsOf(x) : x \in Actors}]
    /\ \A x \in Actors : pc[x] \in PcsOf(x)
    /\ disp \in [Actors -> Dispatchers \cup {None}]
    /\ ev \in [Actors -> Events \cup {None}]
    /\ ran \in [Actors -> BOOLEAN]
    /\ host \in [Waits -> Workers \cup Waits]
    /\ wasRunning \in [Waits -> BOOLEAN] /\ runEvents \in [Waits -> BOOLEAN]
    /\ lastPass \in [Waits -> BOOLEAN]
    /\ expires \in [Waits -> Nat]
    /\ condAt \in [Waits -> Int] /\ condDue \in [Waits -> Int]

Executing(x) == pc[x] \in {"got", "call"}

\* A dispatcher serializes its events: two events of one dispatcher are never
\* executed by two threads at a time (a nested wait may run the second one on
\* the thread of the first).
OneThreadPerDispatcher ==
    \A x, y \in Actors :
        Executing(x) /\ Executing(y) /\ disp[x] = disp[y] => Thread(x) = Thread(y)

\* No event is stranded: an enabled dispatcher that has queued events is on a
\* queue from which it will be serviced, never on the idle queue or off them all.
NoStrandedEvent ==
    \A d \in Dispatchers :
        enabled[d] /\ eventQ[d] # <<>> => parent[d] \in {"wait", "ready", "run", "pending"}

\* No lost wakeup: when the service thread sleeps and nothing will wake it, no
\* dispatcher is ready, no pending dispatcher could have a worker, and it has
\* not overslept an event: each waiting dispatcher's first event is due no
\* earlier than the time announced in es->willAwake.
NoLostWakeup ==
    pc[Service] = "epoll" /\ ~wakePipe =>
        /\ On("ready") = {}
        /\ On("pending") # {} => ~AvailableWorkers
        /\ \A d \in On("wait") : eventQ[d] # <<>> => due[Head(eventQ[d])] >= willAwake

\* A thread in mprWaitForEvent that runs the events of its dispatcher does not
\* sleep past one: its condition is signalled or it times out by then.
NoLostSignal ==
    \A x \in Waits :
        LET d == disp[x] IN
        pc[x] = "cond" /\ runEvents[x] /\ enabled[d] /\ eventQ[d] # <<>> /\ ~triggered[d] =>
            condDue[x] <= due[Head(eventQ[d])] \/ Expired(condAt[x])

\* es->pendingCount never falls below the length of the pending queue, so the
\* assertion that it is not negative holds.
PendingCountCovers == Cardinality(On("pending")) <= pendingCount

\* Events are queued in the order in which they are due, each at most once, on
\* one dispatcher only.
QueuesSorted ==
    \A d \in Dispatchers :
        /\ \A i, j \in DOMAIN eventQ[d] : i < j => /\ eventQ[d][i] # eventQ[d][j]
                                                   /\ due[eventQ[d][i]] <= due[eventQ[d][j]]
        /\ \A c \in Dispatchers \ {d} : ToSet(eventQ[c]) \cap ToSet(eventQ[d]) = {}

\* A due event leaves its queue in the end, because it is run, because it is
\* removed, or because its dispatcher is disabled.
DueEventsRun ==
    \A e \in Events, d \in Dispatchers :
        e \in ToSet(eventQ[d]) /\ due[e] <= clock /\ enabled[d] ~> e \notin ToSet(eventQ[d])

\* What the callbacks are to those who queue events.
Calls ==
    [x \in Actors |-> IF Executing(x) THEN [on |-> Thread(x), at |-> disp[x], event |-> ev[x]]
                      ELSE [on |-> None, at |-> None, event |-> None]]

\* To them the service is an executor for each dispatcher.  However the service
\* thread, workers and threads in mprWaitForEvent interleave, an event is called
\* when it is due, behind those that are due before it, once for each time it is
\* queued, by one thread at a time for its dispatcher, and no more once it was
\* taken off the queue.
Executor == INSTANCE SerialExecutor WITH
    time <- now, open <- enabled, queue <- eventQ, repeats <- continuous, call <- Calls
ImplementsExecutor == Executor!Spec
=============================================================================
