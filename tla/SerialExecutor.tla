--------------------------- MODULE SerialExecutor ---------------------------
(* What the event service promises those who queue events (mpr.h, "Events"): *)
(* each dispatcher is an executor that runs the callbacks of its events when *)
(* they are due, in the order in which they are due, on one thread at a      *)
(* time.  Threads that sleep, wake each other and hand dispatchers to each   *)
(* other are not seen here.  Module EventService implements it.              *)
EXTENDS Integers, SequencesExt

CONSTANTS
    Dispatchers,
    Events,
    Actors,       \* what can run callbacks: a thread, or a wait inside a callback
    Periods,      \* delays and periods
    None

VARIABLES
    time,         \* the time that the event service goes by
    open,         \* the dispatcher is enabled
    queue,        \* its events, in the order in which they are due
    home,         \* the dispatcher an event belongs to
    due, period,
    repeats,      \* the event is continuous: queued again when it has run
    created,
    call          \* the callback each actor runs: of which event, for which
                  \* dispatcher, on which thread

vars == <<time, open, queue, home, due, period, repeats, created, call>>

Idle == [on |-> None, at |-> None, event |-> None]
Busy == {x \in Actors : call[x].event # None}

\* The calls on thread t: its own, and what is nested in that.
On(t) == {x \in Busy : call[x].on = t}

Called(e) == \E x \in Busy : call[x].event = e

\* Queue q with e behind the events that are not due later, before the others.
Enqueued(q, e, df) ==
    {InsertAt(q, i, e) : i \in {k \in 1..(Len(q) + 1) :
                                   \A j \in DOMAIN q : j < k <=> df[q[j]] <= df[e]}}

\* Queue q without e.
Unqueued(q, e) ==
    IF e \in ToSet(q) THEN {RemoveAt(q, i) : i \in {k \in DOMAIN q : q[k] = e}} ELSE {q}

\* The first event of q may run.
Ready(d, q, df) == open[d] /\ q # <<>> /\ df[Head(q)] <= time

Init ==
    /\ time = 0
    /\ open = [d \in Dispatchers |-> TRUE]
    /\ queue = [d \in Dispatchers |-> <<>>]
    /\ home = [e \in Events |-> None]
    /\ due = [e \in Events |-> 0]
    /\ period = [e \in Events |-> 0]
    /\ repeats = [e \in Events |-> FALSE]
    /\ created = {}
    /\ call = [x \in Actors |-> Idle]

\* Time never goes back.
Later == time' \in Nat /\ time <= time'
Advance == Later /\ UNCHANGED <<open, queue, home, due, period, repeats, created, call>>

\* mprCreateEvent and mprCreateTimerEvent: "Create a new event for service."
Create(e, d, p, c) ==
    /\ e \notin created
    /\ Later
    /\ created' = created \cup {e}
    /\ home' = [home EXCEPT ![e] = d]
    /\ period' = [period EXCEPT ![e] = p]
    /\ repeats' = [repeats EXCEPT ![e] = c]
    /\ due' = [due EXCEPT ![e] = time' + p]
    /\ \E q \in Enqueued(queue[d], e, due') : queue' = [queue EXCEPT ![d] = q]
    /\ UNCHANGED <<open, call>>

\* mprRemoveEvent: "Remove a queued event."  It may come too late for an event
\* that is being called.
Cancel(e) ==
    LET d == home[e] IN
    /\ d # None
    /\ home' = [home EXCEPT ![e] = None]
    /\ \E q \in Unqueued(queue[d], e) \cup (IF Called(e) THEN {queue[d]} ELSE {}) :
          queue' = [queue EXCEPT ![d] = q]
    /\ \E c \in {FALSE} \cup (IF Called(e) THEN {repeats[e]} ELSE {}) :
          repeats' = [repeats EXCEPT ![e] = c]
    /\ UNCHANGED <<time, open, due, period, created, call>>

\* mprEnableContinuousEvent: "modify the continuous property for an event."
Enable(e, c) ==
    /\ home[e] # None
    /\ repeats' = [repeats EXCEPT ![e] = c]
    /\ UNCHANGED <<time, open, queue, home, due, period, created, call>>

\* mprDisableDispatcher, by a callback of the dispatcher.
Disable(x) ==
    LET d == call[x].at
        q == queue[d]
    IN  /\ x \in Busy /\ open[d]
        /\ open' = [open EXCEPT ![d] = FALSE]
        /\ queue' = [queue EXCEPT ![d] = <<>>]
        /\ home' = [e \in Events |-> IF e \in ToSet(q) THEN None ELSE home[e]]
        /\ repeats' = [e \in Events |-> repeats[e] /\ e \notin ToSet(q)]
        /\ UNCHANGED <<time, due, period, created, call>>

\* On thread t, which runs nothing or is in the callback that x is nested in,
\* the first event of d is called when no other thread runs callbacks of d.
Start(x, t, d) ==
    /\ x \notin Busy
    /\ On(t) = {t} \ {x}
    /\ \A y \in Busy : call[y].at = d => call[y].on = t
    /\ Ready(d, queue[d], due)
    /\ call' = [call EXCEPT ![x] = [on |-> t, at |-> d, event |-> Head(queue[d])]]
    /\ queue' = [queue EXCEPT ![d] = Tail(@)]
    /\ UNCHANGED <<time, open, home, due, period, repeats, created>>

\* The callback of x returns, after what is nested in it.  A continuous event is
\* queued again; then the next event is called.
Return(x) ==
    LET d == call[x].at
        e == call[x].event
    IN  /\ x \in Busy
        /\ On(x) \subseteq {x}
        /\ IF repeats[e]
           THEN /\ due' = [due EXCEPT ![e] = time + (IF period[e] > 0 THEN period[e] ELSE 1)]
                /\ home' = [home EXCEPT ![e] = d]
           ELSE UNCHANGED <<due, home>>
        /\ \E q \in IF repeats[e] THEN Enqueued(queue[d], e, due') ELSE {queue[d]} :
              IF Ready(d, q, due')
              THEN /\ call' = [call EXCEPT ![x].event = Head(q)]
                   /\ queue' = [queue EXCEPT ![d] = Tail(q)]
              ELSE /\ call' = [call EXCEPT ![x] = Idle]
                   /\ queue' = [queue EXCEPT ![d] = q]
        /\ UNCHANGED <<time, open, period, repeats, created>>

EventStep(e) ==
    \/ \E d \in Dispatchers, p \in Periods, c \in BOOLEAN : Create(e, d, p, c)
    \/ Cancel(e)
    \/ \E c \in BOOLEAN : Enable(e, c)

CallStep(x) ==
    \/ \E t \in Actors, d \in Dispatchers : Start(x, t, d)
    \/ Return(x) \/ Disable(x)

Next ==
    \/ Advance
    \/ \E e \in Events : EventStep(e)
    \/ \E x \in Actors : CallStep(x)

Spec == Init /\ [][Next]_vars
=============================================================================
