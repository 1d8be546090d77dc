------------------------------ MODULE Collector ------------------------------
(***************************************************************************)
(* The garbage collector of the MPR: the rendezvous of its marker thread   *)
(* with the application threads, and the generations of blocks.            *)
(* Source: deps/mpr/mprLib.c, the file mem.c, built without PARALLEL_GC.   *)
(*                                                                         *)
(* A thread calls mprYield when every reference it will use again is saved *)
(* in a structure the marker reaches from a root.  It yields either for a  *)
(* moment (plain), and is then held up only while a collection is due, or  *)
(* for as long as a system call blocks it (sticky); mprResetYield ends     *)
(* that.  mprYield takes no lock: each access it makes to a field that     *)
(* another thread writes is a step, which any other thread may overtake.   *)
(* Three races follow; raced is a history variable that says which of them *)
(* have happened, and influences nothing.                                  *)
(*                                                                         *)
(* Left abstract: sizes, free queues and regions; the graph of blocks, of  *)
(* which only what is reachable counts (saved).  A collection is due       *)
(* whenever some thread finds it due.                                      *)
(***************************************************************************)
EXTENDS Integers, FiniteSets

CONSTANTS
    Threads,        \* the threads the MPR knows, without the marker
    Outside,        \* foreign threads that call mprCreateEventOutside
    Blocks,
    MaxPause        \* bound on how far from zero pauseGC may be when a call starts

ASSUME CollectorAssumption ==
    IsFiniteSet(Outside) /\ Threads \cap Outside = {} /\ MaxPause \in Nat

Free    == 0
Eternal == 3        \* MPR_GEN_ETERNAL
Gens    == {1, 2}   \* the two generations that take turns

VARIABLES
    pc,             \* where each thread is; "run" outside of mprYield
    sticky,         \* tp->stickyYield
    blocking,       \* the flags of its mprYield: MPR_YIELD_STICKY | MPR_YIELD_NO_BLOCK
    yielded,        \* tp->yielded
    triggered,      \* tp->cond->triggered
    mustYield,      \* heap->mustYield
    gcRequested,    \* heap->gcRequested
    marking, sweeping,
    markerCond,     \* heap->markerCond->triggered
    mpc,            \* where the marker thread is
    toWake,         \* the threads mprResumeThreads has still to visit
    active,         \* heap->active
    gen,            \* the generation of each block
    saved,          \* the blocks the marker can reach
    held,           \* the blocks each thread has references to in its locals
    opc,            \* where each foreign thread is in mprCreateEventOutside
    pauseGC,        \* heap->pauseGC
    seen,           \* the value of it that a foreign thread has read
    raced           \* history: the races that have happened, of the following
                    \*   "leave": pauseThreads counted a thread that had left the
                    \*            loop of mprYield and not yet cleared yielded
                    \*   "stick": mprResumeThreads cleared the yielded of a thread
                    \*            that had not yet set its stickyYield
                    \*   "pause": two threads changed pauseGC at the same time

threadVars == <<pc, sticky, blocking, yielded, triggered>>
flagVars   == <<mustYield, gcRequested, marking, sweeping, markerCond>>
markerVars == <<mpc, toWake>>
heapVars   == <<active, gen, saved, held>>
outVars    == <<opc, pauseGC, seen>>
vars == <<threadVars, flagVars, markerVars, heapVars, outVars, raced>>

dead == 3 - active

Init ==
    /\ pc = [t \in Threads |-> "run"]
    /\ sticky = [t \in Threads |-> FALSE]
    /\ blocking = [t \in Threads |-> FALSE]
    /\ yielded = [t \in Threads |-> FALSE]
    /\ triggered = [t \in Threads |-> FALSE]
    /\ mustYield = FALSE /\ gcRequested = FALSE /\ markerCond = FALSE
    /\ marking = FALSE /\ sweeping = FALSE
    /\ mpc = "loop" /\ toWake = {}
    /\ active = Eternal - 1
    /\ gen = [b \in Blocks |-> Free]
    /\ saved = {}
    /\ held = [t \in Threads |-> {}]
    /\ opc = [o \in Outside |-> "out"]
    /\ pauseGC = 0
    /\ seen = [o \in Outside |-> 0]
    /\ raced = {}

-----------------------------------------------------------------------------
(* What a thread does between two yields. *)

(* Operators named Bug... are plausible mistakes in the definition below them.  *)
(* No specification uses them: they show that the properties notice.           *)

Running(t) == pc[t] = "run"

\* mprAllocMem, which some time asks for a collection.
Allocate(t, b) ==
    /\ Running(t) /\ gen[b] = Free
    /\ gen' = [gen EXCEPT ![b] = active]
    /\ held' = [held EXCEPT ![t] = @ \cup {b}]
    /\ UNCHANGED <<threadVars, flagVars, markerVars, active, saved, outVars, raced>>

\* palloc and pfree: mprHold exempts a block from collection until mprRelease.
HoldBlock(t, b) ==
    /\ Running(t) /\ b \in held[t] \ saved
    /\ gen' = [gen EXCEPT ![b] = Eternal]
    /\ UNCHANGED <<threadVars, flagVars, markerVars, active, saved, held, outVars, raced>>
ReleaseBlock(t, b) ==
    /\ Running(t) /\ gen[b] = Eternal
    /\ \A u \in Threads \ {t} : b \notin held[u]
    /\ gen' = [gen EXCEPT ![b] = active]
    /\ held' = [held EXCEPT ![t] = @ \cup {b}]
    /\ UNCHANGED <<threadVars, flagVars, markerVars, active, saved, outVars, raced>>

\* References move between locals and structures the marker reaches.  A thread
\* takes nothing out of them that another thread still uses.
Save(t, b) ==
    /\ Running(t) /\ b \in held[t] /\ gen[b] # Eternal
    /\ saved' = saved \cup {b}
    /\ UNCHANGED <<threadVars, flagVars, markerVars, active, gen, held, outVars, raced>>
Load(t, b) ==
    /\ Running(t) /\ b \in saved
    /\ held' = [held EXCEPT ![t] = @ \cup {b}]
    /\ UNCHANGED <<threadVars, flagVars, markerVars, active, gen, saved, outVars, raced>>
Unlink(t, b) ==
    /\ Running(t) /\ b \in saved
    /\ \A u \in Threads \ {t} : b \notin held[u]
    /\ saved' = saved \ {b}
    /\ UNCHANGED <<threadVars, flagVars, markerVars, active, gen, held, outVars, raced>>

\* triggerGC, because newCount has passed newQuota, or forced.
TriggerGC(t) ==
    /\ Running(t) /\ ~gcRequested
    /\ gcRequested' = TRUE /\ mustYield' = TRUE /\ markerCond' = TRUE
    /\ UNCHANGED <<threadVars, marking, sweeping, markerVars, heapVars, outVars, raced>>

-----------------------------------------------------------------------------
(* mprYield and mprResetYield. *)

\* mprYield(0), and mprYield(MPR_YIELD_STICKY | MPR_YIELD_NO_BLOCK) before a
\* system call, when b.  References that are not saved are not used after it.
BeginYield(t, b) ==
    /\ Running(t)
    /\ yielded' = [yielded EXCEPT ![t] = TRUE]
    /\ blocking' = [blocking EXCEPT ![t] = b]
    /\ held' = [held EXCEPT ![t] = {x \in @ : x \in saved \/ gen[x] = Eternal}]
    /\ pc' = [pc EXCEPT ![t] = IF b THEN "stick" ELSE "test"]
    /\ UNCHANGED <<sticky, triggered, flagVars, markerVars, active, gen, saved, outVars, raced>>

SetSticky(t) ==
    /\ pc[t] = "stick"
    /\ sticky' = [sticky EXCEPT ![t] = TRUE]
    /\ pc' = [pc EXCEPT ![t] = "test"]
    /\ UNCHANGED <<blocking, yielded, triggered, flagVars, markerVars, heapVars, outVars, raced>>

\* The loop of mprYield: wait while a collection is due, unless the caller is
\* going to block anyway.
TestYield(t) ==
    /\ pc[t] = "test"
    /\ pc' = [pc EXCEPT ![t] = IF ~(yielded[t] /\ mustYield) THEN "leave"
                               ELSE IF sticky[t] /\ blocking[t] THEN "blocked"
                               ELSE "wait"]
    /\ UNCHANGED <<sticky, blocking, yielded, triggered, flagVars, markerVars, heapVars, outVars, raced>>

\* mprWaitForCond(tp->cond, -1) returns.
WakeUp(t) ==
    /\ pc[t] = "wait" /\ triggered[t]
    /\ triggered' = [triggered EXCEPT ![t] = FALSE]
    /\ pc' = [pc EXCEPT ![t] = "test"]
    /\ UNCHANGED <<sticky, blocking, yielded, flagVars, markerVars, heapVars, outVars, raced>>

LeaveYield(t) ==
    /\ pc[t] = "leave"
    /\ yielded' = [yielded EXCEPT ![t] = @ /\ sticky[t]]
    /\ pc' = [pc EXCEPT ![t] = IF blocking[t] THEN "blocked" ELSE "run"]
    /\ UNCHANGED <<sticky, blocking, triggered, flagVars, markerVars, heapVars, outVars, raced>>

\* The system call returns: mprResetYield clears stickyYield before it locks.
ReturnFromCall(t) ==
    /\ pc[t] = "blocked"
    /\ sticky' = [sticky EXCEPT ![t] = FALSE]
    /\ blocking' = [blocking EXCEPT ![t] = FALSE]
    /\ pc' = [pc EXCEPT ![t] = "reset"]
    /\ UNCHANGED <<yielded, triggered, flagVars, markerVars, heapVars, outVars, raced>>

\* The section of mprResetYield that holds the lock of the thread list.
ResetYield(t) ==
    LET due == mustYield \/ marking \/ sweeping
    IN  /\ pc[t] = "reset" /\ toWake = {}
        /\ pc' = [pc EXCEPT ![t] = IF due THEN "again" ELSE "run"]
        /\ yielded' = [yielded EXCEPT ![t] = due /\ @]
        /\ UNCHANGED <<sticky, blocking, triggered, flagVars, markerVars, heapVars, outVars, raced>>

\* mprResetYield calls mprYield(0).
YieldAgain(t) ==
    /\ pc[t] = "again"
    /\ yielded' = [yielded EXCEPT ![t] = TRUE]
    /\ pc' = [pc EXCEPT ![t] = "test"]
    /\ UNCHANGED <<sticky, blocking, triggered, flagVars, markerVars, heapVars, outVars, raced>>

-----------------------------------------------------------------------------
(* The marker thread. *)

\* marker: sleep unless a collection is due already.
MarkerLoop ==
    /\ mpc = "loop"
    /\ mpc' = IF mustYield THEN "mark" ELSE "sleep"
    /\ UNCHANGED <<threadVars, flagVars, toWake, heapVars, outVars, raced>>
MarkerWakes ==
    /\ mpc = "sleep" /\ markerCond
    /\ markerCond' = FALSE
    /\ mpc' = "mark"
    /\ UNCHANGED <<threadVars, mustYield, gcRequested, marking, sweeping, toWake,
                   heapVars, outVars, raced>>

\* mark asks all threads to yield.
BeginMark ==
    /\ mpc = "mark"
    /\ mustYield' = TRUE
    /\ mpc' = "pause"
    /\ UNCHANGED <<threadVars, gcRequested, marking, sweeping, markerCond, toWake,
                   heapVars, outVars, raced>>

BugAllYielded == pauseGC = 0 /\ \E t \in Threads : yielded[t]
\* The test of pauseThreads, under the lock of the thread list.
AllYielded == pauseGC = 0 /\ \A t \in Threads : yielded[t]
ThreadsPaused ==
    /\ mpc = "pause" /\ AllYielded
    /\ marking' = TRUE
    /\ mpc' = "roots"
    /\ raced' = IF \E t \in Threads : pc[t] = "leave" /\ ~blocking[t]
                THEN raced \cup {"leave"} ELSE raced
    /\ UNCHANGED <<threadVars, mustYield, gcRequested, sweeping, markerCond, toWake,
                   heapVars, outVars>>
\* MPR_TIMEOUT_GC_SYNC passes: mark returns, and leaves mustYield set.
PauseTimesOut ==
    /\ mpc = "pause" /\ ~AllYielded
    /\ mpc' = "loop"
    /\ UNCHANGED <<threadVars, flagVars, toWake, heapVars, outVars, raced>>

BugMarkNewest(new) ==
    /\ active' = active
    /\ gen' = [b \in Blocks |-> IF b \in saved /\ gen[b] # Eternal THEN active ELSE gen[b]]
BugMarkFirst(new) ==
    /\ active' = new
    /\ gen' = [b \in Blocks |-> IF b \in saved /\ gen[b] # Eternal THEN active ELSE gen[b]]
BugNoWrap(new) ==
    /\ active' = active + 1
    /\ gen' = [b \in Blocks |-> IF b \in saved /\ gen[b] # Eternal THEN active' ELSE gen[b]]
\* nextGen and markRoots: the generations change places, and what is reachable
\* moves to the new one.
MarkAll(new) ==
    /\ active' = new
    /\ gen' = [b \in Blocks |-> IF b \in saved /\ gen[b] # Eternal THEN new ELSE gen[b]]
MarkRoots ==
    /\ mpc = "roots"
    /\ gcRequested' = FALSE
    /\ MarkAll(dead)
    /\ mpc' = "marked"
    /\ UNCHANGED <<threadVars, mustYield, marking, sweeping, markerCond, toWake,
                   saved, held, outVars, raced>>
\* marking is cleared and sweeping set; mustYield stays set in between.
BeginSweep ==
    /\ mpc = "marked"
    /\ marking' = FALSE /\ sweeping' = TRUE
    /\ mpc' = "sweep"
    /\ UNCHANGED <<threadVars, mustYield, gcRequested, markerCond, toWake, heapVars, outVars, raced>>

\* sweep.  A destructor may allocate, and so ask for the next collection.
Sweep ==
    /\ mpc = "sweep"
    /\ gen' = [b \in Blocks |-> IF gen[b] = dead THEN Free ELSE gen[b]]
    /\ sweeping' = FALSE
    /\ \E again \in BOOLEAN : gcRequested' = again /\ markerCond' = (markerCond \/ again)
    /\ mpc' = "resume"
    /\ UNCHANGED <<threadVars, mustYield, marking, toWake, active, saved, held, outVars, raced>>

\* resumeThreads, and mprResumeThreads with its visit of every thread.
BeginResume ==
    /\ mpc = "resume"
    /\ mustYield' = FALSE
    /\ toWake' = Threads
    /\ mpc' = "wake"
    /\ UNCHANGED <<threadVars, gcRequested, marking, sweeping, markerCond, heapVars, outVars, raced>>

BugNoSignal(t) ==
    /\ yielded' = [yielded EXCEPT ![t] = @ /\ sticky[t]]
    /\ UNCHANGED triggered
BugResumeSticky(t) ==
    /\ yielded' = [yielded EXCEPT ![t] = FALSE]
    /\ triggered' = [triggered EXCEPT ![t] = @ \/ yielded[t]]
Resume(t) ==
    /\ yielded' = [yielded EXCEPT ![t] = @ /\ sticky[t]]
    /\ triggered' = [triggered EXCEPT ![t] = @ \/ yielded[t]]
StickRace(T) == IF \E t \in T : pc[t] = "stick" THEN raced \cup {"stick"} ELSE raced
VisitThread(t) ==
    /\ mpc = "wake" /\ t \in toWake
    /\ Resume(t)
    /\ raced' = StickRace({t})
    /\ toWake' = toWake \ {t}
    /\ mpc' = IF toWake = {t} THEN "loop" ELSE "wake"
    /\ UNCHANGED <<pc, sticky, blocking, flagVars, heapVars, outVars>>

\* mprWakeGCService, called by mprTerminate on a thread that has not yielded:
\* wake the marker, and every thread although no collection has ended.
WakeGCService(t) ==
    /\ Running(t) /\ toWake = {}
    /\ markerCond' = TRUE
    /\ yielded' = [u \in Threads |-> yielded[u] /\ sticky[u]]
    /\ triggered' = [u \in Threads |-> triggered[u] \/ yielded[u]]
    /\ raced' = StickRace(Threads)
    /\ UNCHANGED <<pc, sticky, blocking, mustYield, gcRequested, marking, sweeping,
                   markerVars, heapVars, outVars>>

-----------------------------------------------------------------------------
(* mprCreateEventOutside.  pauseGC++ and pauseGC-- are not atomic. *)

ReadPause(o) ==
    /\ opc[o] \in {"out", "made"}
    /\ opc[o] = "out" => pauseGC \in -MaxPause .. MaxPause
    /\ seen' = [seen EXCEPT ![o] = pauseGC]
    /\ opc' = [opc EXCEPT ![o] = IF @ = "out" THEN "inc" ELSE "dec"]
    /\ UNCHANGED <<threadVars, flagVars, markerVars, heapVars, pauseGC, raced>>
WritePause(o) ==
    /\ opc[o] \in {"inc", "dec"}
    /\ pauseGC' = IF opc[o] = "inc" THEN seen[o] + 1 ELSE seen[o] - 1
    /\ raced' = IF seen[o] # pauseGC THEN raced \cup {"pause"} ELSE raced
    /\ seen' = [seen EXCEPT ![o] = 0]
    /\ opc' = [opc EXCEPT ![o] = IF @ = "inc" THEN "nap" ELSE "out"]
    /\ UNCHANGED <<threadVars, flagVars, markerVars, heapVars>>

\* while (heap->mustYield) mprNap(0).
EndNap(o) ==
    /\ opc[o] = "nap" /\ ~mustYield
    /\ opc' = [opc EXCEPT ![o] = "alloc"]
    /\ UNCHANGED <<threadVars, flagVars, markerVars, heapVars, pauseGC, seen, raced>>

\* The event is allocated and saved in the queue of its dispatcher.
CreateEvent(o) ==
    /\ opc[o] = "alloc"
    /\ \/ \E b \in Blocks : /\ gen[b] = Free
                            /\ gen' = [gen EXCEPT ![b] = active]
                            /\ saved' = saved \cup {b}
       \/ UNCHANGED <<gen, saved>>
    /\ opc' = [opc EXCEPT ![o] = "made"]
    /\ UNCHANGED <<threadVars, flagVars, markerVars, active, held, pauseGC, seen, raced>>

-----------------------------------------------------------------------------
Mutate(t) ==
    \/ \E b \in Blocks : \/ Allocate(t, b) \/ HoldBlock(t, b) \/ ReleaseBlock(t, b)
                         \/ Save(t, b) \/ Load(t, b) \/ Unlink(t, b)
    \/ TriggerGC(t)

Yield(t) == \E b \in BOOLEAN : BeginYield(t, b)

YieldStep(t) ==
    \/ SetSticky(t) \/ TestYield(t) \/ WakeUp(t) \/ LeaveYield(t)
    \/ ResetYield(t) \/ YieldAgain(t)

MarkerStep ==
    \/ MarkerLoop \/ MarkerWakes \/ BeginMark \/ ThreadsPaused \/ PauseTimesOut
    \/ MarkRoots \/ BeginSweep \/ Sweep \/ BeginResume
    \/ \E t \in Threads : VisitThread(t)

OutsideStep(o) == ReadPause(o) \/ WritePause(o) \/ EndNap(o) \/ CreateEvent(o)

Next ==
    \/ \E t \in Threads : \/ Mutate(t) \/ Yield(t) \/ YieldStep(t) \/ ReturnFromCall(t)
                           \/ WakeGCService(t)
    \/ MarkerStep
    \/ \E o \in Outside : OutsideStep(o)

Spec == Init /\ [][Next]_vars

\* Every thread keeps running, and yields in the end, as the comment in mark
\* demands of it; a call that blocks need not return.
Fairness ==
    /\ WF_vars(MarkerStep)
    /\ \A t \in Threads : WF_vars(YieldStep(t)) /\ WF_vars(Yield(t))
    /\ \A o \in Outside : WF_vars(opc[o] # "out" /\ OutsideStep(o))
FairSpec == Spec /\ Fairness

-----------------------------------------------------------------------------
(* Properties. *)

YieldPcs   == {"run", "stick", "test", "wait", "leave", "blocked", "reset", "again"}
CyclePcs   == {"roots", "marked", "sweep", "resume"}
MarkerPcs  == {"loop", "sleep", "mark", "pause", "wake"} \cup CyclePcs
OutsidePcs == {"out", "inc", "nap", "alloc", "made", "dec"}

\* Every variable has the type of the field it stands for.
TypeOK ==
    /\ pc \in [Threads -> YieldPcs]
    /\ sticky \in [Threads -> BOOLEAN]
    /\ blocking \in [Threads -> BOOLEAN]
    /\ yielded \in [Threads -> BOOLEAN]
    /\ triggered \in [Threads -> BOOLEAN]
    /\ mustYield \in BOOLEAN /\ gcRequested \in BOOLEAN /\ markerCond \in BOOLEAN
    /\ marking \in BOOLEAN /\ sweeping \in BOOLEAN
    /\ mpc \in MarkerPcs /\ toWake \subseteq Threads
    /\ active \in Gens
    /\ gen \in [Blocks -> {Free, Eternal} \cup Gens]
    /\ saved \subseteq Blocks
    /\ held \in [Threads -> SUBSET Blocks]
    /\ opc \in [Outside -> OutsidePcs]
    /\ pauseGC \in Int /\ seen \in [Outside -> Int]
    /\ raced \subseteq {"leave", "stick", "pause"}

\* Where a thread is that has yielded, and does not use the heap before the
\* collection has ended: one that will block leaves the loop and stays yielded.
Rests(t) ==
    /\ yielded[t]
    /\ \/ pc[t] \in {"stick", "test", "wait", "blocked", "reset", "again"}
       \/ pc[t] = "leave" /\ blocking[t]

\* While the marker works, from the marking of the roots to the end of the
\* sweep, no thread uses the heap: every one of them has yielded, until one of
\* them is counted on its way out of mprYield; and foreign threads are not
\* creating an event, until two of them have changed pauseGC at once.
StoppedWhileCollecting ==
    mpc \in CyclePcs =>
        /\ "leave" \in raced \/ \A t \in Threads : Rests(t)
        /\ "pause" \in raced \/ \A o \in Outside : opc[o] # "alloc"

\* The heap has been used during a collection, or may have been.
HeapRaced == raced \cap {"leave", "pause"} # {}

\* A block that a thread has a reference to, or that a structure of the program
\* refers to, is not freed before the first of these races.
NoDanglingReference ==
    HeapRaced \/ \A b \in Blocks :
        b \in saved \cup UNION {held[t] : t \in Threads} => gen[b] # Free

\* A collection is exact: what it leaves is reachable or exempt, before the
\* first of these races.
CollectionIsExact ==
    [][Sweep => \/ HeapRaced
                \/ \A b \in Blocks : gen'[b] # Free => b \in saved \/ gen[b] = Eternal]_vars

\* A thread that is blocked in a system call counts as yielded, and collections
\* do not wait for the call to return, unless mprResumeThreads has come between
\* its setting of yielded and of stickyYield.
BlockedHasYielded ==
    "stick" \in raced \/ \A t \in Threads : pc[t] = "blocked" => yielded[t] /\ sticky[t]

\* A thread that waits for the end of a collection runs again, unless a foreign
\* thread holds collections up for ever, in its nap or by a lost change of
\* pauseGC, or a thread blocks as one that has not yielded.
YieldReturns ==
    \A t \in Threads :
        \/ pc[t] = "wait" ~> pc[t] # "wait"
        \/ \E o \in Outside : <>[](opc[o] = "nap")
        \/ <>("pause" \in raced)
        \/ \E u \in Threads : <>[](pc[u] = "blocked" /\ ~yielded[u])
=============================================================================
