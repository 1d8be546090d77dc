----------------------------- MODULE WorkerPool -----------------------------
(***************************************************************************)
(* The worker threads of the MPR: the pool that mprStartWorker draws on,   *)
(* the loop each worker runs (workerMain), the changes of a worker's state *)
(* (changeState), the pruner, and the wakeups of shutdown.                 *)
(* Source: deps/mpr/mprLib.c, the file thread.c, with the condition        *)
(* variable of cond.c.                                                     *)
(*                                                                         *)
(* What the code does under the lock of the worker service is one step.    *)
(* The loop of a worker takes no lock ("very important for performance"),  *)
(* so each access it makes to a field other threads write is a step.       *)
(*                                                                         *)
(* A job is a dispatcher that the service thread hands to the pool.  The   *)
(* service thread is modelled as far as the pool sees it: jobs the pool    *)
(* refuses wait on the pending queue, and the thread sleeps until it is    *)
(* woken (module EventService has the details).                            *)
(*                                                                         *)
(* Left abstract: the order of the idle list.  The code takes the worker   *)
(* that went idle last; here it may take any.                              *)
(***************************************************************************)
EXTENDS Integers, FiniteSets

CONSTANTS
    Workers,        \* worker objects; one that has exited is created anew
    Jobs,           \* each is handed to the pool once
    NumCpu,         \* MPR->heap->stats.numCpu
    Limits,         \* the values of the directives LimitWorkers and MinWorkers
    DefaultMax,     \* MPR_DEFAULT_MAX_THREADS
    Spurious,       \* pthread_cond_wait may return unsignalled
    None

ASSUME WorkerPoolAssumption ==
    /\ IsFiniteSet(Workers)
    /\ NumCpu \in Nat \ {0}
    /\ Limits \subseteq 1..Cardinality(Workers)
    /\ DefaultMax \in 1..Cardinality(Workers)
    /\ Spurious \in BOOLEAN
    /\ None \notin Jobs

VARIABLES
    pc,             \* where each worker is in workerMain; "off" when it has no thread
    state,          \* worker->state
    proc,           \* worker->proc and data
    triggered,      \* worker->idleCond->triggered
    yielded,        \* worker->thread->yielded while worker->running
    stale,          \* idle for longer than MPR_TIMEOUT_WORKER
    numThreads, minThreads, maxThreads,
    stopping,       \* mprIsStopping
    wakes,          \* calls of mprWakeWorkers: by mprTerminate and by mprDestroy
    status,         \* how far each job is
    awake           \* the service thread has been woken and has not slept since

workerVars == <<pc, state, proc, triggered, yielded, stale>>
limitVars  == <<minThreads, maxThreads>>
stopVars   == <<stopping, wakes>>
serviceVars == <<status, awake>>
vars == <<workerVars, numThreads, limitVars, stopVars, serviceVars>>

In(s)   == {w \in Workers : state[w] = s}
With(j) == {i \in Jobs : status[i] = j}

\* The server still reads its configuration: no job has come.
Configuring == With("new") = Jobs /\ ~stopping

-----------------------------------------------------------------------------
\* mprGetWorkerStats and mprAvailableWorkers.
AvailableWorkers ==
    LET busy   == Cardinality(In("busy"))
        idle   == Cardinality(In("idle"))
        active == busy - Cardinality({w \in In("busy") : yielded[w]})
        cores  == NumCpu - active
        spare  == maxThreads - busy - idle
    IN  IF cores <= 0 THEN 0 ELSE idle + (IF spare < cores THEN spare ELSE cores)

(* Operators named Bug... are plausible mistakes in the definition below them.  *)
(* No specification uses them: they show that the properties notice.           *)

BugNoSignal(W, s) ==
    /\ state' = [w \in Workers |-> IF w \in W THEN s ELSE state[w]]
    /\ UNCHANGED triggered
\* changeState of the workers W, which leave the idle list, signals each idleCond.
LeaveIdle(W, s) ==
    /\ state' = [w \in Workers |-> IF w \in W THEN s ELSE state[w]]
    /\ triggered' = [w \in Workers |-> triggered[w] \/ w \in W]

Init ==
    /\ pc = [w \in Workers |-> "off"]
    /\ state = [w \in Workers |-> "none"]
    /\ proc = [w \in Workers |-> None]
    /\ triggered = [w \in Workers |-> FALSE]
    /\ yielded = [w \in Workers |-> FALSE]
    /\ stale = [w \in Workers |-> FALSE]
    /\ numThreads = 0 /\ minThreads = 0 /\ maxThreads = DefaultMax
    /\ stopping = FALSE /\ wakes = 0
    /\ status = [j \in Jobs |-> "new"]
    /\ awake = FALSE

\* createWorker and the start of its thread, for the workers W with the job j.
CreateWorkers(W, j) ==
    /\ \A w \in W : pc[w] = "off"
    /\ pc' = [w \in Workers |-> IF w \in W THEN "loop" ELSE pc[w]]
    /\ state' = [w \in Workers |-> IF w \in W THEN "busy" ELSE state[w]]
    /\ proc' = [w \in Workers |-> IF w \in W THEN j ELSE proc[w]]
    /\ triggered' = [w \in Workers |-> triggered[w] /\ w \notin W]
    /\ numThreads' = numThreads + Cardinality(W)
    /\ UNCHANGED <<yielded, stale>>

-----------------------------------------------------------------------------
(* Configuration. *)

\* mprSetMinWorkers pre-starts workers.
SetMinWorkers(n) ==
    /\ Configuring
    /\ minThreads' = n
    /\ \E W \in SUBSET Workers :
          /\ Cardinality(W) = IF n > numThreads THEN n - numThreads ELSE 0
          /\ CreateWorkers(W, None)
    /\ UNCHANGED <<maxThreads, stopVars, serviceVars>>

\* The idle workers pruneWorkers trims: numThreads is decremented by the
\* worker when it exits, so the test of the loop has one outcome throughout.
Prunable ==
    IF numThreads <= minThreads THEN {} ELSE {w \in In("idle") : stale[w]}

\* mprSetMaxWorkers.  It trims with the old minimum.
SetMaxWorkers(n) ==
    LET W == IF numThreads > n THEN Prunable ELSE {}
    IN  /\ Configuring
        /\ maxThreads' = n
        /\ minThreads' = IF minThreads > n THEN n ELSE minThreads
        /\ LeaveIdle(W, "pruned")
        /\ awake' = (awake \/ W # {})
        /\ UNCHANGED <<pc, proc, yielded, stale, numThreads, stopVars, status>>

-----------------------------------------------------------------------------
(* The service thread. *)

\* mprStartWorker(j) when it finds a worker: an idle one, or else a new one.
TakeIdle(j) ==
    \E w \in In("idle") : /\ LeaveIdle({w}, "busy")
                          /\ proc' = [proc EXCEPT ![w] = j]
                          /\ UNCHANGED <<pc, yielded, stale, numThreads>>
TakeNew(j) ==
    /\ In("idle") = {}
    /\ numThreads < maxThreads /\ AvailableWorkers # 0
    /\ \E w \in Workers : CreateWorkers({w}, j)
Refuses ==
    In("idle") = {} /\ (numThreads >= maxThreads \/ AvailableWorkers = 0)

\* serviceDispatcher of a ready dispatcher; mprServiceEvents puts one the pool
\* refuses on the pending queue.
SubmitJob(j) ==
    /\ status[j] = "new"
    /\ awake' = TRUE
    /\ \/ /\ TakeIdle(j) \/ TakeNew(j)
          /\ status' = [status EXCEPT ![j] = "given"]
       \/ /\ Refuses
          /\ status' = [status EXCEPT ![j] = "pending"]
          /\ UNCHANGED <<workerVars, numThreads>>
    /\ UNCHANGED <<limitVars, stopVars>>

BugRetryIdleOnly(j) ==
    /\ awake /\ status[j] = "pending"
    /\ AvailableWorkers > 0
    /\ TakeIdle(j)
    /\ status' = [status EXCEPT ![j] = "given"]
    /\ UNCHANGED <<awake, limitVars, stopVars>>
\* getNextReadyDispatcher takes a pending one only when a worker is available;
\* one that is refused again goes back.
RetryJob(j) ==
    /\ awake /\ status[j] = "pending"
    /\ AvailableWorkers > 0
    /\ TakeIdle(j) \/ TakeNew(j)
    /\ status' = [status EXCEPT ![j] = "given"]
    /\ UNCHANGED <<awake, limitVars, stopVars>>

ServiceSleeps ==
    /\ awake
    /\ With("pending") = {} \/ AvailableWorkers <= 0
    /\ awake' = FALSE
    /\ UNCHANGED <<workerVars, numThreads, limitVars, stopVars, status>>

\* pruneWorkers, run by a timer until mprWakeWorkers removes it.
PruneWorkers ==
    /\ wakes = 0
    /\ Prunable # {}
    /\ LeaveIdle(Prunable, "pruned")
    /\ awake' = TRUE
    /\ UNCHANGED <<pc, proc, yielded, stale, numThreads, limitVars, stopVars, status>>

-----------------------------------------------------------------------------
(* workerMain. *)

LoopTest(w) ==
    /\ pc[w] = "loop"
    /\ pc' = [pc EXCEPT ![w] = IF state[w] = "pruned" THEN "exit" ELSE "proc"]
    /\ UNCHANGED <<state, proc, triggered, yielded, stale, numThreads,
                   limitVars, stopVars, serviceVars>>

LookForJob(w) ==
    /\ pc[w] = "proc"
    /\ pc' = [pc EXCEPT ![w] = IF proc[w] = None THEN "after" ELSE "run"]
    /\ UNCHANGED <<state, proc, triggered, yielded, stale, numThreads,
                   limitVars, stopVars, serviceVars>>

\* The job blocks in a call that yields to the garbage collector, or returns from it.
Yield(w, blocks) ==
    /\ pc[w] = "run"
    /\ yielded[w] # blocks
    /\ yielded' = [yielded EXCEPT ![w] = blocks]
    /\ UNCHANGED <<pc, state, proc, triggered, stale, numThreads,
                   limitVars, stopVars, serviceVars>>

FinishJob(w) ==
    /\ pc[w] = "run" /\ ~yielded[w]
    /\ status' = [status EXCEPT ![proc[w]] = "done"]
    /\ pc' = [pc EXCEPT ![w] = "after"]
    /\ UNCHANGED <<state, proc, triggered, yielded, stale, numThreads,
                   limitVars, stopVars, awake>>

\* lastActivity, and the test of mprIsStopping.
CheckStopping(w) ==
    /\ pc[w] = "after"
    /\ stale' = [stale EXCEPT ![w] = FALSE]
    /\ pc' = [pc EXCEPT ![w] = IF stopping THEN "exit" ELSE "clear"]
    /\ UNCHANGED <<state, proc, triggered, yielded, numThreads,
                   limitVars, stopVars, serviceVars>>

BugKeepJob(w) ==
    /\ pc[w] = "clear"
    /\ pc' = [pc EXCEPT ![w] = "park"]
    /\ UNCHANGED <<state, proc, triggered, yielded, stale, numThreads,
                   limitVars, stopVars, serviceVars>>
ClearJob(w) ==
    /\ pc[w] = "clear"
    /\ proc' = [proc EXCEPT ![w] = None]
    /\ pc' = [pc EXCEPT ![w] = "park"]
    /\ UNCHANGED <<state, triggered, yielded, stale, numThreads,
                   limitVars, stopVars, serviceVars>>

BugParkSilently(w) ==
    /\ pc[w] = "park"
    /\ pc' = [pc EXCEPT ![w] = "wait"]
    /\ state' = [state EXCEPT ![w] = "idle"]
    /\ UNCHANGED <<proc, triggered, yielded, stale, numThreads, limitVars, stopVars,
                   serviceVars>>
\* changeState(worker, MPR_WORKER_IDLE): pending dispatchers may try again.
Park(w) ==
    /\ pc[w] = "park"
    /\ pc' = [pc EXCEPT ![w] = "wait"]
    /\ state' = [state EXCEPT ![w] = "idle"]
    /\ awake' = (awake \/ state[w] # "idle")
    /\ UNCHANGED <<proc, triggered, yielded, stale, numThreads, limitVars, stopVars, status>>

\* mprWaitForCond(worker->idleCond, -1).  Without a timeout it does not look
\* again when pthread_cond_wait returns although nobody signalled.
WakeUp(w) ==
    /\ pc[w] = "wait"
    /\ triggered[w] \/ Spurious
    /\ triggered' = [triggered EXCEPT ![w] = FALSE]
    /\ pc' = [pc EXCEPT ![w] = "loop"]
    /\ UNCHANGED <<state, proc, yielded, stale, numThreads,
                   limitVars, stopVars, serviceVars>>

BugExitUncounted(w) ==
    /\ pc[w] = "exit"
    /\ pc' = [pc EXCEPT ![w] = "off"]
    /\ state' = [state EXCEPT ![w] = "none"]
    /\ proc' = [proc EXCEPT ![w] = None]
    /\ triggered' = [triggered EXCEPT ![w] = FALSE]
    /\ stale' = [stale EXCEPT ![w] = FALSE]
    /\ UNCHANGED <<yielded, numThreads, limitVars, stopVars, serviceVars>>
\* The thread ends: changeState(worker, 0).
ExitWorker(w) ==
    /\ pc[w] = "exit"
    /\ pc' = [pc EXCEPT ![w] = "off"]
    /\ state' = [state EXCEPT ![w] = "none"]
    /\ proc' = [proc EXCEPT ![w] = None]
    /\ triggered' = [triggered EXCEPT ![w] = FALSE]
    /\ stale' = [stale EXCEPT ![w] = FALSE]
    /\ numThreads' = numThreads - 1
    /\ UNCHANGED <<yielded, limitVars, stopVars, serviceVars>>

\* MPR_TIMEOUT_WORKER passes while the worker is idle.
GrowStale(w) ==
    /\ state[w] = "idle" /\ ~stale[w]
    /\ stale' = [stale EXCEPT ![w] = TRUE]
    /\ UNCHANGED <<pc, state, proc, triggered, yielded, numThreads,
                   limitVars, stopVars, serviceVars>>

-----------------------------------------------------------------------------
(* Shutdown. *)

\* mprTerminate sets the flag; its terminators run before it wakes the workers.
Terminate ==
    /\ ~stopping
    /\ stopping' = TRUE
    /\ UNCHANGED <<workerVars, numThreads, limitVars, wakes, serviceVars>>

\* mprWakeWorkers, called by mprTerminate and again by mprDestroy.
WakeWorkers ==
    /\ stopping /\ wakes < 2
    /\ wakes' = wakes + 1
    /\ LeaveIdle(In("idle"), "busy")
    /\ UNCHANGED <<pc, proc, yielded, stale, numThreads, limitVars, stopping, serviceVars>>

-----------------------------------------------------------------------------
WorkerStep(w) ==
    \/ LoopTest(w) \/ LookForJob(w) \/ FinishJob(w) \/ CheckStopping(w)
    \/ ClearJob(w) \/ Park(w) \/ WakeUp(w) \/ ExitWorker(w)

ServiceStep == \/ \E j \in Jobs : RetryJob(j)
               \/ ServiceSleeps

Next ==
    \/ \E n \in Limits : SetMinWorkers(n) \/ SetMaxWorkers(n)
    \/ \E j \in Jobs : SubmitJob(j)
    \/ ServiceStep
    \/ PruneWorkers
    \/ \E w \in Workers : \/ WorkerStep(w) \/ GrowStale(w)
                          \/ \E blocks \in BOOLEAN : Yield(w, blocks)
    \/ Terminate \/ WakeWorkers

Spec == Init /\ [][Next]_vars

\* Every thread keeps running, every job ends, although it may block now and then.
Fairness ==
    /\ WF_vars(ServiceStep)
    /\ \A w \in Workers : /\ WF_vars(WorkerStep(w))
                          /\ WF_vars(Yield(w, FALSE))
                          /\ SF_vars(FinishJob(w))
FairSpec == Spec /\ Fairness

-----------------------------------------------------------------------------
(* Properties. *)

WorkerPcs == {"off", "loop", "proc", "run", "after", "clear", "park", "wait", "exit"}

Live == {w \in Workers : pc[w] # "off"}

\* Every variable has the type of the field it stands for, and ws->numThreads
\* counts the threads there are.
TypeOK ==
    /\ pc \in [Workers -> WorkerPcs]
    /\ state \in [Workers -> {"none", "busy", "idle", "pruned"}]
    /\ proc \in [Workers -> Jobs \cup {None}]
    /\ triggered \in [Workers -> BOOLEAN]
    /\ yielded \in [Workers -> BOOLEAN]
    /\ stale \in [Workers -> BOOLEAN]
    /\ numThreads = Cardinality(Live) /\ minThreads \in Nat /\ maxThreads \in Nat
    /\ stopping \in BOOLEAN /\ wakes \in 0..2
    /\ status \in [Jobs -> {"new", "pending", "given", "done"}]
    /\ awake \in BOOLEAN

\* Worker w has job j and will run it: it is on its way to the call, or it is
\* parked and its condition is signalled.
WillRun(w, j) ==
    /\ proc[w] = j /\ state[w] = "busy"
    /\ pc[w] \in {"loop", "proc", "run"} \/ (pc[w] = "wait" /\ triggered[w])

\* A job that mprStartWorker accepted is run, and run once: until it is done
\* exactly one worker has it, and that worker will run it, whatever pruning,
\* parking and shutdown do meanwhile.
NoLostJob ==
    \A j \in Jobs : status[j] = "given" =>
        \E w \in Workers : /\ WillRun(w, j)
                           /\ \A v \in Workers \ {w} : proc[v] = j => pc[v] # "run"

\* A job is not run again: a worker never calls the function of a job that is done.
JobRunsOnce == \A w \in Workers : pc[w] = "run" => status[proc[w]] = "given"

\* The service thread does not sleep on a pending dispatcher that a worker is
\* available for, unless a job that blocks has made the worker available: no
\* wakeup announces that.
PendingNotStalled ==
    With("pending") # {} /\ ~awake /\ ~stopping =>
        AvailableWorkers <= 0 \/ \E w \in Workers : yielded[w]

\* A job the pool accepted is done in the end; one it refused is done too,
\* unless the program stops first.
JobsServed ==
    \A j \in Jobs : /\ status[j] = "given" ~> status[j] = "done"
                    /\ status[j] = "pending" ~> status[j] = "done" \/ stopping

=============================================================================
