-------------------------- MODULE WorkerPoolProofs --------------------------
(***************************************************************************)
(* Proofs about the worker pool, for any number of workers, jobs and       *)
(* processors.  That no job is lost and none runs twice is proved for      *)
(* condition variables that return only when they are signalled; the types *)
(* and the service of pending dispatchers do not need it.                  *)
(***************************************************************************)
EXTENDS WorkerPool, FiniteSetTheorems, TLAPS

\* What is known of one worker: where it is in its loop ties down its state,
\* its job and its condition.
WorkerInv(w) ==
    /\ pc[w] = "off" <=> state[w] = "none"
    /\ pc[w] = "off" => proc[w] = None
    /\ state[w] = "idle" => pc[w] = "wait" /\ proc[w] = None
    /\ state[w] = "pruned" => pc[w] \in {"wait", "loop", "exit"} /\ proc[w] = None
    /\ triggered[w] <=> pc[w] = "wait" /\ state[w] # "idle"
    /\ pc[w] = "park" => proc[w] = None
    /\ pc[w] = "run" => proc[w] # None
    /\ proc[w] # None =>
          status[proc[w]] = IF pc[w] \in {"after", "clear", "exit"} THEN "done" ELSE "given"

\* Each job that is given is at one worker, and no two workers have one job.
JobInv ==
    /\ \A j \in Jobs : status[j] = "given" => \E w \in Workers : proc[w] = j
    /\ \A v, w \in Workers : proc[v] = proc[w] /\ proc[w] # None => v = w

PoolInv == TypeOK /\ JobInv /\ \A w \in Workers : WorkerInv(w)

-----------------------------------------------------------------------------
\* The set of the workers that have a thread is finite, and its size follows
\* the creation and the end of threads.
LEMMA LiveGrows ==
    ASSUME NEW W \in SUBSET Workers, NEW j,
           TypeOK, CreateWorkers(W, j)
    PROVE  numThreads' = Cardinality(Live')
<1>1. IsFiniteSet(Live) /\ IsFiniteSet(W)
  BY WorkerPoolAssumption, FS_Subset DEF WorkerPoolAssumption, Live
<1>2. Live \cap W = {}
  BY DEF CreateWorkers, Live
<1>3. Live' = Live \cup W
  BY DEF CreateWorkers, Live, TypeOK
<1>4. Cardinality(Live \cup W) = Cardinality(Live) + Cardinality(W) - Cardinality(Live \cap W)
  BY <1>1, FS_Union
<1>5. Cardinality(Live \cap W) = 0 /\ Cardinality(Live) \in Nat /\ Cardinality(W) \in Nat
  BY <1>1, <1>2, FS_EmptySet, FS_CardinalityType
<1> QED
  BY <1>3, <1>4, <1>5 DEF CreateWorkers, TypeOK

\* The count follows the end of a thread.
LEMMA LiveShrinks ==
    ASSUME NEW w \in Workers, TypeOK, ExitWorker(w)
    PROVE  numThreads' = Cardinality(Live')
<1>1. IsFiniteSet(Live)
  BY WorkerPoolAssumption, FS_Subset DEF WorkerPoolAssumption, Live
<1>2. w \in Live /\ Live' = Live \ {w}
  BY DEF ExitWorker, Live, TypeOK
<1>3. Cardinality(Live \ {w}) = Cardinality(Live) - 1
  BY <1>1, <1>2, FS_RemoveElement
<1> QED
  BY <1>2, <1>3 DEF ExitWorker, TypeOK

\* A worker that goes on in its loop keeps its thread.
LEMMA LiveSame ==
    ASSUME TypeOK, numThreads' = numThreads,
           \A w \in Workers : (pc[w] = "off") <=> (pc[w] = "off")'
    PROVE  numThreads' = Cardinality(Live')
<1>1. Live' = Live
  BY DEF Live
<1> QED
  BY <1>1 DEF TypeOK

-----------------------------------------------------------------------------
\* A pool that has just been created satisfies the invariant.
LEMMA PoolStart == Init => PoolInv
<1> SUFFICES ASSUME Init PROVE PoolInv
  OBVIOUS
<1>1. Live = {}
  BY DEF Init, Live
<1>2. TypeOK
  <2>1. Cardinality(Live) = 0
    BY <1>1, FS_EmptySet
  <2>2. DefaultMax \in Nat
    BY WorkerPoolAssumption, FS_CardinalityType DEF WorkerPoolAssumption
  <2>3. /\ triggered \in [Workers -> BOOLEAN]
        /\ yielded \in [Workers -> BOOLEAN]
        /\ stale \in [Workers -> BOOLEAN]
    BY Zenon DEF Init
  <2>4. /\ pc \in [Workers -> WorkerPcs]
        /\ state \in [Workers -> {"none", "busy", "idle", "pruned"}]
        /\ proc \in [Workers -> Jobs \cup {None}]
        /\ status \in [Jobs -> {"new", "pending", "given", "done"}]
    BY DEF Init, WorkerPcs
  <2>5. /\ wakes \in 0..2 /\ numThreads = Cardinality(Live)
        /\ minThreads \in Nat /\ maxThreads \in Nat
    BY <2>1, <2>2, SMT DEF Init
  <2>6. stopping \in BOOLEAN /\ awake \in BOOLEAN
    BY DEF Init
  <2> QED
    BY <2>3, <2>4, <2>5, <2>6, Zenon DEF TypeOK
<1>3. JobInv
  BY DEF Init, JobInv
<1>4. ASSUME NEW w \in Workers PROVE WorkerInv(w)
  BY <1>4 DEF Init, WorkerInv
<1> QED
  BY <1>2, <1>3, <1>4 DEF PoolInv

\* Only worker w moves, and no job.
Frame(w) ==
    /\ proc' = proc /\ status' = status
    /\ \A v \in Workers \ {w} : /\ pc'[v] = pc[v] /\ state'[v] = state[v]
                                /\ triggered'[v] = triggered[v]

\* When one worker moves, the invariant of the others is kept.
LEMMA FrameSuffices ==
    ASSUME NEW w \in Workers, PoolInv, Frame(w), TypeOK', WorkerInv(w)'
    PROVE  PoolInv'
<1>1. JobInv'
  BY DEF PoolInv, Frame, JobInv
<1>2. ASSUME NEW v \in Workers \ {w} PROVE WorkerInv(v)'
  BY <1>2 DEF PoolInv, Frame, WorkerInv
<1> QED
  BY <1>1, <1>2 DEF PoolInv

\* The steps of a worker that touch no job.
LEMMA LoopSteps ==
    ASSUME NEW w \in Workers, PoolInv, ~Spurious,
           LoopTest(w) \/ LookForJob(w) \/ CheckStopping(w) \/ Park(w) \/ WakeUp(w)
              \/ GrowStale(w) \/ \E b \in BOOLEAN : Yield(w, b)
    PROVE  PoolInv'
<1> USE DEF PoolInv
<1>1. CASE LoopTest(w)
  <2>1. Frame(w)
    BY <1>1 DEF LoopTest, TypeOK, Frame, serviceVars
  <2>2. TypeOK' /\ WorkerInv(w)'
    <3>1. numThreads' = Cardinality(Live')
      BY <1>1, LiveSame DEF LoopTest, TypeOK
    <3> QED
      BY <1>1, <3>1 DEF LoopTest, TypeOK, WorkerPcs, WorkerInv, limitVars, stopVars, serviceVars
  <2> QED
    BY <2>1, <2>2, FrameSuffices
<1>2. CASE LookForJob(w)
  <2>1. Frame(w)
    BY <1>2 DEF LookForJob, TypeOK, Frame, serviceVars
  <2>2. TypeOK' /\ WorkerInv(w)'
    <3>1. numThreads' = Cardinality(Live')
      BY <1>2, LiveSame DEF LookForJob, TypeOK
    <3> QED
      BY <1>2, <3>1 DEF LookForJob, TypeOK, WorkerPcs, WorkerInv, limitVars, stopVars, serviceVars
  <2> QED
    BY <2>1, <2>2, FrameSuffices
<1>3. CASE CheckStopping(w)
  <2>1. Frame(w)
    BY <1>3 DEF CheckStopping, TypeOK, Frame, serviceVars
  <2>2. TypeOK' /\ WorkerInv(w)'
    <3>1. numThreads' = Cardinality(Live')
      BY <1>3, LiveSame DEF CheckStopping, TypeOK
    <3> QED
      BY <1>3, <3>1 DEF CheckStopping, TypeOK, WorkerPcs, WorkerInv, limitVars, stopVars, serviceVars
  <2> QED
    BY <2>1, <2>2, FrameSuffices
<1>4. CASE Park(w)
  <2>1. Frame(w)
    BY <1>4 DEF Park, TypeOK, Frame, serviceVars
  <2>2. TypeOK' /\ WorkerInv(w)'
    <3>1. numThreads' = Cardinality(Live')
      BY <1>4, LiveSame DEF Park, TypeOK
    <3> QED
      BY <1>4, <3>1 DEF Park, TypeOK, WorkerPcs, WorkerInv, limitVars, stopVars
  <2> QED
    BY <2>1, <2>2, FrameSuffices
<1>5. CASE WakeUp(w)
  <2>1. Frame(w)
    BY <1>5 DEF WakeUp, TypeOK, Frame, serviceVars
  <2>2. TypeOK' /\ WorkerInv(w)'
    <3>1. numThreads' = Cardinality(Live')
      BY <1>5, LiveSame DEF WakeUp, TypeOK
    <3> QED
      BY <1>5, <3>1 DEF WakeUp, TypeOK, WorkerPcs, WorkerInv, limitVars, stopVars, serviceVars
  <2> QED
    BY <2>1, <2>2, FrameSuffices
<1>6. CASE GrowStale(w) \/ \E b \in BOOLEAN : Yield(w, b)
  <2>1. Frame(w) /\ UNCHANGED <<pc, state, proc, triggered, status, numThreads>>
    BY <1>6 DEF GrowStale, Yield, serviceVars, Frame
  <2>2. TypeOK' /\ WorkerInv(w)'
    <3>1. numThreads' = Cardinality(Live')
      BY <2>1, LiveSame
    <3>2. TypeOK'
      BY <1>6, <2>1, <3>1 DEF GrowStale, Yield, TypeOK, limitVars, stopVars, serviceVars
    <3> QED
      BY <2>1, <3>2 DEF WorkerInv
  <2> QED
    BY <2>1, <2>2, FrameSuffices
<1> QED
  BY <1>1, <1>2, <1>3, <1>4, <1>5, <1>6

-----------------------------------------------------------------------------
\* The steps that change a job.
LEMMA FinishKeeps ==
    ASSUME NEW w \in Workers, PoolInv, FinishJob(w)
    PROVE  PoolInv'
<1> USE DEF PoolInv
<1>1. proc[w] \in Jobs /\ status[proc[w]] = "given" /\ state[w] = "busy"
  BY DEF FinishJob, WorkerInv, TypeOK, WorkerPcs
<1>2. numThreads' = Cardinality(Live')
  BY LiveSame DEF FinishJob, TypeOK
<1>3. TypeOK'
  BY <1>1, <1>2 DEF FinishJob, TypeOK, WorkerPcs, limitVars, stopVars
<1>4. JobInv'
  BY <1>1 DEF FinishJob, JobInv, TypeOK
<1>5. WorkerInv(w)'
  BY <1>1 DEF FinishJob, WorkerInv, TypeOK
<1>6. ASSUME NEW v \in Workers \ {w} PROVE WorkerInv(v)'
  <2>1. proc[v] # proc[w]
    BY <1>1, <1>6, WorkerPoolAssumption DEF JobInv, WorkerPoolAssumption
  <2> QED
    BY <1>6, <2>1 DEF FinishJob, WorkerInv, TypeOK
<1> QED
  BY <1>3, <1>4, <1>5, <1>6

\* A worker clears the job it has done.
LEMMA ClearKeeps ==
    ASSUME NEW w \in Workers, PoolInv, ClearJob(w)
    PROVE  PoolInv'
<1> USE DEF PoolInv
<1>1. proc[w] # None => status[proc[w]] = "done"
  BY DEF ClearJob, WorkerInv
<1>2. numThreads' = Cardinality(Live')
  BY LiveSame DEF ClearJob, TypeOK
<1>3. TypeOK'
  BY <1>2 DEF ClearJob, TypeOK, WorkerPcs, limitVars, stopVars, serviceVars
<1>4. JobInv'
  <2>1. ASSUME NEW j \in Jobs, status[j] = "given" PROVE \E v \in Workers : proc'[v] = j
    <3>1. PICK v \in Workers : proc[v] = j
      BY <2>1 DEF JobInv
    <3>2. v # w
      BY <1>1, <2>1, <3>1, WorkerPoolAssumption DEF WorkerPoolAssumption
    <3> QED
      BY <3>1, <3>2 DEF ClearJob, TypeOK
  <2>2. \A v \in Workers : proc'[v] # None => proc'[v] = proc[v]
    BY DEF ClearJob, TypeOK
  <2> QED
    BY <2>1, <2>2 DEF JobInv, ClearJob, serviceVars
<1>5. ASSUME NEW v \in Workers PROVE WorkerInv(v)'
  BY <1>5 DEF ClearJob, WorkerInv, TypeOK, serviceVars
<1> QED
  BY <1>3, <1>4, <1>5

\* A worker whose thread ends has no job to lose.
LEMMA ExitKeeps ==
    ASSUME NEW w \in Workers, PoolInv, ExitWorker(w)
    PROVE  PoolInv'
<1> USE DEF PoolInv
<1>1. proc[w] # None => status[proc[w]] = "done"
  BY DEF ExitWorker, WorkerInv
<1>2. numThreads' = Cardinality(Live')
  BY LiveShrinks
<1>3. TypeOK'
  BY <1>2 DEF ExitWorker, TypeOK, WorkerPcs, limitVars, stopVars, serviceVars
<1>4. JobInv'
  <2>1. ASSUME NEW j \in Jobs, status[j] = "given" PROVE \E v \in Workers : proc'[v] = j
    <3>1. PICK v \in Workers : proc[v] = j
      BY <2>1 DEF JobInv
    <3>2. v # w
      BY <1>1, <2>1, <3>1, WorkerPoolAssumption DEF WorkerPoolAssumption
    <3> QED
      BY <3>1, <3>2 DEF ExitWorker, TypeOK
  <2>2. \A v \in Workers : proc'[v] # None => proc'[v] = proc[v]
    BY DEF ExitWorker, TypeOK
  <2> QED
    BY <2>1, <2>2 DEF JobInv, ExitWorker, serviceVars
<1>5. ASSUME NEW v \in Workers PROVE WorkerInv(v)'
  BY <1>5 DEF ExitWorker, WorkerInv, TypeOK, serviceVars
<1> QED
  BY <1>3, <1>4, <1>5

\* Idle workers that leave the idle list without a job: pruned, or woken to stop.
LEMMA LeaveIdleKeeps ==
    ASSUME PoolInv, NEW W \in SUBSET In("idle"), NEW s \in {"busy", "pruned"},
           LeaveIdle(W, s),
           UNCHANGED <<pc, proc, yielded, stale, numThreads, status>>,
           minThreads' \in Nat, maxThreads' \in Nat,
           awake' \in BOOLEAN, stopping' \in BOOLEAN, wakes' \in 0..2
    PROVE  PoolInv'
<1> USE DEF PoolInv
<1>1. W \subseteq Workers /\ \A w \in W : pc[w] = "wait" /\ proc[w] = None /\ state[w] = "idle"
  BY DEF In, WorkerInv
<1>2. numThreads' = Cardinality(Live')
  BY LiveSame
<1>3. TypeOK'
  BY <1>1, <1>2 DEF LeaveIdle, TypeOK
<1>4. JobInv'
  BY DEF JobInv
<1>5. ASSUME NEW v \in Workers PROVE WorkerInv(v)'
  <2>1. state'[v] = IF v \in W THEN s ELSE state[v]
    BY <1>5 DEF LeaveIdle
  <2>2. triggered'[v] = (triggered[v] \/ v \in W)
    BY <1>5 DEF LeaveIdle
  <2> QED
    BY ZenonT(40), <1>1, <1>5, <2>1, <2>2 DEF WorkerInv
<1> QED
  BY <1>3, <1>4, <1>5

\* mprStartWorker accepts a job.
LEMMA GiveKeeps ==
    ASSUME PoolInv, NEW j \in Jobs, status[j] \in {"new", "pending"},
           TakeIdle(j) \/ TakeNew(j),
           status' = [status EXCEPT ![j] = "given"],
           awake' \in BOOLEAN, UNCHANGED <<limitVars, stopVars>>
    PROVE  PoolInv'
<1> USE DEF PoolInv
<1>1. \A v \in Workers : proc[v] # j
  BY WorkerPoolAssumption DEF WorkerInv, WorkerPoolAssumption
<1>2. PICK w \in Workers :
          /\ proc[w] = None
          /\ proc' = [v \in Workers |-> IF v = w THEN j ELSE proc[v]]
          /\ state' = [v \in Workers |-> IF v = w THEN "busy" ELSE state[v]]
          /\ \/ /\ pc[w] = "wait" /\ pc' = pc
                /\ triggered' = [v \in Workers |-> triggered[v] \/ v = w]
             \/ /\ pc[w] = "off"
                /\ pc' = [v \in Workers |-> IF v = w THEN "loop" ELSE pc[v]]
                /\ triggered' = [v \in Workers |-> triggered[v] /\ v # w]
          /\ UNCHANGED <<yielded, stale>>
          /\ numThreads' = Cardinality(Live')
  <2>1. CASE TakeIdle(j)
    <3>1. PICK w \in In("idle") : /\ LeaveIdle({w}, "busy")
                                 /\ proc' = [proc EXCEPT ![w] = j]
                                 /\ UNCHANGED <<pc, yielded, stale, numThreads>>
      BY <2>1 DEF TakeIdle
    <3>2. w \in Workers /\ pc[w] = "wait" /\ proc[w] = None
      BY <3>1 DEF In, WorkerInv
    <3>3. numThreads' = Cardinality(Live')
      BY <3>1, LiveSame
    <3>4. proc' = [v \in Workers |-> IF v = w THEN j ELSE proc[v]]
      BY <3>1, <3>2 DEF TypeOK
    <3>5. /\ state' = [v \in Workers |-> IF v = w THEN "busy" ELSE state[v]]
          /\ triggered' = [v \in Workers |-> triggered[v] \/ v = w]
      BY <3>1 DEF LeaveIdle
    <3> QED
      BY <3>1, <3>2, <3>3, <3>4, <3>5
  <2>2. CASE TakeNew(j)
    <3>1. PICK w \in Workers : CreateWorkers({w}, j)
      BY <2>2 DEF TakeNew
    <3>2. numThreads' = Cardinality(Live')
      BY <3>1, LiveGrows
    <3>3. pc[w] = "off" /\ proc[w] = None
      BY <3>1 DEF CreateWorkers, WorkerInv
    <3>4. /\ proc' = [v \in Workers |-> IF v = w THEN j ELSE proc[v]]
          /\ state' = [v \in Workers |-> IF v = w THEN "busy" ELSE state[v]]
          /\ pc' = [v \in Workers |-> IF v = w THEN "loop" ELSE pc[v]]
          /\ triggered' = [v \in Workers |-> triggered[v] /\ v # w]
          /\ UNCHANGED <<yielded, stale>>
      BY <3>1 DEF CreateWorkers
    <3> QED
      BY <3>2, <3>3, <3>4
  <2> QED
    BY <2>1, <2>2
<1>3. TypeOK'
  <2>1. pc' \in [Workers -> WorkerPcs]
    BY <1>2 DEF TypeOK, WorkerPcs
  <2>2. triggered' \in [Workers -> BOOLEAN]
    BY <1>2 DEF TypeOK
  <2>3. proc' \in [Workers -> Jobs \cup {None}] /\ state' \in [Workers -> {"none", "busy", "idle", "pruned"}]
    BY <1>2 DEF TypeOK
  <2> QED
    BY <1>2, <2>1, <2>2, <2>3 DEF TypeOK, limitVars, stopVars
<1>4. JobInv'
  <2>1. ASSUME NEW i \in Jobs, status'[i] = "given" PROVE \E v \in Workers : proc'[v] = i
    <3>1. CASE i = j
      BY <1>2, <3>1
    <3>2. CASE i # j
      <4>1. PICK v \in Workers : proc[v] = i
        BY <2>1, <3>2 DEF JobInv, TypeOK
      <4>2. v # w
        BY <1>2, <2>1, <4>1, WorkerPoolAssumption DEF WorkerPoolAssumption
      <4> QED
        BY <1>2, <4>1, <4>2
    <3> QED
      BY <3>1, <3>2
  <2>2. ASSUME NEW u \in Workers, NEW v \in Workers, proc'[u] = proc'[v], proc'[u] # None
        PROVE  u = v
    BY <1>1, <1>2, <2>2 DEF JobInv
  <2> QED
    BY <2>1, <2>2 DEF JobInv
<1>5. WorkerInv(w)'
  <2>1. proc'[w] = j /\ state'[w] = "busy" /\ status'[j] = "given"
    BY <1>2 DEF TypeOK
  <2>2. CASE pc[w] = "wait"
    <3>1. pc'[w] = "wait" /\ triggered'[w]
      BY <1>2, <2>2
    <3> QED
      BY <2>1, <3>1 DEF WorkerInv
  <2>3. CASE pc[w] = "off"
    <3>1. pc'[w] = "loop" /\ ~triggered'[w]
      BY <1>2, <2>3
    <3> QED
      BY <2>1, <3>1 DEF WorkerInv
  <2> QED
    BY <1>2, <2>2, <2>3
<1>6. ASSUME NEW v \in Workers \ {w} PROVE WorkerInv(v)'
  <2>1. pc'[v] = pc[v] /\ state'[v] = state[v] /\ proc'[v] = proc[v] /\ triggered'[v] = triggered[v]
    BY <1>2, <1>6 DEF TypeOK
  <2>2. proc[v] # None => status'[proc[v]] = status[proc[v]]
    BY <1>1, <1>6 DEF TypeOK
  <2> QED
    BY <1>6, <2>1, <2>2 DEF WorkerInv
<1> QED
  BY <1>3, <1>4, <1>5, <1>6

-----------------------------------------------------------------------------
\* Every step preserves the invariant of the pool.
LEMMA PoolStep ==
    ASSUME ~Spurious, PoolInv, [Next]_vars
    PROVE  PoolInv'
<1> USE DEF PoolInv
<1>1. ASSUME NEW n \in Limits, SetMinWorkers(n) PROVE PoolInv'
  <2>1. PICK W \in SUBSET Workers : CreateWorkers(W, None)
    BY <1>1 DEF SetMinWorkers
  <2>2. numThreads' = Cardinality(Live')
    BY <2>1, LiveGrows
  <2>3. n \in Nat
    BY WorkerPoolAssumption, FS_CardinalityType DEF WorkerPoolAssumption
  <2>4. \A w \in W : pc[w] = "off" /\ proc[w] = None
    BY <2>1 DEF CreateWorkers, WorkerInv
  <2>5. TypeOK'
    <3>1. triggered' \in [Workers -> BOOLEAN]
      BY <2>1 DEF CreateWorkers
    <3>2. /\ pc' \in [Workers -> WorkerPcs]
          /\ state' \in [Workers -> {"none", "busy", "idle", "pruned"}]
          /\ proc' \in [Workers -> Jobs \cup {None}]
      BY <2>1 DEF CreateWorkers, TypeOK, WorkerPcs
    <3> QED
      BY <1>1, <2>1, <2>2, <2>3, <3>1, <3>2
         DEF SetMinWorkers, CreateWorkers, TypeOK, stopVars, serviceVars
  <2>6. \A w \in Workers : proc'[w] = proc[w]
    BY <2>1, <2>4 DEF CreateWorkers
  <2>7. JobInv'
    BY <1>1, <2>6 DEF JobInv, SetMinWorkers, serviceVars
  <2>8. ASSUME NEW w \in Workers PROVE WorkerInv(w)'
    <3>1. /\ state'[w] = IF w \in W THEN "busy" ELSE state[w]
          /\ pc'[w] = IF w \in W THEN "loop" ELSE pc[w]
          /\ triggered'[w] = (triggered[w] /\ w \notin W)
      BY <2>1, <2>8 DEF CreateWorkers
    <3>2. status' = status
      BY <1>1 DEF SetMinWorkers, serviceVars
    <3>3. WorkerInv(w) /\ proc'[w] = proc[w]
      BY <2>6, <2>8
    <3>4. CASE w \in W
      <4>1. state'[w] = "busy" /\ pc'[w] = "loop" /\ ~triggered'[w] /\ proc'[w] = None
        BY <2>4, <3>1, <3>3, <3>4
      <4> QED
        BY <4>1 DEF WorkerInv
    <3>5. CASE w \notin W
      <4>1. state'[w] = state[w] /\ pc'[w] = pc[w] /\ triggered'[w] = triggered[w]
        BY <3>1, <3>5, <2>8 DEF TypeOK
      <4> QED
        BY <3>2, <3>3, <4>1 DEF WorkerInv
    <3> QED
      BY <3>4, <3>5
  <2> QED
    BY <2>5, <2>7, <2>8
<1>2. ASSUME NEW n \in Limits, SetMaxWorkers(n) PROVE PoolInv'
  <2>1. PICK W \in SUBSET In("idle") : LeaveIdle(W, "pruned") /\ awake' = (awake \/ W # {})
    BY <1>2 DEF SetMaxWorkers, Prunable
  <2>2. n \in Nat
    BY WorkerPoolAssumption, FS_CardinalityType DEF WorkerPoolAssumption
  <2> QED
    BY <1>2, <2>1, <2>2, LeaveIdleKeeps DEF SetMaxWorkers, TypeOK, stopVars
<1>3. ASSUME PruneWorkers PROVE PoolInv'
  <2>1. Prunable \in SUBSET In("idle")
    BY DEF Prunable
  <2> QED
    BY <1>3, <2>1, LeaveIdleKeeps DEF PruneWorkers, TypeOK, limitVars, stopVars
<1>4. ASSUME WakeWorkers PROVE PoolInv'
  BY <1>4, LeaveIdleKeeps DEF WakeWorkers, TypeOK, limitVars, serviceVars
<1>5. ASSUME NEW j \in Jobs, SubmitJob(j) PROVE PoolInv'
  <2>1. CASE (TakeIdle(j) \/ TakeNew(j)) /\ status' = [status EXCEPT ![j] = "given"]
    BY <1>5, <2>1, GiveKeeps DEF SubmitJob
  <2>2. CASE /\ Refuses
             /\ status' = [status EXCEPT ![j] = "pending"]
             /\ UNCHANGED <<workerVars, numThreads>>
    <3>1. Live' = Live
      BY <2>2 DEF Live, workerVars
    <3>2. TypeOK'
      BY <1>5, <2>2, <3>1 DEF SubmitJob, TypeOK, workerVars, limitVars, stopVars
    <3>3. \A w \in Workers : proc[w] # j
      BY <1>5, WorkerPoolAssumption DEF SubmitJob, WorkerInv, WorkerPoolAssumption
    <3>4. JobInv'
      BY <1>5, <2>2 DEF SubmitJob, JobInv, TypeOK, workerVars
    <3>5. ASSUME NEW w \in Workers PROVE WorkerInv(w)'
      <4>1. proc[w] # None => status'[proc[w]] = status[proc[w]]
        BY <2>2, <3>3, <3>5 DEF TypeOK
      <4> QED
        BY <2>2, <3>5, <4>1 DEF WorkerInv, workerVars
    <3> QED
      BY <3>2, <3>4, <3>5
  <2> QED
    BY <1>5, <2>1, <2>2 DEF SubmitJob
<1>6. ASSUME NEW j \in Jobs, RetryJob(j) PROVE PoolInv'
  BY <1>6, GiveKeeps DEF RetryJob, TypeOK
<1>7. ASSUME ServiceSleeps \/ Terminate \/ UNCHANGED vars PROVE PoolInv'
  <2>1. UNCHANGED <<workerVars, numThreads, limitVars, status>>
    BY <1>7 DEF ServiceSleeps, Terminate, vars, serviceVars
  <2>2. Live' = Live
    BY <2>1 DEF Live, workerVars
  <2>3. stopping' \in BOOLEAN /\ awake' \in BOOLEAN /\ wakes' \in 0..2
    BY <1>7 DEF ServiceSleeps, Terminate, vars, serviceVars, stopVars, TypeOK
  <2> QED
    BY <2>1, <2>2, <2>3 DEF TypeOK, JobInv, WorkerInv, workerVars, limitVars
<1>8. ASSUME NEW w \in Workers, WorkerStep(w) PROVE PoolInv'
  BY <1>8, LoopSteps, FinishKeeps, ClearKeeps, ExitKeeps DEF WorkerStep
<1>9. ASSUME NEW w \in Workers, GrowStale(w) \/ \E b \in BOOLEAN : Yield(w, b) PROVE PoolInv'
  BY <1>9, LoopSteps
<1> QED
  BY <1>1, <1>2, <1>3, <1>4, <1>5, <1>6, <1>7, <1>8, <1>9 DEF Next, ServiceStep

\* Every job that mprStartWorker accepted is at exactly one worker that will
\* run it, until it is done.
THEOREM JobsKept == ASSUME ~Spurious PROVE Spec => []NoLostJob
<1>1. PoolInv => NoLostJob
  <2> SUFFICES ASSUME PoolInv, NEW j \in Jobs, status[j] = "given"
               PROVE  \E w \in Workers : /\ WillRun(w, j)
                                         /\ \A v \in Workers \ {w} : proc[v] = j => pc[v] # "run"
    BY DEF NoLostJob
  <2>1. PICK w \in Workers : proc[w] = j
    BY DEF PoolInv, JobInv
  <2>2. j # None
    BY WorkerPoolAssumption DEF WorkerPoolAssumption
  <2>3. WillRun(w, j)
    BY <2>1, <2>2 DEF PoolInv, WorkerInv, TypeOK, WorkerPcs, WillRun
  <2>4. \A v \in Workers \ {w} : proc[v] # j
    BY <2>1, <2>2 DEF PoolInv, JobInv
  <2> QED
    BY <2>3, <2>4
<1> QED
  BY <1>1, PoolStart, PoolStep, PTL DEF Spec

\* No worker runs a job that is done.
THEOREM JobsOnce == ASSUME ~Spurious PROVE Spec => []JobRunsOnce
<1>1. PoolInv => JobRunsOnce
  BY DEF PoolInv, WorkerInv, JobRunsOnce
<1> QED
  BY <1>1, PoolStart, PoolStep, PTL DEF Spec

-----------------------------------------------------------------------------
(* What holds although condition variables return unsignalled: the types,   *)
(* the count of threads, and that no pending dispatcher is left waiting.    *)

\* No step takes a variable out of its type or loses count of the threads.
LEMMA TypesStep == ASSUME TypeOK, [Next]_vars PROVE TypeOK'
<1>1. ASSUME NEW n \in Limits, SetMinWorkers(n) PROVE TypeOK'
  <2>1. PICK W \in SUBSET Workers : CreateWorkers(W, None)
    BY <1>1 DEF SetMinWorkers
  <2>2. numThreads' = Cardinality(Live')
    BY <2>1, LiveGrows
  <2>3. n \in Nat
    BY WorkerPoolAssumption, FS_CardinalityType DEF WorkerPoolAssumption
  <2>4. triggered' \in [Workers -> BOOLEAN]
    BY <2>1 DEF CreateWorkers
  <2>5. /\ pc' \in [Workers -> WorkerPcs]
        /\ state' \in [Workers -> {"none", "busy", "idle", "pruned"}]
        /\ proc' \in [Workers -> Jobs \cup {None}]
    BY <2>1 DEF CreateWorkers, TypeOK, WorkerPcs
  <2> QED
    BY <1>1, <2>1, <2>2, <2>3, <2>4, <2>5
       DEF SetMinWorkers, CreateWorkers, TypeOK, stopVars, serviceVars
<1>2. ASSUME NEW W \in SUBSET Workers, NEW s \in {"busy", "pruned"}, LeaveIdle(W, s),
             UNCHANGED <<pc, proc, yielded, stale, numThreads, status>>,
             minThreads' \in Nat, maxThreads' \in Nat,
             awake' \in BOOLEAN, stopping' \in BOOLEAN, wakes' \in 0..2
      PROVE  TypeOK'
  <2>1. numThreads' = Cardinality(Live')
    BY <1>2, LiveSame
  <2>2. triggered' \in [Workers -> BOOLEAN]
    BY <1>2 DEF LeaveIdle
  <2>3. state' \in [Workers -> {"none", "busy", "idle", "pruned"}]
    BY <1>2 DEF LeaveIdle, TypeOK
  <2> QED
    BY <1>2, <2>1, <2>2, <2>3 DEF TypeOK
<1>3. ASSUME NEW n \in Limits, SetMaxWorkers(n) PROVE TypeOK'
  <2>1. PICK W \in SUBSET Workers : LeaveIdle(W, "pruned") /\ awake' = (awake \/ W # {})
    BY <1>3 DEF SetMaxWorkers, Prunable, In
  <2>2. n \in Nat
    BY WorkerPoolAssumption, FS_CardinalityType DEF WorkerPoolAssumption
  <2> QED
    BY <1>2, <1>3, <2>1, <2>2 DEF SetMaxWorkers, TypeOK, stopVars
<1>4. ASSUME PruneWorkers PROVE TypeOK'
  <2>1. Prunable \in SUBSET Workers
    BY DEF Prunable, In
  <2> QED
    BY <1>2, <1>4, <2>1 DEF PruneWorkers, TypeOK, limitVars, stopVars
<1>5. ASSUME WakeWorkers PROVE TypeOK'
  <2>1. In("idle") \in SUBSET Workers
    BY DEF In
  <2> QED
    BY <1>2, <1>5, <2>1 DEF WakeWorkers, TypeOK, limitVars, serviceVars
<1>6. ASSUME NEW j \in Jobs, TakeIdle(j) \/ TakeNew(j),
             status' = [status EXCEPT ![j] = "given"],
             awake' \in BOOLEAN, UNCHANGED <<limitVars, stopVars>>
      PROVE  TypeOK'
  <2>1. CASE TakeIdle(j)
    <3>1. PICK w \in In("idle") : /\ LeaveIdle({w}, "busy")
                                 /\ proc' = [proc EXCEPT ![w] = j]
                                 /\ UNCHANGED <<pc, yielded, stale, numThreads>>
      BY <2>1 DEF TakeIdle
    <3>2. numThreads' = Cardinality(Live')
      BY <3>1, LiveSame
    <3>3. triggered' \in [Workers -> BOOLEAN]
      BY <3>1 DEF LeaveIdle
    <3>4. state' \in [Workers -> {"none", "busy", "idle", "pruned"}]
      BY <3>1 DEF LeaveIdle, TypeOK
    <3> QED
      BY <1>6, <3>1, <3>2, <3>3, <3>4 DEF TypeOK, limitVars, stopVars
  <2>2. CASE TakeNew(j)
    <3>1. PICK w \in Workers : CreateWorkers({w}, j)
      BY <2>2 DEF TakeNew
    <3>2. numThreads' = Cardinality(Live')
      BY <3>1, LiveGrows
    <3>3. triggered' \in [Workers -> BOOLEAN]
      BY <3>1 DEF CreateWorkers
    <3>4. /\ pc' \in [Workers -> WorkerPcs]
          /\ state' \in [Workers -> {"none", "busy", "idle", "pruned"}]
          /\ proc' \in [Workers -> Jobs \cup {None}]
          /\ UNCHANGED <<yielded, stale>>
      BY <3>1 DEF CreateWorkers, TypeOK, WorkerPcs
    <3> QED
      BY <1>6, <3>2, <3>3, <3>4 DEF TypeOK, limitVars, stopVars
  <2> QED
    BY <1>6, <2>1, <2>2
<1>7. ASSUME NEW j \in Jobs, SubmitJob(j) PROVE TypeOK'
  <2>1. CASE (TakeIdle(j) \/ TakeNew(j)) /\ status' = [status EXCEPT ![j] = "given"]
    BY <1>6, <1>7, <2>1 DEF SubmitJob
  <2>2. CASE /\ status' = [status EXCEPT ![j] = "pending"]
             /\ UNCHANGED <<workerVars, numThreads>>
    <3>1. Live' = Live
      BY <2>2 DEF Live, workerVars
    <3> QED
      BY <1>7, <2>2, <3>1 DEF SubmitJob, TypeOK, workerVars, limitVars, stopVars
  <2> QED
    BY <1>7, <2>1, <2>2 DEF SubmitJob
<1>8. ASSUME NEW j \in Jobs, RetryJob(j) PROVE TypeOK'
  BY <1>6, <1>8 DEF RetryJob, TypeOK
<1>9. ASSUME ServiceSleeps \/ Terminate \/ UNCHANGED vars PROVE TypeOK'
  <2>1. UNCHANGED <<workerVars, numThreads, limitVars, status>>
    BY <1>9 DEF ServiceSleeps, Terminate, vars, serviceVars
  <2>2. Live' = Live
    BY <2>1 DEF Live, workerVars
  <2>3. stopping' \in BOOLEAN /\ awake' \in BOOLEAN /\ wakes' \in 0..2
    BY <1>9 DEF ServiceSleeps, Terminate, vars, serviceVars, stopVars, TypeOK
  <2> QED
    BY <2>1, <2>2, <2>3 DEF TypeOK, workerVars, limitVars
<1>10. ASSUME NEW w \in Workers, WorkerStep(w) PROVE TypeOK'
  <2>1. CASE LoopTest(w) \/ LookForJob(w) \/ CheckStopping(w)
    <3>1. numThreads' = Cardinality(Live')
      BY <2>1, LiveSame DEF LoopTest, LookForJob, CheckStopping, TypeOK
    <3> QED
      BY <2>1, <3>1 DEF LoopTest, LookForJob, CheckStopping, TypeOK, WorkerPcs,
                        limitVars, stopVars, serviceVars
  <2>2. CASE FinishJob(w) \/ ClearJob(w)
    <3>1. numThreads' = Cardinality(Live')
      BY <2>2, LiveSame DEF FinishJob, ClearJob, TypeOK
    <3> QED
      BY <2>2, <3>1 DEF FinishJob, ClearJob, TypeOK, WorkerPcs,
                        limitVars, stopVars, serviceVars
  <2>3. CASE Park(w) \/ WakeUp(w)
    <3>1. numThreads' = Cardinality(Live')
      BY <2>3, LiveSame DEF Park, WakeUp, TypeOK
    <3> QED
      BY <2>3, <3>1 DEF Park, WakeUp, TypeOK, WorkerPcs, limitVars, stopVars, serviceVars
  <2>4. CASE ExitWorker(w)
    <3>1. numThreads' = Cardinality(Live')
      BY <2>4, LiveShrinks
    <3> QED
      BY <2>4, <3>1 DEF ExitWorker, TypeOK, WorkerPcs, limitVars, stopVars, serviceVars
  <2> QED
    BY <1>10, <2>1, <2>2, <2>3, <2>4 DEF WorkerStep
<1>11. ASSUME NEW w \in Workers, GrowStale(w) \/ \E b \in BOOLEAN : Yield(w, b) PROVE TypeOK'
  <2>1. numThreads' = Cardinality(Live')
    BY <1>11, LiveSame DEF GrowStale, Yield
  <2> QED
    BY <1>11, <2>1 DEF GrowStale, Yield, TypeOK, limitVars, stopVars, serviceVars
<1> QED
  BY <1>1, <1>3, <1>4, <1>5, <1>7, <1>8, <1>9, <1>10, <1>11 DEF Next, ServiceStep

\* The workers mprAvailableWorkers would count if no job had yielded.
AvailableIfRunning ==
    LET busy  == Cardinality(In("busy"))
        idle  == Cardinality(In("idle"))
        cores == NumCpu - busy
        spare == maxThreads - busy - idle
    IN  IF cores <= 0 THEN 0 ELSE idle + (IF spare < cores THEN spare ELSE cores)

\* The service thread sleeps on a pending dispatcher only while no worker is
\* available but for jobs that have yielded.  A worker that is about to end
\* was pruned, so its end frees no place, or the program stops.
StallInv ==
    /\ With("pending") # {} /\ ~awake /\ ~stopping => AvailableIfRunning <= 0
    /\ \A w \in Workers : pc[w] = "exit" => state[w] = "pruned" \/ stopping

\* A job that yields only adds to the workers that are available.
LEMMA YieldsAdd ==
    ASSUME TypeOK
    PROVE  /\ AvailableWorkers <= 0 => AvailableIfRunning <= 0
           /\ (\A w \in Workers : ~yielded[w]) => AvailableWorkers = AvailableIfRunning
<1> DEFINE busy == Cardinality(In("busy"))
           idle == Cardinality(In("idle"))
           blocked == Cardinality({w \in In("busy") : yielded[w]})
<1>1. busy \in Nat /\ idle \in Nat /\ blocked \in Nat
  <2>1. IsFiniteSet(In("busy")) /\ IsFiniteSet(In("idle"))
    BY WorkerPoolAssumption, FS_Subset DEF WorkerPoolAssumption, In
  <2>2. IsFiniteSet({w \in In("busy") : yielded[w]})
    BY <2>1, FS_Subset
  <2> QED
    BY <2>1, <2>2, FS_CardinalityType
<1>2. (\A w \in Workers : ~yielded[w]) => blocked = 0
  <2> SUFFICES ASSUME \A w \in Workers : ~yielded[w] PROVE blocked = 0
    OBVIOUS
  <2>1. {w \in In("busy") : yielded[w]} = {}
    BY DEF In
  <2> QED
    BY <2>1, FS_EmptySet
<1>3. NumCpu \in Nat /\ maxThreads \in Nat
  BY WorkerPoolAssumption DEF WorkerPoolAssumption, TypeOK
<1>4. AvailableWorkers =
        IF NumCpu - (busy - blocked) <= 0 THEN 0
        ELSE idle + (IF maxThreads - busy - idle < NumCpu - (busy - blocked)
                     THEN maxThreads - busy - idle ELSE NumCpu - (busy - blocked))
  BY DEF AvailableWorkers
<1>5. AvailableIfRunning =
        IF NumCpu - busy <= 0 THEN 0
        ELSE idle + (IF maxThreads - busy - idle < NumCpu - busy
                     THEN maxThreads - busy - idle ELSE NumCpu - busy)
  BY DEF AvailableIfRunning
<1> HIDE DEF busy, idle, blocked
<1>6. AvailableWorkers <= 0 => AvailableIfRunning <= 0
  BY <1>1, <1>3, <1>4, <1>5
<1>7. (\A w \in Workers : ~yielded[w]) => AvailableWorkers = AvailableIfRunning
  BY <1>1, <1>2, <1>3, <1>4, <1>5
<1> QED
  BY <1>6, <1>7

\* A step that leaves the busy and the idle workers as they are, and does not
\* put the service thread to sleep, keeps the invariant.
LEMMA StallFrame ==
    ASSUME StallInv, In("busy")' = In("busy"), In("idle")' = In("idle"),
           UNCHANGED <<maxThreads, stopping>>, With("pending")' \subseteq With("pending"),
           awake' = awake,
           \A w \in Workers : (pc[w] = "exit")' => (state[w] = "pruned" \/ stopping)'
    PROVE  StallInv'
<1>1. AvailableIfRunning' = AvailableIfRunning
  BY DEF AvailableIfRunning
<1> QED
  BY <1>1 DEF StallInv

\* Every step preserves the invariant.
LEMMA StallStep == ASSUME TypeOK, TypeOK', StallInv, [Next]_vars PROVE StallInv'
<1>1. ASSUME NEW n \in Limits, SetMinWorkers(n) \/ SetMaxWorkers(n) PROVE StallInv'
  <2>1. With("pending")' = {}
    BY <1>1 DEF SetMinWorkers, SetMaxWorkers, Configuring, With, serviceVars
  <2>2. ASSUME NEW w \in Workers, pc'[w] = "exit" PROVE state'[w] = "pruned" \/ stopping'
    BY <1>1, <2>2 DEF SetMinWorkers, SetMaxWorkers, CreateWorkers, LeaveIdle, Prunable,
                      In, StallInv, TypeOK, stopVars
  <2> QED
    BY <2>1, <2>2 DEF StallInv
<1>2. ASSUME awake', \A w \in Workers : (pc[w] = "exit")' => (state[w] = "pruned" \/ stopping)'
      PROVE  StallInv'
  BY <1>2 DEF StallInv
<1>3. ASSUME NEW j \in Jobs, TakeIdle(j) \/ TakeNew(j), stopping' = stopping
      PROVE  \A w \in Workers : (pc[w] = "exit")' => (state[w] = "pruned" \/ stopping)'
  <2> SUFFICES ASSUME NEW w \in Workers, pc'[w] = "exit" PROVE state'[w] = "pruned" \/ stopping'
    OBVIOUS
  <2>1. CASE TakeIdle(j)
    <3>1. PICK v \in In("idle") : LeaveIdle({v}, "busy") /\ pc' = pc
      BY <2>1 DEF TakeIdle
    <3>2. state'[w] = IF w = v THEN "busy" ELSE state[w]
      BY <3>1 DEF LeaveIdle
    <3>3. pc[w] = "exit" /\ state[v] = "idle"
      BY <3>1 DEF In
    <3>4. state[w] = "pruned" \/ stopping
      BY <3>3 DEF StallInv
    <3> QED
      BY <1>3, <3>2, <3>3, <3>4
  <2>2. CASE TakeNew(j)
    <3>1. PICK v \in Workers : CreateWorkers({v}, j)
      BY <2>2 DEF TakeNew
    <3>2. w # v /\ pc'[w] = pc[w] /\ state'[w] = state[w]
      BY <3>1 DEF CreateWorkers
    <3> QED
      BY <1>3, <3>2 DEF StallInv
  <2> QED
    BY <1>3, <2>1, <2>2
<1>4. ASSUME NEW j \in Jobs, SubmitJob(j) \/ RetryJob(j) PROVE StallInv'
  <2>1. awake' /\ stopping' = stopping
    BY <1>4 DEF SubmitJob, RetryJob, stopVars
  <2>2. CASE TakeIdle(j) \/ TakeNew(j)
    BY <1>2, <1>3, <2>1, <2>2
  <2>3. CASE UNCHANGED workerVars
    BY <1>2, <2>1, <2>3 DEF workerVars, StallInv
  <2> QED
    BY <1>4, <2>2, <2>3 DEF SubmitJob, RetryJob
<1>5. ASSUME ServiceSleeps PROVE StallInv'
  <2>1. AvailableIfRunning' = AvailableIfRunning /\ With("pending")' = With("pending")
    BY <1>5 DEF ServiceSleeps, AvailableIfRunning, In, With, workerVars, limitVars
  <2> QED
    BY <1>5, <2>1, YieldsAdd DEF ServiceSleeps, StallInv, workerVars, stopVars
<1>6. ASSUME PruneWorkers PROVE StallInv'
  <2>1. awake' /\ stopping' = stopping
    BY <1>6 DEF PruneWorkers, stopVars
  <2> QED
    BY <1>2, <1>6, <2>1 DEF PruneWorkers, Prunable, LeaveIdle, In, StallInv, TypeOK
<1>7. ASSUME Terminate \/ WakeWorkers PROVE StallInv'
  BY <1>7 DEF Terminate, WakeWorkers, StallInv
<1>8. ASSUME NEW w \in Workers, WorkerStep(w) PROVE StallInv'
  <2>1. CASE LoopTest(w) \/ LookForJob(w) \/ ClearJob(w) \/ WakeUp(w) \/ CheckStopping(w)
    <3>1. UNCHANGED <<state, limitVars, stopVars, serviceVars>>
      BY <2>1 DEF LoopTest, LookForJob, ClearJob, WakeUp, CheckStopping
    <3>2. \A v \in Workers : (pc[v] = "exit")' => (state[v] = "pruned" \/ stopping)'
      BY <2>1, <3>1 DEF LoopTest, LookForJob, ClearJob, WakeUp, CheckStopping,
                        TypeOK, StallInv, stopVars
    <3> QED
      BY <3>1, <3>2, StallFrame DEF In, With, limitVars, stopVars, serviceVars
  <2>2. CASE FinishJob(w)
    <3>1. UNCHANGED <<state, limitVars, stopVars, awake>>
      BY <2>2 DEF FinishJob
    <3>2. With("pending")' \subseteq With("pending")
      BY <2>2 DEF FinishJob, With, TypeOK
    <3>3. \A v \in Workers : (pc[v] = "exit")' => (state[v] = "pruned" \/ stopping)'
      BY <2>2, <3>1 DEF FinishJob, TypeOK, StallInv, stopVars
    <3> QED
      BY <3>1, <3>2, <3>3, StallFrame DEF In, limitVars, stopVars
  <2>3. CASE Park(w)
    <3>1. \A v \in Workers : (pc[v] = "exit")' => (state[v] = "pruned" \/ stopping)'
      BY <2>3 DEF Park, TypeOK, StallInv, stopVars
    <3>2. CASE state[w] = "idle"
      <4>1. state' = state /\ awake' = awake
        BY <2>3, <3>2 DEF Park, TypeOK
      <4> QED
        BY <2>3, <3>1, <4>1, StallFrame DEF Park, In, With, limitVars, stopVars
    <3>3. CASE state[w] # "idle"
      BY <1>2, <2>3, <3>1, <3>3 DEF Park
    <3> QED
      BY <3>2, <3>3
  <2>4. CASE ExitWorker(w)
    <3>1. \A v \in Workers : (pc[v] = "exit")' => (state[v] = "pruned" \/ stopping)'
      BY <2>4 DEF ExitWorker, TypeOK, StallInv, stopVars
    <3>2. CASE state[w] = "pruned"
      <4>1. In("busy")' = In("busy") /\ In("idle")' = In("idle")
        BY <2>4, <3>2 DEF ExitWorker, In, TypeOK
      <4> QED
        BY <2>4, <3>1, <4>1, StallFrame DEF ExitWorker, With, limitVars, stopVars, serviceVars
    <3>3. CASE stopping
      BY <2>4, <3>1, <3>3 DEF ExitWorker, StallInv, stopVars
    <3> QED
      BY <2>4, <3>2, <3>3 DEF ExitWorker, StallInv
  <2> QED
    BY <1>8, <2>1, <2>2, <2>3, <2>4 DEF WorkerStep
<1>9. ASSUME UNCHANGED <<pc, state, limitVars, stopVars, serviceVars>> PROVE StallInv'
  BY <1>9, StallFrame DEF In, With, StallInv, limitVars, stopVars, serviceVars
<1>10. ASSUME NEW w \in Workers, GrowStale(w) \/ \E b \in BOOLEAN : Yield(w, b) PROVE StallInv'
  BY <1>9, <1>10 DEF GrowStale, Yield
<1>11. ASSUME UNCHANGED vars PROVE StallInv'
  BY <1>9, <1>11 DEF vars, workerVars
<1> QED
  BY <1>1, <1>4, <1>5, <1>6, <1>7, <1>8, <1>10, <1>11 DEF Next, ServiceStep

\* Every variable has its type and numThreads counts the threads there are,
\* whether or not condition variables return unsignalled.
THEOREM PoolTypes == Spec => []TypeOK
<1>1. Init => TypeOK
  BY PoolStart DEF PoolInv
<1> QED
  BY <1>1, TypesStep, PTL DEF Spec

\* The service thread never sleeps on a pending dispatcher that a worker is
\* available for, unless a blocked job has made the worker available.
THEOREM PendingServed == Spec => []PendingNotStalled
<1>1. Init => StallInv
  BY DEF Init, StallInv, With
<1>2. TypeOK /\ StallInv => PendingNotStalled
  BY YieldsAdd DEF StallInv, PendingNotStalled
<1> QED
  BY <1>1, <1>2, StallStep, TypesStep, PoolTypes, PTL DEF Spec

=============================================================================
