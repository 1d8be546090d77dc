--------------------------- MODULE CollectorProofs ---------------------------
(***************************************************************************)
(* Safety of the collector, for any number of threads, foreign threads and *)
(* blocks, under any interleaving.  What a race breaks is claimed until it *)
(* has happened (raced).                                                   *)
(*                                                                         *)
(* CollectorInv is inductive.  Where a thread is determines its flags      *)
(* (ThreadInv), where the marker is determines its own (MarkerInv), the    *)
(* count of pauses is that of the foreign threads that have announced      *)
(* themselves (OutsideInv), and from the three follows that the heap rests *)
(* while it is collected, so that a generation means the same to all of    *)
(* them (BlockInv).                                                        *)
(***************************************************************************)
EXTENDS Collector, FiniteSetTheorems, TLAPS

ThreadInv(t) ==
    /\ sticky[t] <=> blocking[t] /\ pc[t] # "stick"
    /\ pc[t] \in {"run", "reset", "again", "wait"} => ~blocking[t]
    /\ pc[t] \in {"stick", "blocked"} => blocking[t]
    /\ blocking[t] => yielded[t] \/ "stick" \in raced
    /\ pc[t] = "run" => ~yielded[t]

MarkerInv ==
    /\ marking <=> mpc \in {"roots", "marked"}
    /\ sweeping <=> mpc = "sweep"
    /\ mpc \in {"pause"} \cup CyclePcs => mustYield
    /\ toWake # {} => mpc = "wake"

\* The foreign threads that have counted themselves in pauseGC.
Pausing == {o \in Outside : opc[o] \in {"nap", "alloc", "made", "dec"}}

OutsideInv == "pause" \in raced \/ pauseGC = Cardinality(Pausing)

Cleaning == mpc \in {"marked", "sweep"}

BlockInv(b) ==
    /\ b \in saved => gen[b] \in Gens
    /\ \A t \in Threads : b \in held[t] =>
          /\ gen[b] # Free
          /\ pc[t] # "run" => b \in saved \/ gen[b] = Eternal
    /\ Cleaning => (b \in saved <=> gen[b] = active)
    /\ ~Cleaning => gen[b] # dead

CollectorInv ==
    /\ TypeOK
    /\ \A t \in Threads : ThreadInv(t)
    /\ MarkerInv
    /\ OutsideInv
    /\ StoppedWhileCollecting
    /\ HeapRaced \/ \A b \in Blocks : BlockInv(b)

-----------------------------------------------------------------------------
(* One lemma for each conjunct of the invariant: a step preserves it.          *)

\* The invariant holds at the start.
LEMMA InitInv == Init => CollectorInv
<1> SUFFICES ASSUME Init PROVE CollectorInv
  OBVIOUS
<1> USE DEF Init, Gens, Free, Eternal, dead
<1>1. TypeOK
  <2>1. /\ pc \in [Threads -> YieldPcs] /\ opc \in [Outside -> OutsidePcs]
        /\ mpc \in MarkerPcs /\ toWake \subseteq Threads /\ active \in Gens
        /\ gen \in [Blocks -> {Free, Eternal} \cup Gens] /\ saved \subseteq Blocks
        /\ held \in [Threads -> SUBSET Blocks]
        /\ pauseGC \in Int /\ seen \in [Outside -> Int]
        /\ raced \subseteq {"leave", "stick", "pause"}
    BY DEF YieldPcs, MarkerPcs, OutsidePcs
  <2> QED
    BY <2>1, Zenon DEF TypeOK
<1>2. \A t \in Threads : ThreadInv(t)
  BY DEF ThreadInv
<1>3. MarkerInv /\ StoppedWhileCollecting
  BY DEF MarkerInv, StoppedWhileCollecting, CyclePcs
<1>4. OutsideInv
  <2>1. Pausing = {}
    BY DEF Pausing
  <2> QED
    BY <2>1, FS_EmptySet DEF OutsideInv
<1>5. \A b \in Blocks : BlockInv(b)
  BY DEF BlockInv, Cleaning
<1> QED
  BY <1>1, <1>2, <1>3, <1>4, <1>5 DEF CollectorInv

\* Every step keeps the types; the two generations change places in MarkRoots.
LEMMA TypeNext == TypeOK /\ [Next]_vars => TypeOK'
<1> SUFFICES ASSUME TypeOK, [Next]_vars PROVE TypeOK'
  OBVIOUS
<1> USE DEF TypeOK, YieldPcs, MarkerPcs, CyclePcs, OutsidePcs, Gens, Free, Eternal, dead,
            threadVars, flagVars, markerVars, heapVars, outVars
<1>1. ASSUME NEW t \in Threads, Mutate(t) PROVE TypeOK'
  <2>1. ASSUME NEW b \in Blocks, Allocate(t, b) PROVE TypeOK'
    BY <2>1 DEF Allocate
  <2>2. ASSUME NEW b \in Blocks, HoldBlock(t, b) PROVE TypeOK'
    BY <2>2 DEF HoldBlock
  <2>4. ASSUME NEW b \in Blocks, ReleaseBlock(t, b) PROVE TypeOK'
    BY <2>4 DEF ReleaseBlock
  <2>5. ASSUME NEW b \in Blocks, Save(t, b) PROVE TypeOK'
    BY <2>5 DEF Save
  <2>6. ASSUME NEW b \in Blocks, Load(t, b) PROVE TypeOK'
    BY <2>6 DEF Load
  <2>7. ASSUME NEW b \in Blocks, Unlink(t, b) PROVE TypeOK'
    BY <2>7 DEF Unlink
  <2>3. CASE TriggerGC(t)
    BY <2>3 DEF TriggerGC
  <2> QED
    BY <1>1, <2>1, <2>2, <2>3, <2>4, <2>5, <2>6, <2>7 DEF Mutate
<1>2. ASSUME NEW t \in Threads, Yield(t) PROVE TypeOK'
  BY <1>2 DEF Yield, BeginYield
<1>3. ASSUME NEW t \in Threads, YieldStep(t) \/ ReturnFromCall(t) PROVE TypeOK'
  <2>1. CASE SetSticky(t)
    BY <2>1 DEF SetSticky
  <2>5. CASE TestYield(t)
    BY <2>5 DEF TestYield
  <2>6. CASE WakeUp(t)
    BY <2>6 DEF WakeUp
  <2>2. CASE LeaveYield(t)
    <3>1. yielded' \in [Threads -> BOOLEAN]
      BY <2>2, Zenon DEF LeaveYield
    <3> QED
      BY <2>2, <3>1 DEF LeaveYield
  <2>3. CASE ResetYield(t)
    <3>1. yielded' \in [Threads -> BOOLEAN]
      BY <2>3, Zenon DEF ResetYield
    <3> QED
      BY <2>3, <3>1 DEF ResetYield
  <2>4. CASE YieldAgain(t)
    BY <2>4 DEF YieldAgain
  <2>7. CASE ReturnFromCall(t)
    BY <2>7 DEF ReturnFromCall
  <2> QED
    BY <1>3, <2>1, <2>2, <2>3, <2>4, <2>5, <2>6, <2>7 DEF YieldStep
<1>4. ASSUME NEW t \in Threads, WakeGCService(t) PROVE TypeOK'
  <2>1. yielded' \in [Threads -> BOOLEAN] /\ triggered' \in [Threads -> BOOLEAN]
    BY <1>4, Zenon DEF WakeGCService
  <2> QED
    BY <1>4, <2>1 DEF WakeGCService, StickRace
<1>5. CASE MarkerStep
  <2>1. CASE MarkerLoop \/ MarkerWakes \/ BeginMark \/ ThreadsPaused \/ PauseTimesOut
    BY ZenonT(40), <2>1 DEF MarkerLoop, MarkerWakes, BeginMark, ThreadsPaused, PauseTimesOut
  <2>2. CASE MarkRoots
    <3>1. dead \in Gens
      OBVIOUS
    <3>2. active' \in Gens /\ gen' \in [Blocks -> {Free, Eternal} \cup Gens]
      BY <2>2, <3>1 DEF MarkRoots, MarkAll
    <3> QED
      BY <2>2, <3>2 DEF MarkRoots
  <2>3. CASE BeginSweep \/ Sweep \/ BeginResume
    BY ZenonT(40), <2>3 DEF BeginSweep, Sweep, BeginResume
  <2>4. ASSUME NEW t \in Threads, VisitThread(t) PROVE TypeOK'
    <3>1. yielded' \in [Threads -> BOOLEAN] /\ triggered' \in [Threads -> BOOLEAN]
      BY <2>4, Zenon DEF VisitThread, Resume
    <3> QED
      BY <2>4, <3>1 DEF VisitThread, StickRace
  <2> QED
    BY <1>5, <2>1, <2>2, <2>3, <2>4 DEF MarkerStep
<1>6. ASSUME NEW o \in Outside, OutsideStep(o) PROVE TypeOK'
  <2>1. CASE ReadPause(o)
    BY <2>1 DEF ReadPause
  <2>2. CASE WritePause(o)
    BY <2>2 DEF WritePause
  <2>3. CASE EndNap(o)
    BY <2>3 DEF EndNap
  <2>4. CASE CreateEvent(o)
    BY <2>4 DEF CreateEvent
  <2> QED
    BY <1>6, <2>1, <2>2, <2>3, <2>4 DEF OutsideStep
<1>7. CASE UNCHANGED vars
  BY <1>7 DEF vars
<1> QED
  BY <1>1, <1>2, <1>3, <1>4, <1>5, <1>6, <1>7 DEF Next

\* Every step keeps what the program counter of a thread says of its flags.
LEMMA ThreadNext ==
    ASSUME CollectorInv, [Next]_vars
    PROVE  \A t \in Threads : ThreadInv(t)'
<1> SUFFICES ASSUME NEW t \in Threads PROVE ThreadInv(t)'
  OBVIOUS
<1>0. TypeOK /\ ThreadInv(t) /\ MarkerInv
  BY DEF CollectorInv
<1> USE DEF ThreadInv, threadVars
<1>1. ASSUME NEW u \in Threads, Mutate(u) PROVE ThreadInv(t)'
  BY <1>0, <1>1 DEF Mutate, Allocate, HoldBlock, ReleaseBlock, Save, Load, Unlink, TriggerGC
<1>2. ASSUME NEW u \in Threads, Yield(u) PROVE ThreadInv(t)'
  BY <1>0, <1>2 DEF Yield, BeginYield, Running, TypeOK
<1>3. ASSUME NEW u \in Threads, YieldStep(u) \/ ReturnFromCall(u) PROVE ThreadInv(t)'
  <2>1. CASE SetSticky(u)
    BY <1>0, <2>1 DEF SetSticky, TypeOK
  <2>2. CASE TestYield(u)
    BY <1>0, <2>2 DEF TestYield, TypeOK
  <2>3. CASE WakeUp(u)
    BY <1>0, <2>3 DEF WakeUp, TypeOK
  <2>4. CASE LeaveYield(u)
    BY <1>0, <2>4 DEF LeaveYield, TypeOK
  <2>5. CASE ResetYield(u)
    BY <1>0, <2>5 DEF ResetYield, TypeOK
  <2>6. CASE YieldAgain(u)
    BY <1>0, <2>6 DEF YieldAgain, TypeOK
  <2>7. CASE ReturnFromCall(u)
    BY <1>0, <2>7 DEF ReturnFromCall, TypeOK
  <2> QED
    BY <1>3, <2>1, <2>2, <2>3, <2>4, <2>5, <2>6, <2>7 DEF YieldStep
<1>4. ASSUME NEW u \in Threads, WakeGCService(u) PROVE ThreadInv(t)'
  BY <1>0, <1>4 DEF WakeGCService, StickRace, TypeOK
<1>5. CASE MarkerStep
  <2>1. ASSUME NEW u \in Threads, VisitThread(u) PROVE ThreadInv(t)'
    BY <1>0, <2>1 DEF VisitThread, Resume, StickRace, TypeOK
  <2>2. CASE UNCHANGED threadVars /\ raced \subseteq raced'
    BY <1>0, <2>2
  <2> QED
    BY <1>5, <2>1, <2>2 DEF MarkerStep, MarkerLoop, MarkerWakes, BeginMark, ThreadsPaused,
       PauseTimesOut, MarkRoots, BeginSweep, Sweep, BeginResume
<1>6. ASSUME NEW o \in Outside, OutsideStep(o) PROVE ThreadInv(t)'
  BY <1>0, <1>6 DEF OutsideStep, ReadPause, WritePause, EndNap, CreateEvent
<1>7. CASE UNCHANGED vars
  BY <1>0, <1>7 DEF vars
<1> QED
  BY <1>1, <1>2, <1>3, <1>4, <1>5, <1>6, <1>7 DEF Next

\* Every step keeps what the program counter of the marker says of mustYield,
\* marking and sweeping.
LEMMA MarkerNext == CollectorInv /\ [Next]_vars => MarkerInv'
<1> SUFFICES ASSUME CollectorInv, [Next]_vars PROVE MarkerInv'
  OBVIOUS
<1>0. TypeOK /\ MarkerInv
  BY DEF CollectorInv
<1> USE DEF MarkerInv, CyclePcs, flagVars, markerVars
<1>1. ASSUME NEW u \in Threads, Mutate(u) PROVE MarkerInv'
  BY <1>0, <1>1 DEF Mutate, Allocate, HoldBlock, ReleaseBlock, Save, Load, Unlink, TriggerGC
<1>2. ASSUME NEW u \in Threads, Yield(u) \/ YieldStep(u) \/ ReturnFromCall(u) PROVE MarkerInv'
  BY <1>0, <1>2 DEF Yield, BeginYield, YieldStep, SetSticky, TestYield, WakeUp, LeaveYield,
     ResetYield, YieldAgain, ReturnFromCall
<1>3. ASSUME NEW u \in Threads, WakeGCService(u) PROVE MarkerInv'
  BY <1>0, <1>3 DEF WakeGCService
<1>4. CASE MarkerStep
  <2>1. CASE MarkerLoop \/ MarkerWakes \/ BeginMark \/ ThreadsPaused \/ PauseTimesOut
    BY <1>0, <2>1 DEF MarkerLoop, MarkerWakes, BeginMark, ThreadsPaused, PauseTimesOut
  <2>2. CASE MarkRoots \/ BeginSweep \/ Sweep \/ BeginResume
    BY <1>0, <2>2 DEF MarkRoots, BeginSweep, Sweep, BeginResume
  <2>3. ASSUME NEW u \in Threads, VisitThread(u) PROVE MarkerInv'
    BY <1>0, <2>3 DEF VisitThread, TypeOK
  <2> QED
    BY <1>4, <2>1, <2>2, <2>3 DEF MarkerStep
<1>5. ASSUME NEW o \in Outside, OutsideStep(o) PROVE MarkerInv'
  BY <1>0, <1>5 DEF OutsideStep, ReadPause, WritePause, EndNap, CreateEvent
<1>6. CASE UNCHANGED vars
  BY <1>0, <1>6 DEF vars
<1> QED
  BY <1>1, <1>2, <1>3, <1>4, <1>5, <1>6 DEF Next

\* Until two changes of pauseGC overlap, it is the number of foreign threads
\* between them.
LEMMA OutsideNext == CollectorInv /\ [Next]_vars => OutsideInv'
<1> SUFFICES ASSUME CollectorInv, [Next]_vars PROVE OutsideInv'
  OBVIOUS
<1>0. TypeOK /\ OutsideInv /\ IsFiniteSet(Pausing)
  <2>1. IsFiniteSet(Pausing)
    BY CollectorAssumption, FS_Subset DEF Pausing
  <2> QED
    BY <2>1 DEF CollectorInv
<1>1. ASSUME NEW o \in Outside, OutsideStep(o) PROVE OutsideInv'
  <2>1. CASE ReadPause(o) \/ EndNap(o) \/ CreateEvent(o)
    <3>1. Pausing' = Pausing
      BY <1>0, <2>1 DEF ReadPause, EndNap, CreateEvent, Pausing, TypeOK, OutsidePcs
    <3> QED
      BY <1>0, <2>1, <3>1 DEF ReadPause, EndNap, CreateEvent, OutsideInv
  <2>2. CASE WritePause(o)
    <3>1. CASE seen[o] # pauseGC
      BY <2>2, <3>1 DEF WritePause, OutsideInv
    <3>2. CASE opc[o] = "inc" /\ seen[o] = pauseGC
      <4>1. Pausing' = Pausing \cup {o} /\ o \notin Pausing
        BY <1>0, <2>2, <3>2 DEF WritePause, Pausing, TypeOK
      <4>2. Cardinality(Pausing') = Cardinality(Pausing) + 1
        BY <1>0, <4>1, FS_AddElement
      <4> QED
        BY <1>0, <2>2, <3>2, <4>2 DEF WritePause, OutsideInv
    <3>3. CASE opc[o] = "dec" /\ seen[o] = pauseGC
      <4>1. Pausing' = Pausing \ {o} /\ o \in Pausing
        BY <1>0, <2>2, <3>3 DEF WritePause, Pausing, TypeOK
      <4>2. Cardinality(Pausing') = Cardinality(Pausing) - 1
        BY <1>0, <4>1, FS_RemoveElement
      <4> QED
        BY <1>0, <2>2, <3>3, <4>2 DEF WritePause, OutsideInv
    <3> QED
      BY <2>2, <3>1, <3>2, <3>3 DEF WritePause
  <2> QED
    BY <1>1, <2>1, <2>2 DEF OutsideStep
<1>2. CASE UNCHANGED outVars /\ raced \subseteq raced'
  BY <1>0, <1>2 DEF OutsideInv, Pausing, outVars
<1>3. ASSUME NEW t \in Threads, Mutate(t) PROVE UNCHANGED outVars /\ raced \subseteq raced'
  BY <1>3 DEF Mutate, Allocate, HoldBlock, ReleaseBlock, Save, Load, Unlink, TriggerGC
<1>4. ASSUME NEW t \in Threads, Yield(t) \/ YieldStep(t) \/ ReturnFromCall(t) \/ WakeGCService(t)
      PROVE UNCHANGED outVars /\ raced \subseteq raced'
  BY <1>4 DEF Yield, BeginYield, YieldStep, SetSticky, TestYield, WakeUp, LeaveYield,
     ResetYield, YieldAgain, ReturnFromCall, WakeGCService, StickRace
<1>5. MarkerStep => UNCHANGED outVars /\ raced \subseteq raced'
  BY DEF MarkerStep, MarkerLoop, MarkerWakes, BeginMark, ThreadsPaused, PauseTimesOut,
     MarkRoots, BeginSweep, Sweep, BeginResume, VisitThread, StickRace
<1> QED
  BY <1>1, <1>2, <1>3, <1>4, <1>5 DEF Next, vars

\* No step lets a thread or a foreign thread use the heap during a collection:
\* mustYield is set from before the roots are marked until the sweep has ended.
LEMMA StoppedNext == CollectorInv /\ [Next]_vars => StoppedWhileCollecting'
<1> SUFFICES ASSUME CollectorInv, [Next]_vars PROVE StoppedWhileCollecting'
  OBVIOUS
<1>0. /\ TypeOK /\ MarkerInv /\ StoppedWhileCollecting /\ OutsideInv
      /\ \A t \in Threads : ThreadInv(t)
  BY DEF CollectorInv
<1> DEFINE Threads1 == "leave" \in raced \/ \A t \in Threads : Rests(t)
           Outside1 == "pause" \in raced \/ \A o \in Outside : opc[o] # "alloc"
<1>a. mpc \in CyclePcs => mustYield /\ Threads1 /\ Outside1
  BY <1>0 DEF StoppedWhileCollecting, MarkerInv
<1>b. SUFFICES mpc' \in CyclePcs => Threads1' /\ Outside1'
  BY DEF StoppedWhileCollecting
<1>c. ASSUME mpc \in CyclePcs, NEW u \in Threads, Running(u) PROVE "leave" \in raced
  BY <1>a, <1>c DEF Running, Rests
<1> HIDE DEF Threads1, Outside1
<1>2. ASSUME NEW u \in Threads, Mutate(u) PROVE mpc' \in CyclePcs => Threads1' /\ Outside1'
  BY <1>a, <1>2 DEF Mutate, Allocate, HoldBlock, ReleaseBlock, Save, Load, Unlink,
     TriggerGC, markerVars, threadVars, outVars, Threads1, Outside1, Rests
<1>3. ASSUME NEW u \in Threads, Yield(u) \/ WakeGCService(u)
      PROVE  mpc' \in CyclePcs => Threads1' /\ Outside1'
  BY <1>a, <1>c, <1>3 DEF Yield, BeginYield, WakeGCService, StickRace, markerVars, outVars,
     Threads1, Outside1
<1>4. ASSUME NEW u \in Threads, YieldStep(u) \/ ReturnFromCall(u)
      PROVE  mpc' \in CyclePcs => Threads1' /\ Outside1'
  <2>1. UNCHANGED <<mpc, raced, opc>>
    BY <1>4 DEF YieldStep, SetSticky, TestYield, WakeUp, LeaveYield, ResetYield,
       YieldAgain, ReturnFromCall, markerVars, outVars
  <2>2. ASSUME mpc \in CyclePcs, \A t \in Threads : Rests(t), NEW t \in Threads PROVE Rests(t)'
    <3>0. mustYield /\ Rests(u) /\ ThreadInv(u) /\ Rests(t)
      BY <1>0, <1>a, <2>2
    <3> USE DEF Rests, TypeOK
    <3>1. CASE SetSticky(u)
      BY <1>0, <3>0, <3>1 DEF SetSticky
    <3>2. CASE TestYield(u)
      BY <1>0, <3>0, <3>2 DEF TestYield
    <3>3. CASE WakeUp(u)
      BY <1>0, <3>0, <3>3 DEF WakeUp
    <3>4. CASE LeaveYield(u)
      BY <1>0, <3>0, <3>4 DEF LeaveYield, ThreadInv
    <3>5. CASE ResetYield(u)
      BY <1>0, <3>0, <3>5 DEF ResetYield
    <3>6. CASE YieldAgain(u)
      BY <1>0, <3>0, <3>6 DEF YieldAgain
    <3>7. CASE ReturnFromCall(u)
      BY <1>0, <3>0, <3>7 DEF ReturnFromCall
    <3> QED
      BY <1>4, <3>1, <3>2, <3>3, <3>4, <3>5, <3>6, <3>7 DEF YieldStep
  <2> QED
    BY <1>a, <2>1, <2>2 DEF Threads1, Outside1
<1>5. CASE MarkerStep
  <2>1. CASE ThreadsPaused
    <3>1. ASSUME "leave" \notin raced', NEW t \in Threads PROVE Rests(t)'
      <4>1. yielded[t] /\ pc[t] # "run" /\ (pc[t] = "leave" => blocking[t])
        BY <1>0, <2>1, <3>1 DEF ThreadsPaused, AllYielded, ThreadInv
      <4> QED
        BY <1>0, <2>1, <4>1 DEF ThreadsPaused, threadVars, Rests, TypeOK, YieldPcs
    <3>2. ASSUME "pause" \notin raced', NEW o \in Outside PROVE opc'[o] # "alloc"
      <4>1. Cardinality(Pausing) = 0 /\ IsFiniteSet(Pausing)
        BY <1>0, <2>1, <3>2, CollectorAssumption, FS_Subset
           DEF ThreadsPaused, AllYielded, OutsideInv, Pausing
      <4>2. Pausing = {}
        BY <4>1, FS_EmptySet
      <4> QED
        BY <2>1, <4>2 DEF ThreadsPaused, outVars, Pausing
    <3> QED
      BY <3>1, <3>2 DEF Threads1, Outside1
  <2>2. CASE MarkRoots \/ BeginSweep \/ Sweep
    BY <1>a, <2>2 DEF MarkRoots, BeginSweep, Sweep, threadVars, outVars, CyclePcs,
       Threads1, Outside1, Rests
  <2>3. CASE MarkerLoop \/ MarkerWakes \/ BeginMark \/ PauseTimesOut \/ BeginResume
    BY <2>3 DEF MarkerLoop, MarkerWakes, BeginMark, PauseTimesOut, BeginResume, CyclePcs
  <2>4. ASSUME NEW u \in Threads, VisitThread(u) PROVE mpc' \notin CyclePcs
    BY <2>4 DEF VisitThread, CyclePcs
  <2> QED
    BY <1>5, <2>1, <2>2, <2>3, <2>4 DEF MarkerStep
<1>6. ASSUME NEW o \in Outside, OutsideStep(o) PROVE mpc' \in CyclePcs => Threads1' /\ Outside1'
  <2>0. UNCHANGED <<mpc, pc, yielded, blocking>> /\ raced \subseteq raced'
    BY <1>6 DEF OutsideStep, ReadPause, WritePause, EndNap, CreateEvent, threadVars, markerVars
  <2>1. mpc \in CyclePcs => \A p \in Outside : opc[p] # "alloc" => opc'[p] # "alloc"
    <3>1. CASE ReadPause(o) \/ WritePause(o) \/ CreateEvent(o)
      BY <1>0, <3>1 DEF ReadPause, WritePause, CreateEvent, TypeOK
    <3>2. CASE EndNap(o)
      BY <1>a, <3>2 DEF EndNap
    <3> QED
      BY <1>6, <3>1, <3>2 DEF OutsideStep
  <2> QED
    BY <1>a, <2>0, <2>1 DEF Threads1, Outside1, Rests
<1>7. CASE UNCHANGED vars
  BY <1>a, <1>7 DEF vars, threadVars, markerVars, outVars, Threads1, Outside1, Rests
<1> QED
  BY <1>2, <1>3, <1>4, <1>5, <1>6, <1>7 DEF Next

\* What the threads do between yields keeps the invariant of a block: they do it
\* only while nothing is collected.
LEMMA MutateBlock ==
    ASSUME CollectorInv, ~HeapRaced, NEW u \in Threads, Mutate(u), NEW b \in Blocks
    PROVE  BlockInv(b)'
<1>0. /\ TypeOK /\ StoppedWhileCollecting /\ BlockInv(b)
      /\ \A t \in Threads : ThreadInv(t)
  BY DEF CollectorInv
<1>1. pc[u] = "run" /\ ~Cleaning
  BY <1>0 DEF Mutate, Allocate, HoldBlock, ReleaseBlock, Save, Load, Unlink, TriggerGC,
     Running, StoppedWhileCollecting, Rests, HeapRaced, Cleaning, CyclePcs
<1>2. /\ UNCHANGED <<pc, mpc, active>>
      /\ ~Cleaning'
  BY <1>1 DEF Mutate, Allocate, HoldBlock, ReleaseBlock, Save, Load, Unlink, TriggerGC,
     threadVars, markerVars, heapVars, Cleaning
<1>3. active \in Gens /\ active # dead /\ Free # dead /\ Eternal # dead /\ active # Free
      /\ active # Eternal /\ dead' = dead
  BY <1>0, <1>2 DEF TypeOK, Gens, Free, Eternal, dead
<1> USE <1>0, <1>1, <1>2, <1>3 DEF BlockInv
<1>4. ASSUME NEW c \in Blocks, Allocate(u, c) PROVE BlockInv(b)'
  BY <1>4 DEF Allocate, TypeOK
<1>5. ASSUME NEW c \in Blocks, HoldBlock(u, c) PROVE BlockInv(b)'
  BY <1>5 DEF HoldBlock, TypeOK, Free, Eternal
<1>6. ASSUME NEW c \in Blocks, ReleaseBlock(u, c) PROVE BlockInv(b)'
  BY <1>6 DEF ReleaseBlock, TypeOK
<1>7. ASSUME NEW c \in Blocks, Save(u, c) PROVE BlockInv(b)'
  BY <1>7 DEF Save, TypeOK, Gens, Free, Eternal
<1>8. ASSUME NEW c \in Blocks, Load(u, c) PROVE BlockInv(b)'
  BY <1>8 DEF Load, TypeOK, Gens, Free
<1>9. ASSUME NEW c \in Blocks, Unlink(u, c) PROVE BlockInv(b)'
  BY <1>9 DEF Unlink, TypeOK
<1>10. CASE TriggerGC(u)
  BY <1>10 DEF TriggerGC, heapVars
<1> QED
  BY <1>4, <1>5, <1>6, <1>7, <1>8, <1>9, <1>10 DEF Mutate

\* Every step keeps the generation of a block that is still referenced at the
\* active one, or eternal.
LEMMA BlockNext ==
    ASSUME CollectorInv, [Next]_vars, ~HeapRaced, NEW b \in Blocks
    PROVE  BlockInv(b)'
<1>0. /\ TypeOK /\ StoppedWhileCollecting /\ BlockInv(b)
      /\ \A t \in Threads : ThreadInv(t)
  BY DEF CollectorInv
<1>a. active \in Gens /\ active # dead /\ Free # dead /\ Eternal # dead /\ active # Free
      /\ active # Eternal /\ dead \in Gens
  BY <1>0 DEF TypeOK, Gens, Free, Eternal, dead
<1>1. ASSUME NEW u \in Threads, Mutate(u) PROVE BlockInv(b)'
  BY <1>1, MutateBlock
<1>2. ASSUME NEW u \in Threads, NEW c \in BOOLEAN, BeginYield(u, c) PROVE BlockInv(b)'
  BY <1>0, <1>2 DEF BeginYield, BlockInv, Cleaning, TypeOK, markerVars, dead
<1>3. ASSUME NEW u \in Threads, YieldStep(u) \/ ReturnFromCall(u) PROVE BlockInv(b)'
  <2>1. UNCHANGED <<heapVars, mpc>>
    BY <1>3 DEF YieldStep, SetSticky, TestYield, WakeUp, LeaveYield, ResetYield, YieldAgain,
       ReturnFromCall, markerVars
  <2>2. \A t \in Threads : pc[t] = "run" => pc'[t] = "run"
    BY <1>0, <1>3 DEF YieldStep, SetSticky, TestYield, WakeUp, LeaveYield, ResetYield,
       YieldAgain, ReturnFromCall, TypeOK
  <2> QED
    BY <1>0, <2>1, <2>2 DEF BlockInv, heapVars, Cleaning, dead
<1>4. ASSUME NEW u \in Threads, WakeGCService(u) PROVE BlockInv(b)'
  BY <1>0, <1>4 DEF WakeGCService, BlockInv, heapVars, markerVars, Cleaning, dead
<1>5. CASE MarkerStep
  <2>1. CASE MarkRoots
    <3>1. ~Cleaning /\ Cleaning' /\ UNCHANGED <<pc, saved, held>>
      BY <2>1 DEF MarkRoots, Cleaning, threadVars
    <3>2. active' = dead /\ gen'[b] = IF b \in saved THEN dead ELSE gen[b]
      BY <1>0, <2>1, <1>a DEF MarkRoots, MarkAll, BlockInv, TypeOK, Gens, Eternal
    <3> QED
      BY <1>0, <1>a, <3>1, <3>2 DEF BlockInv
  <2>2. CASE BeginSweep
    BY <1>0, <2>2 DEF BeginSweep, BlockInv, threadVars, heapVars, Cleaning, dead
  <2>3. CASE Sweep
    <3>1. Cleaning /\ ~Cleaning' /\ UNCHANGED <<pc, saved, held, active>> /\ dead' = dead
      BY <2>3 DEF Sweep, Cleaning, threadVars, dead
    <3>2. gen'[b] = IF gen[b] = dead THEN Free ELSE gen[b]
      BY <1>0, <2>3 DEF Sweep, TypeOK
    <3>3. \A t \in Threads : pc[t] # "run"
      BY <1>0, <3>1 DEF StoppedWhileCollecting, Rests, HeapRaced, Cleaning, CyclePcs
    <3> QED
      BY <1>0, <1>a, <3>1, <3>2, <3>3 DEF BlockInv
  <2>4. CASE MarkerLoop \/ MarkerWakes \/ BeginMark \/ ThreadsPaused \/ PauseTimesOut \/ BeginResume
    BY <1>0, <2>4 DEF MarkerLoop, MarkerWakes, BeginMark, ThreadsPaused, PauseTimesOut,
       BeginResume, BlockInv, threadVars, heapVars, Cleaning, dead
  <2>5. ASSUME NEW u \in Threads, VisitThread(u) PROVE BlockInv(b)'
    BY <1>0, <2>5 DEF VisitThread, BlockInv, heapVars, Cleaning, dead
  <2> QED
    BY <1>5, <2>1, <2>2, <2>3, <2>4, <2>5 DEF MarkerStep
<1>6. ASSUME NEW o \in Outside, OutsideStep(o) PROVE BlockInv(b)'
  <2>1. CASE ReadPause(o) \/ WritePause(o) \/ EndNap(o)
    BY <1>0, <2>1 DEF ReadPause, WritePause, EndNap, BlockInv, threadVars, heapVars, markerVars,
       Cleaning, dead
  <2>2. CASE CreateEvent(o)
    <3>1. ~Cleaning /\ ~Cleaning' /\ UNCHANGED <<pc, held, active>> /\ dead' = dead
      BY <1>0, <2>2 DEF CreateEvent, StoppedWhileCollecting, HeapRaced, Cleaning, CyclePcs, threadVars,
         markerVars, dead
    <3> QED
      BY <1>0, <1>a, <2>2, <3>1 DEF CreateEvent, BlockInv, TypeOK
  <2> QED
    BY <1>6, <2>1, <2>2 DEF OutsideStep
<1>7. CASE UNCHANGED vars
  BY <1>0, <1>7 DEF vars, threadVars, markerVars, heapVars, BlockInv, Cleaning, dead
<1> QED
  BY <1>1, <1>2, <1>3, <1>4, <1>5, <1>6, <1>7 DEF Next, Yield

-----------------------------------------------------------------------------
\* A race that has happened is not forgotten.
LEMMA RacedGrows == [Next]_vars => raced \subseteq raced'
<1> SUFFICES ASSUME [Next]_vars PROVE raced \subseteq raced'
  OBVIOUS
<1>1. ASSUME NEW t \in Threads, Mutate(t) PROVE raced \subseteq raced'
  BY <1>1 DEF Mutate, Allocate, HoldBlock, ReleaseBlock, Save, Load, Unlink, TriggerGC
<1>2. ASSUME NEW t \in Threads, Yield(t) \/ YieldStep(t) \/ ReturnFromCall(t) \/ WakeGCService(t)
      PROVE raced \subseteq raced'
  BY <1>2 DEF Yield, BeginYield, YieldStep, SetSticky, TestYield, WakeUp, LeaveYield,
     ResetYield, YieldAgain, ReturnFromCall, WakeGCService, StickRace
<1>3. MarkerStep => raced \subseteq raced'
  BY DEF MarkerStep, MarkerLoop, MarkerWakes, BeginMark, ThreadsPaused, PauseTimesOut,
     MarkRoots, BeginSweep, Sweep, BeginResume, VisitThread, StickRace
<1>4. ASSUME NEW o \in Outside, OutsideStep(o) PROVE raced \subseteq raced'
  BY <1>4 DEF OutsideStep, ReadPause, WritePause, EndNap, CreateEvent
<1> QED
  BY <1>1, <1>2, <1>3, <1>4 DEF Next, vars

\* The invariant holds of every behaviour.
THEOREM CollectorSafe == Spec => []CollectorInv
<1>1. CollectorInv /\ [Next]_vars => CollectorInv'
  <2> SUFFICES ASSUME CollectorInv, [Next]_vars PROVE CollectorInv'
    OBVIOUS
  <2>1. TypeOK'
    BY TypeNext DEF CollectorInv
  <2>2. \A t \in Threads : ThreadInv(t)'
    BY ThreadNext
  <2>3. MarkerInv' /\ OutsideInv' /\ StoppedWhileCollecting'
    BY MarkerNext, OutsideNext, StoppedNext
  <2>4. HeapRaced' \/ \A b \in Blocks : BlockInv(b)'
    <3>1. ~HeapRaced' => ~HeapRaced
      BY RacedGrows DEF HeapRaced
    <3> QED
      BY <3>1, BlockNext
  <2> QED
    BY <2>1, <2>2, <2>3, <2>4 DEF CollectorInv
<1> QED
  BY <1>1, InitInv, PTL DEF Spec

\* Whatever overtakes what, the fields keep their types: a block is free, eternal
\* or of one of the two generations that nextGen takes turns with.
THEOREM HeapTypes == Spec => []TypeOK
<1>1. CollectorInv => TypeOK
  BY DEF CollectorInv
<1> QED
  BY <1>1, CollectorSafe, PTL

\* No thread uses the heap while it is collected (pauseThreads, mprYield,
\* mprResetYield, mprCreateEventOutside), before a race.
THEOREM HeapRests == Spec => []StoppedWhileCollecting
<1>1. CollectorInv => StoppedWhileCollecting
  BY DEF CollectorInv
<1> QED
  BY <1>1, CollectorSafe, PTL

\* Nothing that is referenced is freed (nextGen, markRoots, sweep), before a race.
THEOREM ReferencesLive == Spec => []NoDanglingReference
<1>1. CollectorInv => NoDanglingReference
  BY DEF CollectorInv, NoDanglingReference, BlockInv, Gens, Free
<1> QED
  BY <1>1, CollectorSafe, PTL

\* A thread in a system call does not keep a collection from starting (mprYield,
\* mprResumeThreads), before a race.
THEOREM BlockedYielded == Spec => []BlockedHasYielded
<1>1. CollectorInv => BlockedHasYielded
  BY DEF CollectorInv, BlockedHasYielded, ThreadInv
<1> QED
  BY <1>1, CollectorSafe, PTL

\* What is neither reachable nor exempt is freed by the next sweep.
THEOREM ExactCollection == Spec => CollectionIsExact
<1>1. CollectorInv /\ [Next]_vars =>
        [Sweep => \/ HeapRaced
                  \/ \A b \in Blocks : gen'[b] # Free => b \in saved \/ gen[b] = Eternal]_vars
  <2> SUFFICES ASSUME CollectorInv, Sweep, ~HeapRaced, NEW b \in Blocks, gen'[b] # Free
               PROVE  b \in saved \/ gen[b] = Eternal
    OBVIOUS
  <2>1. TypeOK /\ BlockInv(b) /\ Cleaning
    BY DEF CollectorInv, Sweep, Cleaning
  <2>2. gen[b] # Free /\ gen[b] # dead
    BY <2>1 DEF Sweep, TypeOK
  <2> QED
    BY <2>1, <2>2 DEF BlockInv, TypeOK, Gens, Free, Eternal, dead
<1> QED
  BY <1>1, CollectorSafe, PTL DEF Spec, CollectionIsExact
=============================================================================
