\* Two threads, two foreign ones and the marker share a block.
SPECIFICATION Spec
CONSTANTS
    Threads = {t1, t2}
    Outside = {o1, o2}
    Blocks = {b1}
    MaxPause = 0
SYMMETRY ActorSymmetry
CONSTRAINT UntilHeapRace
INVARIANTS
    TypeOK
    StoppedWhileCollecting
    NoDanglingReference
PROPERTIES
    CollectionIsExact
