\* The rendezvous, which the heap does not influence.
SPECIFICATION FairSpec
CONSTANTS
    Threads = {t1, t2}
    Outside = {o1}
    Blocks = {}
    MaxPause = 0
INVARIANTS
    BlockedHasYielded
PROPERTIES
    YieldReturns
