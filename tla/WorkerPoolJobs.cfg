\* One processor, so that jobs are refused; two workers, so that one can be pruned.
SPECIFICATION FairSpec
\* The pool rests when every job is done, or after shutdown.
CHECK_DEADLOCK FALSE
CONSTANTS
    Workers = {w1, w2}
    Jobs = {j1, j2}
    NumCpu = 1
    Limits = {1, 2}
    DefaultMax = 2
    Spurious = FALSE
    None = none
INVARIANTS
    TypeOK
    NoLostJob
    JobRunsOnce
    PendingNotStalled
PROPERTIES
    JobsServed
