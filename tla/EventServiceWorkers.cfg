\* Two dispatchers share two workers; events are removed, dispatchers disabled.
SPECIFICATION Spec
\* The service thread sleeps for good once every event was made and has run.
CHECK_DEADLOCK FALSE
CONSTANTS
    Dispatchers = {d1, d2}
    Events = {e1, e2}
    Workers = {w1, w2}
    Waits = {}
    Service = service
    NonBlock = none
    None = none
    Periods = {0, 1}
    MaxTicks = 1
    MaxPending = 1
    Forever = 9
    CallMixes = {{"remove", "disable"}}
SYMMETRY EventSymmetry
INVARIANTS
    OneThreadPerDispatcher
    NoStrandedEvent
    NoLostWakeup
    PendingCountCovers
