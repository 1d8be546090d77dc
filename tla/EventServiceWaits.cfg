\* A thread of its own, or a callback, waits for the events of a dispatcher; or
\* timers are stopped, started again and removed while they run.
SPECIFICATION Spec
\* The service thread sleeps for good once every event was made and has run.
CHECK_DEADLOCK FALSE
CONSTANTS
    Dispatchers = {d1}
    Events = {e1, e2}
    Workers = {w1}
    Waits = {x1}
    Service = service
    NonBlock = none
    None = none
    Periods = {0, 1}
    MaxTicks = 1
    MaxPending = 1
    Forever = 9
    CallMixes = {{"wait", "disable"}, {"remove", "enable"}}
SYMMETRY EventSymmetry
INVARIANTS
    NoLostSignal
    QueuesSorted
PROPERTIES
    ImplementsExecutor
