\* Liveness: one dispatcher is serviced inline, the other by the only worker.
SPECIFICATION FairSpec
CONSTANTS
    Dispatchers = {d1, d2}
    Events = {e1, e2}
    Workers = {w1}
    Waits = {}
    Service = service
    NonBlock = d1
    None = none
    Periods = {0, 1}
    MaxTicks = 1
    MaxPending = 1
    Forever = 9
    CallMixes = {{"enable"}}
INVARIANTS
    TypeOK
PROPERTIES
    DueEventsRun
