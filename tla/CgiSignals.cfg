\* Two requests whose programs end.
SPECIFICATION Spec
CHECK_DEADLOCK FALSE
CONSTANTS
    Requests = {r1, r2}
    Scripts <- ShortScripts
    Bodies <- NoBodies
    Faults = {}
    PipeMax = 1
    QueueMax = 1
    RoomMax = 2
INVARIANTS
    DeathIsNoticed
