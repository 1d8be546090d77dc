\* One request of each kind: flow control, the ends of pipes, the death of the program.
SPECIFICATION FairSpec
\* A request that was answered is the end.
CHECK_DEADLOCK FALSE
CONSTANTS
    Requests = {r1}
    Scripts <- AllScripts
    Bodies <- AllBodies
    Faults = {"start", "gone", "timeout"}
    PipeMax = 1
    QueueMax = 1
    RoomMax = 1
INVARIANTS
    OutputDelivered
    ProgramFinished
PROPERTIES
    EveryRequestEnds
