\* Two connections, of the same client or of two.
SPECIFICATION Spec
CONSTANTS
    Conns = {c1, c2}
    IPs = {i1, i2}
    Kinds = {"get"}
    ClientMax = 2
    PerClientMax = 1
    RequestMax = 1
    KeepAliveMax = 1
    MaxSends = 1
    MaxQueued = 1
SYMMETRY ConnSymmetry
INVARIANTS
    LimitsRespected
    TimerCovers
    VisitedAreListed
