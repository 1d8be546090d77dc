SPECIFICATION FairSpec
CONSTANTS
    Conns = {c1}
    IPs = {i1}
    Kinds = {"get", "cgi", "last", "errdoc", "bad", "part", "form"}
    ClientMax = 1
    PerClientMax = 1
    RequestMax = 1
    KeepAliveMax = 2
    MaxSends = 3
    MaxQueued = 1
INVARIANTS
    TypeOK
    CountsBalance
    TimeoutPending
    NeverDeaf
    ClosesWhenDue
PROPERTIES
    EveryConnEnds
