\* Two requests, a controller and a view that are edited while they are served.
SPECIFICATION FairSpec
CONSTANTS
    Requests = {r1, r2}
    Routes <- AllRoutes
    MaxEdits = 1
    MaxTime = 1
    None = none
CONSTRAINT Explored
INVARIANTS
    CodeStaysLoaded
    FreshCode
PROPERTIES
    EveryRequestEnds
