SPECIFICATION RegistryFairSpec
CONSTANTS
    Keys = {k1, k2}
    Callers = {c1, c2, c3}
    MaxRequests = 2
    TripAfter = 2
    MaxGeneration = 3
INVARIANTS
    RegistryInv
    OneBreaker
    ProbesAccounted
PROPERTIES
    ReopenedByProbe
    ProbesDecide
