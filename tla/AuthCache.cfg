SPECIFICATION Spec
CONSTANTS
    Pods = {p1}
    Keys = {k1, k2}
    UnknownKeys = {k2}
    Requests = {r1, r2}
    Cap = 1
    TTL = 2
    LoadTimeout = 1
    MaxTime = 3
SYMMETRY Slots
INVARIANTS
    AuthInv
    EndsInTime
    NoFalseReject
    Bounded
