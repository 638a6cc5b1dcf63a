SPECIFICATION Spec
CONSTANTS
    k1 = k1
    k2 = k2
    Keys = {k1, k2}
    LimitOf <- Limits
    Requests = {r1, r2}
    Window = 5
    Skew = 1
    Delay = 1
    Subs = {0}
    MaxTime = 8
SYMMETRY Slots
INVARIANTS
    RateInv
    WindowBound
PROPERTIES
    RefusedForCause
