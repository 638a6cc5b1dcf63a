SPECIFICATION FairSpec
CONSTANTS
    t1 = t1
    t2 = t2
    t3 = t3
    large = large
    small = small
    unknown = unknown
    Targets = {t1, t2, t3}
    ChainOf <- Chains
    NoAdapter = {t3}
    Gateway = gateway
    MaxRequests = 1
    TripAfter = 1
    Requests = {r1, r2}
    Models = {large, small, unknown}
    MaxGeneration = 0
PROPERTIES
    EveryRequestEnds
