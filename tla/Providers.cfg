SPECIFICATION Spec
CONSTANTS
    c1 = c1  c2 = c2
    persona = persona  first = first  second = second
    Absent = Absent
    Slots = {c1, c2}
    Pairs <- MCPairs
    Breakable <- MCBreakable
    Orders <- MCOrders
    Jobs <- MCJobs
    MaxForced = 1
    MaxRequests = 2
    MaxRetries = 1
    MaxDeltas = 1
INVARIANTS
    ProvidersInv
    OneShotAnswersOnce
    StreamsAreWhole
    AnswersAreUnderstood
    CatalogueIsPriced
