\* One organisation, two sessions, three payments (one that
\* names no organisation), a redelivery and a failure:
\* every interleaving of first top-ups, charges and balance reads.
SPECIFICATION FairSpec
CONSTANTS
    acme = acme
    e1 = e1
    e2 = e2
    e3 = e3
    t1 = t1
    t2 = t2
    NoTxn = NoTxn
    NoEvent = NoEvent
    NoOrg = NoOrg
    Orgs = {acme}
    Txns = {t1, t2}
    Events = {e1, e2, e3}
    OrgOf <- OneOrg
    AmountOf <- Amounts
    Costs = {0, 1, 2}
    MaxRedeliveries = 1
    MaxFailures = 1
INVARIANTS
    NoOverspend
    Conservation
    AckedIsApplied
    LedgerInv
PROPERTIES
    ImplementsLedger
    EveryPaymentCredited
