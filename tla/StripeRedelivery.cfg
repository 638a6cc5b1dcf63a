\* No session dies; Stripe delivers one acknowledged event again.
SPECIFICATION Spec
CONSTANTS
    acme = acme
    e1 = e1
    e2 = e2
    e3 = e3
    t1 = t1
    t2 = t2
    NoTxn = NoTxn
    NoEvent = NoEvent
    NoOrg = NoOrg
    Orgs = {acme}
    Txns = {t1, t2}
    Events = {e1, e2, e3}
    OrgOf <- OneOrg
    AmountOf <- Amounts
    Costs = {1}
    MaxRedeliveries = 1
    MaxFailures = 0
INVARIANT CreditedOnce
