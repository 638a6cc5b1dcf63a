SPECIFICATION FairSpec
CONSTANTS
    r1 = r1  r2 = r2
    owner = owner  admin = admin  u3 = u3  u4 = u4
    acme = acme  o2 = o2  o3 = o3
    k1 = k1  k2 = k2  k3 = k3
    ann = ann  bob = bob  eve = eve
    Nil = Nil
    Requests = {r1, r2}
    Emails = {ann, bob, eve}
    Visitors = {eve}
    UserIds = {owner, admin, u3, u4}
    OrgIds = {acme, o2, o3}
    KeyIds = {k1, k2, k3}
    Targets = {k3, admin, u3}
    Expiring = {k2}
    SeedUsers <- MCSeedUsers
    SeedKeys <- MCSeedKeys
INVARIANTS
    AccountsInv
    LoginsAgree
    AuditNotAhead
    SuspensionHolds
PROPERTIES
    EveryRequestEnds
