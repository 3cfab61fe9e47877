SPECIFICATION FairSpec
CONSTANTS
    Proxies = {p1, p2}
    Seeded = {p1}
    Requests = {r1}
    Admins = {a1, a2}
    Reloader = reloader
    NoProxy = NoProxy
    Threshold = 1
    MaxFails = 1
    MaxAdminOps = 2
    DbMayFail = TRUE
INVARIANTS ResidentsStayCached
PROPERTIES PoolConverges DriftHeals
