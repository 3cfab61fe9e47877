SPECIFICATION FairSpec
CONSTANTS
    a1 = a1
    a2 = a2
    Accounts = {a1, a2}
    Order <- MCOrder
    NoAccount = NoAccount
    Requests = {r1}
    Checkers = {c1}
    Admins = {d1}
    MaxAuthFailures = 2
    MaxTime = 2
    MaxFailures = 3
    MaxToggles = 1
    MaxErrors = 1
INVARIANTS DeadIsNoticed
PROPERTIES DeadLeavesRotation
CHECK_DEADLOCK FALSE
