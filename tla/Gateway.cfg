SPECIFICATION Spec
CONSTANTS
    Requests = {r1, r2}
    Accounts = {a1, a2}
    Valid = {a1}
    NoAccount = NoAccount
    Proxies = {p1}
    Direct = direct
    NoExit = NoExit
    Capacity = 1
    MaxCookieTries = 2
    RetryAttempts = 1
    MaxAuthFailures = 2
    Settings <- StrictOrLax
    StartPool = {p1}
    StartBound = {direct}
    MaxChanges = 1
INVARIANTS SlotsFollowRequests AttributionHonest BlamedOnce NoSilentDowngrade
SYMMETRY Symmetry
CHECK_DEADLOCK FALSE
