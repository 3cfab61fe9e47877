SPECIFICATION FairSpec
CONSTANTS
    Requests = {r1}
    Accounts = {a1, a2}
    Valid = {a1}
    NoAccount = NoAccount
    Proxies = {p1, p2}
    Direct = direct
    NoExit = NoExit
    Capacity = 1
    MaxCookieTries = 2
    RetryAttempts = 2
    MaxAuthFailures = 2
    Settings <- StrictOrLaxAnyWeather
    StartPool = {p1, p2}
    StartBound = {direct, p1}
    MaxChanges = 1
INVARIANTS LoopFindsAccount
PROPERTIES ImplementsContract
CHECK_DEADLOCK FALSE
