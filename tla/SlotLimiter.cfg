SPECIFICATION Spec
CONSTANTS
    Requests = {r1, r2, r3}
    Exits = {e0, e1}
    NoExit = NoExit
    LimitChoices <- MCLimitChoices
    MinuteSpan = 1
    HourSpan = 3
    MaxConc = 2
    MaxTime = 4
    MaxGrants = 4
INVARIANTS InflightIsHolders
PROPERTIES GrantsWithinLimits RefusalsJustified ImplementsSemaphore
SYMMETRY Symmetry
