SPECIFICATION Spec
CONSTANTS
    g1 = g1
    g2 = g2
    sidcc = sidcc
    Goroutines = {g1, g2}
    Parts = {sidcc}
    RetryAttempts = 2
    SelectMayFail = FALSE
    MaxIssues = 3
    MaxTurns = 1
SYMMETRY MCSymmetry
INVARIANTS IdentityKept TokenFitsHeader
PROPERTIES HealWorks LostOnlyToStaleCopies
CHECK_DEADLOCK FALSE
