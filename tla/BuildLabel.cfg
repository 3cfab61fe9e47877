SPECIFICATION BLSpec
CONSTANTS
    g1 = g1
    g2 = g2
    g3 = g3
    g4 = g4
    Goroutines = {g1, g2, g3, g4}
    MaxReleases = 2
    MaxExpiries = 2
INVARIANTS FetchedOnce
PROPERTIES NeverOlder RefreshEnds
CHECK_DEADLOCK FALSE
