\* Two goroutines in the scheduler, no failures: an old body fires on.
SPECIFICATION HistorySpec
CONSTANTS
    j1 = j1  j2 = j2
    k1 = k1  k2 = k2  k3 = k3
    v1 = v1  v2 = v2
    main = main  other = other
    Jobs = {j1, j2}
    Versions = {v1, v2}
    NoVersion = NoVersion
    Prefixes <- OnePrefix
    Callers = {main, other}
    Crons = {k1, k2, k3}
    MaxFailures = 0
SYMMETRY Symmetry
INVARIANTS
    OldBodiesAreOverridden
CHECK_DEADLOCK FALSE
