SPECIFICATION PartsSpec
CONSTANTS
    Parts = {"given"}
    c1 = c1
    c2 = c2
    s1 = s1
    s2 = s2
    s3 = s3
    Claims <- OneClaim
    Warm <- ThreeWarm
    Stale = {}
    ForceCold = {}
    Faults = {}
    Lag = {"claims"}
    MaxDeletes = 1
    MaxFaults = 0
INVARIANTS OneSandboxPerClaim
SYMMETRY SymWarm
\* A served claim waits for events that need not come.
CHECK_DEADLOCK FALSE
