SPECIFICATION PartsSpec
CONSTANTS
    Parts = {"given", "failing", "dropping"}
    c1 = c1
    c2 = c2
    s1 = s1
    s2 = s2
    s3 = s3
    Claims <- TwoClaims
    Warm <- TwoWarm
    Stale = {s2}
    ForceCold = {}
    Faults = {"busy"}
    Lag = {"claims"}
    MaxDeletes = 0
    MaxFaults = 1
INVARIANTS OneSandboxPerClaim NoLostCandidate
PROPERTIES NeverStolen ImplementsAssignment
SYMMETRY SymClaims
\* A served claim waits for events that need not come.
CHECK_DEADLOCK FALSE
