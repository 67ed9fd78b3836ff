SPECIFICATION Spec
CONSTANTS
    Sandboxes = {s1, s2, s3}
    Orphaned = {}
    Unlabelled = {}
    MaxReplicas = 2
    MaxTemplate = 1
    MaxBatchSize = 2
    Recreate = FALSE
    Paced = FALSE
    MaxDisturbances = 0
INVARIANTS HardInvariant
SYMMETRY Symmetry
\* A pool at rest has no step to take.
CHECK_DEADLOCK FALSE
