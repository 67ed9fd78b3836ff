SPECIFICATION FairSpec
CONSTANTS
    Sandboxes = {s1, s2, s3}
    Orphaned = {}
    Unlabelled = {}
    MaxReplicas = 1
    MaxTemplate = 2
    MaxBatchSize = 1
    Recreate = TRUE
    Paced = FALSE
    MaxDisturbances = 1
INVARIANTS OvershootAtMostOneBatch
PROPERTIES Converges
\* A pool at rest has no step to take.
CHECK_DEADLOCK FALSE
