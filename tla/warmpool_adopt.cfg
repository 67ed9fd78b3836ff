SPECIFICATION Spec
CONSTANTS
    Sandboxes = {o1, s1}
    Orphaned = {}
    Unlabelled = {o1}
    MaxReplicas = 2
    MaxTemplate = 2
    MaxBatchSize = 2
    Recreate = TRUE
    Paced = TRUE
    MaxDisturbances = 1
INVARIANTS TypeOK ExpectationsCoverWrites PendingDeletionsReal DeletionsAwaited
 
SYMMETRY Symmetry
\* A pool at rest has no step to take.
CHECK_DEADLOCK FALSE
