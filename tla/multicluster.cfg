SPECIFICATION Spec
CONSTANTS
    Parts = {"member", "lease", "lease-get", "lease-create", "apply", "plan", "report",
            "report-light", "resolve", "spread", "unhosted"}
    Actors = {a1, a2}
    Things = {t1, t2}
INVARIANTS PlacedOnReports 
PROPERTIES PublishesInOrder
SYMMETRY Symmetry
\* A component whose calls have run out, or whose pool is at rest, has no step to take.
CHECK_DEADLOCK FALSE
