SPECIFICATION Spec
CONSTANTS
    Parts = {"pools", "shared", "leftover-pool", "reap", "orphans", "leftover", "namespaces",
            "namespaces-clean", "namespaces-shared", "output", "lost", "paced", "kept",
            "unpaced", "wait", "templates", "preflight", "size-window", "size-split",
            "size-waves", "size-plan", "size-benchmark", "size-place"}
    Missing = missing
    Actors = {a1, a2}
    Things = {t1, t2}
INVARIANTS   ReadsAreTrue SizingIsExact
 
SYMMETRY Symmetry
\* A component whose calls have run out, or whose pool is at rest, has no step to take.
CHECK_DEADLOCK FALSE
