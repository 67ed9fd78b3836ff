SPECIFICATION Spec
CONSTANTS
    Parts = {"claims", "cycles", "pipelined", "sliding", "naive", "quiet", "stalled", "shards",
            "lookahead", "lookahead-faults", "tasks", "tasks-adopt", "tasks-serial", "watchdog",
            "watchdog-stop"}
    Missing = missing
    Actors = {a1, a2}
    Things = {t1, t2}
   
PROPERTIES NeededIsKept
SYMMETRY Symmetry
\* A component whose calls have run out, or whose pool is at rest, has no step to take.
CHECK_DEADLOCK FALSE
