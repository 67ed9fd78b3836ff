SPECIFICATION Spec
CONSTANTS
    Parts = {"tunnel", "direct", "service", "tunnel-stuck", "routed", "routed-direct",
            "routed-alone", "async-tunnel", "stream", "stream-async", "registry",
            "registry-exit", "registry-async", "registry-collide", "watch", "watch-resolve",
            "watch-generation", "watch-sandbox", "watch-gateway", "router-limit",
            "router-relay", "snapshots", "snapshots-lost", "suspend", "suspend-clean", "files",
            "paths"}
    Unlimited = unlimited
    Actors = {a1, a2}
    Things = {t1, t2}
INVARIANTS NothingOrphaned AnswersAreTrue ContentIsWhole
PROPERTIES LateStepsSpareOthers
SYMMETRY Symmetry
\* A component whose calls have run out, or whose pool is at rest, has no step to take.
CHECK_DEADLOCK FALSE
