SPECIFICATION FairSpec
CONSTANTS
    Parts = {"watchdog", "handle", "pull", "shards", "lease", "stream", "watch", "router",
            "suspend", "snapshots", "transport", "gateway", "workspace", "claim", "expiry",
            "choice"}
    Nobody = Nobody
PROPERTIES CallsEnd ComesAbout ClaimServed ExpiredReleases
\* A component whose calls have run out, or whose pool is at rest, has no step to take.
CHECK_DEADLOCK FALSE
