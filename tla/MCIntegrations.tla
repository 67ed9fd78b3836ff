--------------------------- MODULE MCIntegrations ---------------------------
(***************************************************************************)
(* Instances of the agent frameworks that run on sandboxes (NeMo Gym,       *)
(* DeerFlow, OpenAI Agents, the MCP server, OpenHands, DeepAgents, the      *)
(* gateway and the fleet portal) and of the runtimes inside a sandbox, for  *)
(* TLC. Each component models what the others may do to it, so a state is   *)
(* the state of ONE component, in the generic variables x1, x2, ..., with   *)
(* its name in part. Parts selects the components of a run.                 *)
(***************************************************************************)
EXTENDS Integers, Sequences, FiniteSets, TLC

CONSTANTS
    Parts,   \* the components that are explored
    Actors, Things,   \* two interchangeable tasks, two interchangeable objects
    Others            \* interchangeable requests

VARIABLES part,   \* the component that moves in this behaviour
          x1, x2, x3, x4, x5, x6, x7, x8, x9, x10, x11, x12, x13, x14, x15, x16, x17, x18 \* its variables, in the order of its declaration; 0 when it has fewer

vars == <<part, x1, x2, x3, x4, x5, x6, x7, x8, x9, x10, x11, x12, x13, x14, x15, x16, x17, x18>>

\* NeMo Gym: the image decides the pool of one spec, nothing that of the other.
NemoSpecs == {[valid |-> TRUE, pool |-> "no pool", image |-> "i", ttl |-> TRUE],
              [valid |-> TRUE, pool |-> "no pool", image |-> "other", ttl |-> FALSE]}
OneSpec == {[valid |-> TRUE, pool |-> "no pool", image |-> "i", ttl |-> FALSE]}

\* MCP: lengths and budgets around the digits of the count that is put in the middle.
McpLengths == {0, 1, 31, 63, 64, 65, 99, 100, 127, 128, 129, 9990, 9999, 10000, 10037, 10100,
               100000, 999999}
McpBudgets == {40, 64, 127, 128, 129, 131, 10000}

Blocks == [u \in {"long", "short", "other"} |->
             IF u = "long" THEN 3 ELSE IF u = "short" THEN 1 ELSE 2]

Hasty == [claims |-> Things, specs |-> NemoSpecs, waitDeleted |-> FALSE]
Patient == [claims |-> {"claim"}, specs |-> OneSpec, waitDeleted |-> TRUE]
Nemo(c) == INSTANCE NemoGym WITH
    Tasks <- Actors, Claims <- c.claims, Specs <- c.specs, ImagePools <- [i \in {"i"} |-> "q"],
    DefaultPool <- "no pool", NoPool <- "no pool", StableCount <- 2,
    WaitDeleted <- c.waitDeleted, MaxFaults <- 1, MoveTasks <- Actors, Names <- Things,
    MaxCalls <- 3, MoveMaxFaults <- 2, closed <- x1, client <- x2, lock <- x3, session <- x4,
    registry <- x5, expiring <- x6, claim <- x7, up <- x8, hd <- x9, th <- x10, outcome <- x11,
    stat <- x12, streak <- x13, acked <- x14, resent <- x15, lost <- x16, aclosed <- x17,
    faults <- x18, conn <- x1, path <- x2, refuses <- x3, staging <- x4, used <- x5,
    orphans <- x6, workdir <- x7, ran <- x8, moveTh <- x9, seen <- x10, calls <- x11,
    moveFaults <- x12

OneGateway == [gateways |-> {"g1"}, scopes |-> {"s1", "s2"}, anonymous |-> {"s2"},
               tTL |-> FALSE, maxFaults |-> 3]
TwoGateways == [gateways |-> Actors, scopes |-> {"s1"}, anonymous |-> {}, tTL |-> TRUE,
                maxFaults |-> 1]
Deer(c) == INSTANCE DeerFlow WITH
    Gateways <- c.gateways, Scopes <- c.scopes, Anonymous <- c.anonymous, TTL <- c.tTL,
    MaxUid <- 3, MaxCalls <- 4, MaxFaults <- c.maxFaults, Names <- {"mnt", "x"},
    Root <- <<"mnt">>, MaxPath <- 4, MaxLines <- 4, Entries <- {1, 2, 3, 4}, Floor <- 2,
    Slack <- 3, MaxResults <- 2, claim <- x1, nextUid <- x2, cache <- x3, op <- x4, mine <- x5,
    left <- x6, calls <- x7, faults <- x8, call <- x1, out <- x2

Derived == [pinned |-> FALSE, rebinds |-> FALSE, maxFaults |-> 2]
HostPinned == [pinned |-> TRUE, rebinds |-> TRUE, maxFaults |-> 0]
LateCommands == [late |-> TRUE]
PromptCommands == [late |-> FALSE]
OpenAI(c) == INSTANCE OpenAIAgents WITH
    MaxClaims <- 4, MaxSandboxes <- 5, Pinned <- c.pinned, Rebinds <- c.rebinds,
    MaxFaults <- c.maxFaults, Tasks <- Actors, Chunks <- 2, Limit <- 2, Late <- c.late,
    MaxCalls <- 3, ArchiveMaxFaults <- 2, claims <- x1, used <- x2, st <- x3, pc <- x4,
    handle <- x5, deleted <- x6, faults <- x7, target <- x1, staging <- x2, orphans <- x3,
    th <- x4, snapshot <- x5, failed <- x6, calls <- x7, archiveFaults <- x8

Mcp == INSTANCE McpTools WITH
    Sessions <- Actors, NoSession <- "none", Names <- Things, Calls <- {"call1", "call2"},
    MaxFaults <- 1, Lengths <- McpLengths, Budgets <- McpBudgets, Listings <- 0 .. 4,
    server <- x1, claim <- x2, handle <- x3, call <- x4, maker <- x5, faults <- x6, file <- x1,
    written <- x2, last <- x3

Sequential == [backends |-> Actors, maxClaims |-> 2,
               kinds |-> {"execute", "upload", "download"},
               fileStates |-> {"missing", "directory", "denied", "file"}, overlap |-> FALSE,
               threads |-> FALSE, mayUnbind |-> TRUE, mayRestart |-> TRUE]
Threaded == [backends |-> {"backend"}, maxClaims |-> 3, kinds |-> {"execute"},
             fileStates |-> {"missing"}, overlap |-> TRUE, threads |-> TRUE,
             mayUnbind |-> FALSE, mayRestart |-> FALSE]
Workspaces(c) == INSTANCE AgentWorkspaces WITH
    Cleaners <- Actors, MaxFaults <- 3, Shutdown <- TRUE, Backends <- c.backends,
    Calls <- Others, MaxClaims <- c.maxClaims, Kinds <- c.kinds, FileStates <- c.fileStates,
    Overlap <- c.overlap, Threads <- c.threads, MayUnbind <- c.mayUnbind,
    MayRestart <- c.mayRestart, config <- x1, init <- x2, claim <- x3, sandbox <- x4,
    client <- x5, owns <- x6, clean <- x7, faults <- x8, deepClaim <- x1, root <- x2,
    file <- x3, cached <- x4, ready <- x5, lastUsed <- x6, used <- x7, call <- x8

Serial == [ops |-> Others, maxClaims |-> 2, maxFaults |-> 1, portalOps |-> Actors \cup Things,
           portalMaxClaims |-> 4, maxPods |-> 5, overlap |-> FALSE, sweeper |-> FALSE,
           daemonFaults |-> {}]
Overlapping == [ops |-> Actors \cup {"op3"}, maxClaims |-> 1, maxFaults |-> 0,
                portalOps |-> Actors \cup {"op3"}, portalMaxClaims |-> 1, maxPods |-> 2,
                overlap |-> TRUE, sweeper |-> FALSE, daemonFaults |-> {}]
Swept == [portalOps |-> Others, portalMaxClaims |-> 1, maxPods |-> 3, overlap |-> TRUE,
          sweeper |-> TRUE, daemonFaults |-> {"bind"}]
Portals(c) == INSTANCE AgentPortals WITH
    Ops <- c.ops, MaxClaims <- c.maxClaims, Bodyless <- FALSE, MaxFaults <- c.maxFaults,
    PortalOps <- c.portalOps, PortalMaxClaims <- c.portalMaxClaims, MaxPods <- c.maxPods,
    MaxMounts <- 2, Overlap <- c.overlap, Sweeper <- c.sweeper, Timeouts <- {"adopt"},
    DaemonFaults <- c.daemonFaults, claim <- x1, token <- x2, box <- x3, in_flight <- x4,
    stamp <- x5, ended <- x6, op <- x7, sw <- x8, faults <- x9, portalClaim <- x1,
    portalToken <- x2, portalBox <- x3, pod <- x4, workspace <- x5, lost <- x6, alias <- x7,
    portalStamp <- x8, portalOp <- x9, portalSw <- x10

KnownSize == [declared |-> TRUE, spooled |-> {"long", "other"}, runtime |-> "python"]
UnknownSize == [declared |-> FALSE, spooled |-> {}, runtime |-> "firecracker"]
Runtimes(c) == INSTANCE SandboxRuntimes WITH
    Requests <- {"r1", "r2"}, Workers <- 1, Escapes <- FALSE, EnvTimeouts <- {0, 2, 4},
    AskedTimeouts <- {0, 1, 3}, DefaultTimeout <- 3, Sizes <- {0, 1, 2, 3, 4, 5, 8, 9, 12},
    ExecuteLimit <- 1, UploadLimit <- 2, Chunk <- 2, MaxRequests <- 2, Bytes <- {1, 2},
    Separator <- <<1, 1, 2>>, MaxBody <- 7, MaxRead <- 3, Step <- 1, Declared <- c.declared,
    Uploads <- Actors, Paths <- {"a", "b"}, MaxParts <- 2, MaxFaults <- 2,
    InPlaceUploads <- {"long", "short", "other"}, Downloads <- {"d1"}, Size <- Blocks,
    Spooled <- c.spooled, Runtime <- c.runtime, Overlap <- FALSE, env <- x1, req <- x2,
    leader <- x3, child <- x4, exit <- x5, bodyReq <- x1, body <- x2, wire <- x3, pc <- x4,
    bodyGot <- x5, close <- x6, answer <- x7, served <- x8, multiBody <- x1, multiAt <- x2,
    buf <- x3, file <- x4, allocated <- x5, state <- x6, atomicFile <- x1, temps <- x2,
    up <- x3, stuck <- x4, faults <- x5, inPlaceFile <- x1, inPlaceUp <- x2, down <- x3,
    order <- x4

-----------------------------------------------------------------------------
\* ZeroN and KeepN: the component has N - 1 variables, the others stay 0.
Zero13 == x13 = 0 /\ x14 = 0 /\ x15 = 0 /\ x16 = 0 /\ x17 = 0 /\ x18 = 0
Zero11 == x11 = 0 /\ x12 = 0 /\ Zero13
Zero10 == x10 = 0 /\ Zero11
Zero9 == x9 = 0 /\ Zero10
Zero8 == x8 = 0 /\ Zero9
Zero7 == x7 = 0 /\ Zero8
Zero6 == x6 = 0 /\ Zero7
Zero5 == x5 = 0 /\ Zero6
Zero4 == x4 = 0 /\ Zero5
Zero3 == x3 = 0 /\ Zero4
Keep19 == UNCHANGED part
Keep13 == UNCHANGED <<part, x13, x14, x15, x16, x17, x18>>
Keep11 == UNCHANGED <<part, x11, x12, x13, x14, x15, x16, x17, x18>>
Keep10 == UNCHANGED <<part, x10, x11, x12, x13, x14, x15, x16, x17, x18>>
Keep9 == UNCHANGED <<part, x9, x10, x11, x12, x13, x14, x15, x16, x17, x18>>
Keep8 == UNCHANGED <<part, x8, x9, x10, x11, x12, x13, x14, x15, x16, x17, x18>>
Keep7 == UNCHANGED <<part, x7, x8, x9, x10, x11, x12, x13, x14, x15, x16, x17, x18>>
Keep6 == UNCHANGED <<part, x6, x7, x8, x9, x10, x11, x12, x13, x14, x15, x16, x17, x18>>
Keep5 == UNCHANGED <<part, x5, x6, x7, x8, x9, x10, x11, x12, x13, x14, x15, x16, x17, x18>>
Keep4 == UNCHANGED <<part, x4, x5, x6, x7, x8, x9, x10, x11, x12, x13, x14, x15, x16, x17, x18>>
Keep3 == UNCHANGED <<part, x3, x4, x5, x6, x7, x8, x9, x10, x11, x12, x13, x14, x15, x16, x17, x18>>

\* One component moves, from its own initial states; the others are not there.
Init ==
    /\ part \in Parts
    /\ \/ part = "nemo" /\ Nemo(Hasty)!NemoInit
       \/ part = "nemo-wait" /\ Nemo(Patient)!NemoInit
       \/ part = "nemo-files" /\ Nemo(Hasty)!MoveInit /\ Zero13
       \/ part = "deer" /\ Deer(OneGateway)!DeerInit /\ Zero9
       \/ part = "deer-shared" /\ Deer(TwoGateways)!DeerInit /\ Zero9
       \/ part = "deer-tools" /\ Deer(OneGateway)!ToolInit /\ Zero3
       \/ part = "sessions" /\ OpenAI(Derived)!SessionInit /\ Zero8
       \/ part = "sessions-pinned" /\ OpenAI(HostPinned)!SessionInit /\ Zero8
       \/ part = "archive" /\ OpenAI(LateCommands)!ArchiveInit /\ Zero9
       \/ part = "archive-prompt" /\ OpenAI(PromptCommands)!ArchiveInit /\ Zero9
       \/ part = "mcp" /\ Mcp!McpInit /\ Zero7
       \/ part = "mcp-results" /\ Mcp!TextInit /\ Zero4
       \/ part = "openhands" /\ Workspaces(Sequential)!HandsInit /\ Zero9
       \/ part = "deepagents" /\ Workspaces(Sequential)!DeepInit /\ Zero9
       \/ part = "deepagents-threads" /\ Workspaces(Threaded)!DeepInit /\ Zero9
       \/ part = "gateway" /\ Portals(Serial)!GateInit /\ Zero10
       \/ part = "portal" /\ Portals(Serial)!PortalInit /\ Zero11
       \/ part = "gateway-deleted" /\ Portals(Overlapping)!GateInit /\ Zero10
       \/ part = "portal-races" /\ Portals(Overlapping)!PortalInit /\ Zero11
       \/ part = "portal-swept" /\ Portals(Swept)!PortalInit /\ Zero11
       \/ part = "exec" /\ Runtimes(KnownSize)!ExecInit /\ Zero6
       \/ part = "keepalive" /\ Runtimes(KnownSize)!BodyInit /\ Zero9
       \/ part = "upload" /\ Runtimes(KnownSize)!MultiInit /\ Zero7
       \/ part = "upload-chunked" /\ Runtimes(UnknownSize)!MultiInit /\ Zero7
       \/ part = "atomic" /\ Runtimes(KnownSize)!AtomicInit /\ Zero6
       \/ part = "in-place" /\ Runtimes(KnownSize)!InPlaceInit /\ Zero5
       \/ part = "in-place-copied" /\ Runtimes(UnknownSize)!InPlaceInit /\ Zero5

Next ==
    \/ part = "nemo" /\ Nemo(Hasty)!NemoNext /\ Keep19
    \/ part = "nemo-wait" /\ Nemo(Patient)!NemoNext /\ Keep19
    \/ part = "nemo-files" /\ Nemo(Hasty)!MoveNext /\ Keep13
    \/ part = "deer" /\ Deer(OneGateway)!DeerNext /\ Keep9
    \/ part = "deer-shared" /\ Deer(TwoGateways)!DeerNext /\ Keep9
    \/ part = "deer-tools" /\ Deer(OneGateway)!ToolNext /\ Keep3
    \/ part = "sessions" /\ OpenAI(Derived)!SessionNext /\ Keep8
    \/ part = "sessions-pinned" /\ OpenAI(HostPinned)!SessionNext /\ Keep8
    \/ part = "archive" /\ OpenAI(LateCommands)!ArchiveNext /\ Keep9
    \/ part = "archive-prompt" /\ OpenAI(PromptCommands)!ArchiveNext /\ Keep9
    \/ part = "mcp" /\ Mcp!McpNext /\ Keep7
    \/ part = "mcp-results" /\ Mcp!TextNext /\ Keep4
    \/ part = "openhands" /\ Workspaces(Sequential)!HandsNext /\ Keep9
    \/ part = "deepagents" /\ Workspaces(Sequential)!DeepNext /\ Keep9
    \/ part = "deepagents-threads" /\ Workspaces(Threaded)!DeepNext /\ Keep9
    \/ part = "gateway" /\ Portals(Serial)!GateNext /\ Keep10
    \/ part = "portal" /\ Portals(Serial)!PortalNext /\ Keep11
    \/ part = "gateway-deleted" /\ Portals(Overlapping)!GateNext /\ Keep10
    \/ part = "portal-races" /\ Portals(Overlapping)!PortalNext /\ Keep11
    \/ part = "portal-swept" /\ Portals(Swept)!PortalNext /\ Keep11
    \/ part = "exec" /\ Runtimes(KnownSize)!ExecNext /\ Keep6
    \/ part = "keepalive" /\ Runtimes(KnownSize)!BodyNext /\ Keep9
    \/ part = "upload" /\ Runtimes(KnownSize)!MultiNext /\ Keep7
    \/ part = "upload-chunked" /\ Runtimes(UnknownSize)!MultiNext /\ Keep7
    \/ part = "atomic" /\ Runtimes(KnownSize)!AtomicNext /\ Keep6
    \/ part = "in-place" /\ Runtimes(KnownSize)!InPlaceNext /\ Keep5
    \/ part = "in-place-copied" /\ Runtimes(UnknownSize)!InPlaceNext /\ Keep5

Spec == Init /\ [][Next]_vars

Symmetry == Permutations(Actors) \cup Permutations(Things) \cup Permutations(Others)

-----------------------------------------------------------------------------
\* Whatever fails, nothing is left that nobody will remove: claims of a failed create or
\* acquire (FailedCreateCleans, NewClaimRolledBack), of a release that reports success
\* (ReleasedIsGone) or of a workspace (HeldUntilReleased), clients after aclose()
\* (NoClientAfterAclose), staged and temporary files (WriteCleansUp, StagingCollected,
\* NothingLeftBehind), processes of a command that timed out (NothingOutlives) and
\* reservations of the gateway (CountIsExact).
NothingOrphaned ==
    /\ part = "nemo" =>
          /\ Nemo(Hasty)!FailedCreateCleans
          /\ Nemo(Hasty)!NoClientAfterAclose
    /\ part = "deer" =>
          /\ Deer(OneGateway)!NewClaimRolledBack
          /\ Deer(OneGateway)!ReleasedIsGone
    /\ part = "archive" => OpenAI(LateCommands)!WriteCleansUp
    /\ part = "archive-prompt" => OpenAI(PromptCommands)!StagingCollected
    /\ part = "openhands" => Workspaces(Sequential)!HeldUntilReleased
    /\ part = "gateway" => Portals(Serial)!CountIsExact
    /\ part = "gateway-deleted" => Portals(Overlapping)!CountIsExact
    /\ part = "exec" => Runtimes(KnownSize)!NothingOutlives
    /\ part = "atomic" => Runtimes(KnownSize)!NothingLeftBehind

\* Contents pass unharmed, however calls overlap and reads cut them: one upload's bytes and no
\* others (UploadLands, NeverMixed, LastIsSaved, CopiesContent), what the path held
\* (DownloadIsACopy, DownloadIsWhole, RoundTrip, SnapshotIsHydratable), the next request where
\* the last one ended (InSync, AnswerReaches), searches that say when they are cut
\* (UntruncatedIsComplete, WindowsTile), output within its budget (WithinBudget, FairShare),
\* memory in proportion (AllocationBounded), and the true exit of a command (ExitIsTrue).
ContentIsWhole ==
    /\ part = "nemo-files" =>
          /\ Nemo(Hasty)!UploadLands
          /\ Nemo(Hasty)!DownloadIsACopy
    /\ part = "deer-tools" =>
          /\ Deer(OneGateway)!WindowsTile
          /\ Deer(OneGateway)!UntruncatedIsComplete
    /\ part = "archive" =>
          /\ OpenAI(LateCommands)!NeverMixed
          /\ OpenAI(LateCommands)!SnapshotIsHydratable
    /\ part = "mcp-results" =>
          /\ Mcp!WithinBudget
          /\ Mcp!FairShare
          /\ Mcp!RoundTrip
    /\ part = "exec" => Runtimes(KnownSize)!ExitIsTrue
    /\ part = "keepalive" =>
          /\ Runtimes(KnownSize)!InSync
          /\ Runtimes(KnownSize)!AnswerReaches
    /\ part = "upload" =>
          /\ Runtimes(KnownSize)!CopiesContent
          /\ Runtimes(KnownSize)!AllocationBounded
    /\ part = "upload-chunked" =>
          /\ Runtimes(UnknownSize)!CopiesContent
          /\ Runtimes(UnknownSize)!AllocationBounded
    /\ part = "in-place" =>
          /\ Runtimes(KnownSize)!LastIsSaved
          /\ Runtimes(KnownSize)!DownloadIsWhole
    /\ part = "in-place-copied" =>
          /\ Runtimes(UnknownSize)!LastIsSaved
          /\ Runtimes(UnknownSize)!DownloadIsWhole

\* Every session, user and thread gets its own sandbox and keeps it: the saved state and the
\* reported host follow the handle (StateFollowsHandle, HostFollowsSandbox), a session works
\* on what it created and finds it again (OwnSandboxesOnly, ReturnedIsListed), a scope has one
\* sandbox with its directory (OneForScope, BackendKeepsSandbox, RootBeforeUse), paths stay
\* below the root (Confined), one signup wins (OneSignup), no agent is suspended under a
\* request (ServedWhileRunning), and an employee keeps workspace and token (WorkspaceSurvives,
\* IdentityPersists).
EachToItsOwn ==
    /\ part = "deer-tools" => Deer(OneGateway)!Confined
    /\ part = "sessions" =>
          /\ OpenAI(Derived)!StateFollowsHandle
          /\ OpenAI(Derived)!HostFollowsSandbox
    /\ part = "mcp" =>
          /\ Mcp!OwnSandboxesOnly
          /\ Mcp!ReturnedIsListed
    /\ part = "deepagents" =>
          /\ Workspaces(Sequential)!OneForScope
          /\ Workspaces(Sequential)!BackendKeepsSandbox
    /\ part = "deepagents-threads" => Workspaces(Threaded)!RootBeforeUse
    /\ part = "gateway" =>
          /\ Portals(Serial)!ServedWhileRunning
          /\ Portals(Serial)!OneSignup
    /\ part = "portal" =>
          /\ Portals(Serial)!WorkspaceSurvives
          /\ Portals(Serial)!IdentityPersists
    /\ part = "gateway-deleted" =>
          /\ Portals(Overlapping)!ServedWhileRunning
          /\ Portals(Overlapping)!OneSignup
    /\ part = "portal-swept" => Portals(Swept)!IdentityPersists

\* What a step reports or undoes is right at that moment: rollbacks delete their own claim
\* (RollbackOnlyOwn, FailedCreateRollsBack, FailedInitReleases), a handle is of the claim of
\* now (AcquiredIsCurrent), only a claim that is gone is replaced (ReplacesOnlyGone), STOPPED
\* is final (StoppedIsFinal), a late decode overwrites nothing (LateDecodeIsFenced), an upload
\* that succeeded is in place whole (InPlaceIsWhole, AnswerIsTrue), a drained connection is
\* kept (DrainedIsKept), and a ready employee has a bound pod (ReadyIsBound).
AnswersAreTrue ==
    [][/\ part = "nemo" => Nemo(Hasty)!StoppedIsFinal
       /\ part = "deer" => Deer(OneGateway)!RollbackOnlyOwn
       /\ part = "deer-shared" => Deer(TwoGateways)!AcquiredIsCurrent
       /\ part = "sessions-pinned" => OpenAI(HostPinned)!ReplacesOnlyGone
       /\ part = "archive" => OpenAI(LateCommands)!LateDecodeIsFenced
       /\ part = "mcp" => Mcp!FailedCreateRollsBack
       /\ part = "openhands" => Workspaces(Sequential)!FailedInitReleases
       /\ part = "portal" => Portals(Serial)!ReadyIsBound
       /\ part = "keepalive" => Runtimes(KnownSize)!DrainedIsKept
       /\ part = "atomic" =>
             /\ Runtimes(KnownSize)!InPlaceIsWhole
             /\ Runtimes(KnownSize)!AnswerIsTrue]_vars
=============================================================================
