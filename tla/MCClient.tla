------------------------------ MODULE MCClient ------------------------------
(***************************************************************************)
(* Instances of the components of the client SDK (clients/python            *)
(* k8s_agent_sandbox: transports, request routing, process streams, the     *)
(* handle registry, the claim watch, file transfer, snapshots) and of the   *)
(* sandbox router they talk through, for TLC. Each component models what    *)
(* the others may do to it, so a state is the state of ONE component, in    *)
(* the generic variables x1, x2, ..., with its name in part. Parts selects  *)
(* the components of a run.                                                 *)
(***************************************************************************)
EXTENDS Integers, Sequences, FiniteSets, TLC

CONSTANTS
    Parts,   \* the components that are explored
    Unlimited,        \* no download limit
    Actors, Things    \* two interchangeable callers, two interchangeable objects

VARIABLES part,   \* the component that moves in this behaviour
          x1, x2, x3, x4, x5, x6, x7, x8, x9, x10, x11, x12, x13, x14, x15 \* its variables, in the order of its declaration; 0 when it has fewer

vars == <<part, x1, x2, x3, x4, x5, x6, x7, x8, x9, x10, x11, x12, x13, x14, x15>>

PodTunnel == [mode |-> "podTunnel",
              faults |-> {"die", "start", "stuck", "swap", "net", "close"}, maxFaults |-> 2]
PodIp == [mode |-> "podIp", faults |-> {"start", "swap", "net", "close"}, maxFaults |-> 2]
Service == [mode |-> "service", faults |-> {"start", "net", "close"}, maxFaults |-> 2]
StuckTunnel == [mode |-> "podTunnel", faults |-> {"start", "stuck"}, maxFaults |-> 3]
Transport(c) == INSTANCE SandboxTransports WITH
    Mode <- c.mode, Callers <- Actors, Ops <- {"http", "grpc"}, Faults <- c.faults,
    MaxFaults <- c.maxFaults, Tasks <- Actors, Closer <- "closer",
    AsyncFaults <- {"cancel", "die", "start", "pod", "error", "exit"}, AsyncMaxFaults <- 4,
    pod <- x1, running <- x2, proc <- x3, url <- x4, target <- x5, chan <- x6, open <- x7,
    token <- x8, inc <- x9, pc <- x10, loc <- x11, res <- x12, stale <- x13, faults <- x14,
    asyncRunning <- x1, asyncProc <- x2, asyncTarget <- x3, ctarget <- x4, asyncChan <- x5,
    asyncOpen <- x6, closed <- x7, complete <- x8, lock <- x9, asyncPc <- x10, asyncLoc <- x11,
    errs <- x12, asyncRes <- x13, exited <- x14, asyncFaults <- x15

Routed == [mode |-> "router", tasks |-> Actors, methods |-> {"GET", "POST", "BODY"},
           faults |-> {"swap", "status", "lost", "connect", "auth", "close"}, maxFaults |-> 2]
Direct == [mode |-> "inCluster", tasks |-> Actors, methods |-> {"GET", "POST"},
           faults |-> {"swap", "lost", "connect", "api", "close"}, maxFaults |-> 2]
Alone == [mode |-> "inCluster", tasks |-> {"task"}, methods |-> {"GET", "POST"},
          faults |-> {"swap", "lost", "connect", "api", "status"}, maxFaults |-> 3]
Routing(c) == INSTANCE RequestRouting WITH
    Mode <- c.mode, Tasks <- c.tasks, Methods <- c.methods, MaxRetries <- 1, Faults <- c.faults,
    MaxFaults <- c.maxFaults, pod <- x1, ip <- x2, authFailed <- x3, client <- x4, closed <- x5,
    lock <- x6, pc <- x7, loc <- x8, exec <- x9, last <- x10, faults <- x11

SyncCalls == [tasks |-> {"t1"}, generated |-> {"g1"},
              ops |-> {"create", "named", "adopt", "get", "delete", "terminate", "close", "exit"},
              maxOps |-> 4, maxUid |-> 3, faults |-> {"lost", "wait", "read", "refused"},
              foreign |-> {"n1"}]
ExitCalls == [tasks |-> {"t1"}, generated |-> {"g1", "g2"},
              ops |-> {"create", "named", "get", "list", "close", "exit", "delete"},
              maxOps |-> 4, maxUid |-> 4, faults |-> {"delete", "wait", "lost"}, foreign |-> {}]
AsyncCalls == [tasks |-> {"t1", "t2"}, generated |-> {"g1"},
               ops |-> {"create", "adopt", "delete", "get"}, maxOps |-> 3, maxUid |-> 2,
               faults |-> {"lost", "wait", "cancel"}, foreign |-> {"n1"}]
CollideCalls == [tasks |-> {"t1"}, generated |-> {"g1", "g2"},
                 ops |-> {"create", "adopt", "delete"}, maxOps |-> 3, maxUid |-> 3,
                 faults |-> {"wait"}, foreign |-> {"g1", "n1"}]
Registry(c) == INSTANCE ClientRegistry WITH
    Tasks <- c.tasks, Generated <- c.generated, Explicit <- {"n1"}, Ops <- c.ops,
    MaxOps <- c.maxOps, MaxUid <- c.maxUid, Faults <- c.faults, MaxFaults <- 1,
    Foreign <- c.foreign, claims <- x1, uids <- x2, ours <- x3, registry <- x4, explicit <- x5,
    hs <- x6, nh <- x7, drawn <- x8, loc <- x9, ops <- x10, faults <- x11, exited <- x12

ThreadRead == [procKind |-> "sync"]
TaskRead == [procKind |-> "async"]
PinnedWait == [watchKind |-> "ready", pinned |-> TRUE, generation |-> FALSE,
               conds |-> {"true", "terminal"}, maxBreaks |-> 1]
ResolveWait == [watchKind |-> "resolve", pinned |-> FALSE, generation |-> FALSE,
                conds |-> {"true", "terminal"}, maxBreaks |-> 2]
GenerationWait == [watchKind |-> "ready", pinned |-> FALSE, generation |-> TRUE,
                   conds |-> {"true", "false"}, maxBreaks |-> 1]
SandboxWait == [watchKind |-> "sandbox", pinned |-> FALSE, generation |-> FALSE,
                conds |-> {"true", "false"}, maxBreaks |-> 1]
GatewayWait == [watchKind |-> "gateway", pinned |-> FALSE, generation |-> FALSE,
                conds |-> {"true", "false"}, maxBreaks |-> 1]
Streams(c) == INSTANCE ClientStreams WITH
    ProcKind <- c.procKind, Frames <- {"init", "zero", "out", "exit", "odd"}, MaxFrames <- 4,
    WatchKind <- c.watchKind, Pinned <- c.pinned, Generation <- c.generation, Conds <- c.conds,
    MaxWrites <- 4, MaxBreaks <- c.maxBreaks, sent <- x1, wire <- x2, stream <- x3,
    process <- x4, start <- x5, timer <- x6, finished <- x7, iter <- x8, out <- x9,
    closedBy <- x10, sig <- x11, log <- x1, old <- x2, rv <- x3, pos <- x4, initial <- x5,
    expired <- x6, breaks <- x7, seen <- x8, result <- x9

Limited == [conns |-> Actors, requests |-> {}, peers |-> {"p", "q", "x"}, trusted |-> {"x"},
            headers |-> {<<"q">>, <<"p", "x">>}, events |-> {"backend"}, idle |-> FALSE,
            lifetime |-> FALSE]
Relaying == [conns |-> {"c1"}, requests |-> {"r1"}, peers |-> {"p"}, trusted |-> {},
             headers |-> {}, events |-> {"client", "backend", "quiet", "aged"}, idle |-> TRUE,
             lifetime |-> TRUE]
Router(c) == INSTANCE SandboxRouter WITH
    Conns <- c.conns, Requests <- c.requests, Peers <- c.peers, Trusted <- c.trusted,
    Headers <- c.headers, Events <- c.events, Limit <- 1, Idle <- c.idle,
    Lifetime <- c.lifetime, pc <- x1, from <- x2, count <- x3, client <- x4, backend <- x5,
    c2b <- x6, b2c <- x7, quiet <- x8, aged <- x9, dog <- x10, told <- x11, http <- x12

Faulty == [faults |-> {"refuse", "watch", "slow", "failed", "empty", "other", "get", "list", "claim"},
           maxFaults |-> 2, maxPods |-> 3, suspendMaxCalls |-> 5,
           suspendFaults |-> {"mode", "pod", "list", "claim", "patch", "lost", "snapshot", "late", "raise", "slow", "fresh"},
           legacy |-> TRUE]
Clean == [maxPods |-> 4, suspendMaxCalls |-> 6,
          suspendFaults |-> {"snapshot", "list", "claim", "fresh"}, legacy |-> FALSE]
Lossy == [faults |-> {"lost"}, maxFaults |-> 1]
Snapshotting(c) == INSTANCE Snapshots WITH
    Triggers <- Things, MaxSnaps <- 3, Foreign <- {2}, MaxCalls <- 4, Faults <- c.faults,
    MaxFaults <- c.maxFaults, MaxRetries <- 2, SuspendMaxSnaps <- 2, MaxPods <- c.maxPods,
    SuspendMaxCalls <- c.suspendMaxCalls, SuspendFaults <- c.suspendFaults,
    SuspendMaxFaults <- 2, Legacy <- c.legacy, trigger <- x1, snap <- x2, claim <- x3,
    news <- x4, made <- x5, attached <- x6, pc <- x7, call <- x8, answer <- x9, calls <- x10,
    faults <- x11, mode <- x1, ann <- x2, sbann <- x3, named <- x4, pod <- x5, born <- x6,
    snaps <- x7, cached <- x8, suspendPc <- x9, suspendCall <- x10, suspendAnswer <- x11,
    suspendCalls <- x12, suspendFaults <- x13

Files == INSTANCE ClientFiles WITH
    Sizes <- {0, 1, 2, 3, 4, 5}, Limits <- {0, 1, 2, 4}, NoLimit <- Unlimited, MaxAttempts <- 3,
    Names <- {"a", "app"}, MaxSegments <- 5, Base <- <<"app">>, call <- x1, source <- x2,
    stored <- x3, dest <- x4, response <- x5, transport <- x6, path <- x1, clean <- x2,
    sent <- x3, endpoint <- x4, place <- x5, placeSent <- x6, placeFc <- x7

-----------------------------------------------------------------------------
\* ZeroN and KeepN: the component has N - 1 variables, the others stay 0.
Zero15 == x15 = 0
Zero14 == x14 = 0 /\ Zero15
Zero13 == x13 = 0 /\ Zero14
Zero12 == x12 = 0 /\ Zero13
Zero10 == x10 = 0 /\ x11 = 0 /\ Zero12
Zero8 == x8 = 0 /\ x9 = 0 /\ Zero10
Zero7 == x7 = 0 /\ Zero8
Keep16 == UNCHANGED part
Keep15 == UNCHANGED <<part, x15>>
Keep14 == UNCHANGED <<part, x14, x15>>
Keep13 == UNCHANGED <<part, x13, x14, x15>>
Keep12 == UNCHANGED <<part, x12, x13, x14, x15>>
Keep10 == UNCHANGED <<part, x10, x11, x12, x13, x14, x15>>
Keep8 == UNCHANGED <<part, x8, x9, x10, x11, x12, x13, x14, x15>>
Keep7 == UNCHANGED <<part, x7, x8, x9, x10, x11, x12, x13, x14, x15>>

\* One component moves, from its own initial states; the others are not there.
Init ==
    /\ part \in Parts
    /\ \/ part = "tunnel" /\ Transport(PodTunnel)!ThreadInit /\ Zero15
       \/ part = "direct" /\ Transport(PodIp)!ThreadInit /\ Zero15
       \/ part = "service" /\ Transport(Service)!ThreadInit /\ Zero15
       \/ part = "tunnel-stuck" /\ Transport(StuckTunnel)!ThreadInit /\ Zero15
       \/ part = "routed" /\ Routing(Routed)!Init /\ Zero12
       \/ part = "routed-direct" /\ Routing(Direct)!Init /\ Zero12
       \/ part = "routed-alone" /\ Routing(Alone)!Init /\ Zero12
       \/ part = "async-tunnel" /\ Transport(PodTunnel)!AsyncInit
       \/ part = "stream" /\ Streams(ThreadRead)!ProcInit /\ Zero12
       \/ part = "stream-async" /\ Streams(TaskRead)!ProcInit /\ Zero12
       \/ part = "registry" /\ Registry(SyncCalls)!Init /\ Zero13
       \/ part = "registry-exit" /\ Registry(ExitCalls)!Init /\ Zero13
       \/ part = "registry-async" /\ Registry(AsyncCalls)!Init /\ Zero13
       \/ part = "registry-collide" /\ Registry(CollideCalls)!Init /\ Zero13
       \/ part = "watch" /\ Streams(PinnedWait)!WatchInit /\ Zero10
       \/ part = "watch-resolve" /\ Streams(ResolveWait)!WatchInit /\ Zero10
       \/ part = "watch-generation" /\ Streams(GenerationWait)!WatchInit /\ Zero10
       \/ part = "watch-sandbox" /\ Streams(SandboxWait)!WatchInit /\ Zero10
       \/ part = "watch-gateway" /\ Streams(GatewayWait)!WatchInit /\ Zero10
       \/ part = "router-limit" /\ Router(Limited)!Init /\ Zero13
       \/ part = "router-relay" /\ Router(Relaying)!Init /\ Zero13
       \/ part = "snapshots" /\ Snapshotting(Faulty)!EngineInit /\ Zero12
       \/ part = "snapshots-lost" /\ Snapshotting(Lossy)!EngineInit /\ Zero12
       \/ part = "suspend" /\ Snapshotting(Faulty)!SuspendInit /\ Zero14
       \/ part = "suspend-clean" /\ Snapshotting(Clean)!SuspendInit /\ Zero14
       \/ part = "files" /\ Files!FileInit /\ Zero7
       \/ part = "paths" /\ Files!PathInit /\ Zero8

Next ==
    \/ part = "tunnel" /\ Transport(PodTunnel)!ThreadNext /\ Keep15
    \/ part = "direct" /\ Transport(PodIp)!ThreadNext /\ Keep15
    \/ part = "service" /\ Transport(Service)!ThreadNext /\ Keep15
    \/ part = "tunnel-stuck" /\ Transport(StuckTunnel)!ThreadNext /\ Keep15
    \/ part = "routed" /\ Routing(Routed)!Next /\ Keep12
    \/ part = "routed-direct" /\ Routing(Direct)!Next /\ Keep12
    \/ part = "routed-alone" /\ Routing(Alone)!Next /\ Keep12
    \/ part = "async-tunnel" /\ Transport(PodTunnel)!AsyncNext /\ Keep16
    \/ part = "stream" /\ Streams(ThreadRead)!ProcNext /\ Keep12
    \/ part = "stream-async" /\ Streams(TaskRead)!ProcNext /\ Keep12
    \/ part = "registry" /\ Registry(SyncCalls)!Next /\ Keep13
    \/ part = "registry-exit" /\ Registry(ExitCalls)!Next /\ Keep13
    \/ part = "registry-async" /\ Registry(AsyncCalls)!Next /\ Keep13
    \/ part = "registry-collide" /\ Registry(CollideCalls)!Next /\ Keep13
    \/ part = "watch" /\ Streams(PinnedWait)!WatchNext /\ Keep10
    \/ part = "watch-resolve" /\ Streams(ResolveWait)!WatchNext /\ Keep10
    \/ part = "watch-generation" /\ Streams(GenerationWait)!WatchNext /\ Keep10
    \/ part = "watch-sandbox" /\ Streams(SandboxWait)!WatchNext /\ Keep10
    \/ part = "watch-gateway" /\ Streams(GatewayWait)!WatchNext /\ Keep10
    \/ part = "router-limit" /\ Router(Limited)!Next /\ Keep13
    \/ part = "router-relay" /\ Router(Relaying)!Next /\ Keep13
    \/ part = "snapshots" /\ Snapshotting(Faulty)!EngineNext /\ Keep12
    \/ part = "snapshots-lost" /\ Snapshotting(Lossy)!EngineNext /\ Keep12
    \/ part = "suspend" /\ Snapshotting(Faulty)!SuspendNext /\ Keep14
    \/ part = "suspend-clean" /\ Snapshotting(Clean)!SuspendNext /\ Keep14
    \/ part = "files" /\ Files!FileNext /\ Keep7
    \/ part = "paths" /\ Files!Call /\ Keep8

Spec == Init /\ [][Next]_vars

Symmetry == Permutations(Actors) \cup Permutations(Things)

-----------------------------------------------------------------------------
\* Everything the client and the router open has an owner that will close it: tunnels
\* (OneTunnel, NoTunnelOrphan), streams (NoUnownedStream), claims (NoClaimOrphan,
\* ExitLeavesNothing), backend sockets and their slots (NoBackendLeak, CountExact); and what
\* is closed stays closed (ClosedStaysClosed, CloseIsFinal).
NothingOrphaned ==
    /\ part = "tunnel" => Transport(PodTunnel)!OneTunnel
    /\ part = "tunnel-stuck" => Transport(StuckTunnel)!OneTunnel
    /\ part = "routed" => Routing(Routed)!ClosedStaysClosed
    /\ part = "async-tunnel" =>
          /\ Transport(PodTunnel)!NoOrphan
          /\ Transport(PodTunnel)!CloseIsFinal
    /\ part = "stream" => Streams(ThreadRead)!NoUnownedStream
    /\ part = "stream-async" => Streams(TaskRead)!NoUnownedStream
    /\ part = "registry" =>
          /\ Registry(SyncCalls)!NoOrphan
          /\ Registry(SyncCalls)!ExitLeavesNothing
    /\ part = "registry-async" => Registry(AsyncCalls)!NoOrphan
    /\ part = "router-limit" => Router(Limited)!CountExact
    /\ part = "router-relay" =>
          /\ Router(Relaying)!CountExact
          /\ Router(Relaying)!NoBackendLeak

\* What a call reports has happened: a claim that is ready was seen ready, a terminal failure
\* was not waited past (SuccessIsReady, FailsFast), a process exits once and last
\* (OneExitLast), a request acts once (ActsOnce), a deleted snapshot is gone and no other with
\* it (DeletedIsGone, OnlyOwn), terminate() reaches the claim (TerminateReaches), and a peer
\* has no more connections than its limit (PeerLimit).
AnswersAreTrue ==
    /\ part = "routed" => Routing(Routed)!ActsOnce
    /\ part = "routed-direct" => Routing(Direct)!ActsOnce
    /\ part = "routed-alone" => Routing(Alone)!ActsOnce
    /\ part = "stream" => Streams(ThreadRead)!OneExitLast
    /\ part = "watch" =>
          /\ Streams(PinnedWait)!SuccessIsReady
          /\ Streams(PinnedWait)!FailsFast
    /\ part = "watch-resolve" => Streams(ResolveWait)!FailsFast
    /\ part = "watch-generation" => Streams(GenerationWait)!SuccessIsReady
    /\ part = "router-limit" => Router(Limited)!PeerLimit
    /\ part = "snapshots" =>
          /\ Snapshotting(Faulty)!DeletedIsGone
          /\ Snapshotting(Faulty)!OnlyOwn
          /\ Snapshotting(Faulty)!TerminateReaches
    /\ part = "snapshots-lost" =>
          /\ Snapshotting(Lossy)!DeletedIsGone
          /\ Snapshotting(Lossy)!OnlyOwn
          /\ Snapshotting(Lossy)!TerminateReaches

\* Files arrive whole, within their limits and at the place the path names: uploads, downloads
\* and their limits (UploadIsWhole, DownloadIsWhole, LimitHolds), and paths on which client
\* and runtimes agree and which never lead outside (SdkPathAccepted, RuntimeConfines).
ContentIsWhole ==
    /\ part = "files" =>
          /\ Files!UploadIsWhole
          /\ Files!LimitHolds
          /\ Files!DownloadIsWhole
    /\ part = "paths" =>
          /\ Files!RuntimeConfines
          /\ Files!SdkPathAccepted

\* A late or failing step harms nothing but its own: a channel handed out is current
\* (ChannelIsCurrent), a late failure closes no newer channel (LateFailureSpares), clean-up and
\* rollback delete no claim of others (ExplicitSurvives, RollbackSparesOthers), a handle is of
\* the validated claim (PinnedHandle), a watch never goes back (NeverBack), one failing
\* deletion does not stop the others (DeletesEach), and a sandbox is stopped with its snapshot
\* complete and started from the right one (NoStopWithoutSnapshot, StartsFromPin,
\* RestoredPodIsNew).
LateStepsSpareOthers ==
    [][/\ part = "direct" =>
             /\ Transport(PodIp)!ChannelIsCurrent
             /\ Transport(PodIp)!LateFailureSpares
       /\ part = "service" => Transport(Service)!LateFailureSpares
       /\ part = "registry" =>
             /\ Registry(SyncCalls)!ExplicitSurvives
             /\ Registry(SyncCalls)!PinnedHandle
       /\ part = "registry-exit" => Registry(ExitCalls)!ExplicitSurvives
       /\ part = "registry-async" => Registry(AsyncCalls)!PinnedHandle
       /\ part = "registry-collide" => Registry(CollideCalls)!RollbackSparesOthers
       /\ part = "watch" => Streams(PinnedWait)!NeverBack
       /\ part = "watch-resolve" => Streams(ResolveWait)!NeverBack
       /\ part = "snapshots" => Snapshotting(Faulty)!DeletesEach
       /\ part = "suspend" =>
             /\ Snapshotting(Faulty)!NoStopWithoutSnapshot
             /\ Snapshotting(Faulty)!StartsFromPin
       /\ part = "suspend-clean" => Snapshotting(Clean)!RestoredPodIsNew]_vars
=============================================================================
