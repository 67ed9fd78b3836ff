------------------------------- MODULE MCLive -------------------------------
(***************************************************************************)
(* Small instances of the components whose progress matters, for TLC: what  *)
(* must eventually happen, under the fairness that the scheduling of the    *)
(* code gives. A state is the state of ONE component, in the generic        *)
(* variables x1, x2, ..., with its name in part. The sections of a module   *)
(* that are not used here have 0 for their constants.                       *)
(***************************************************************************)
EXTENDS Integers, Sequences, FiniteSets, TLC

CONSTANTS
    Parts,   \* the components that are explored
    Nobody            \* the holder of a free Lease

VARIABLES part,   \* the component that moves in this behaviour
          x1, x2, x3, x4, x5, x6, x7, x8, x9, x10, x11, x12, x13, x14, x15, x16 \* its variables, in the order of its declaration; 0 when it has fewer

vars == <<part, x1, x2, x3, x4, x5, x6, x7, x8, x9, x10, x11, x12, x13, x14, x15, x16>>

Dog == INSTANCE TaskIntake WITH
    Images <- 0, Loaded <- 0, Batches <- 0, Adders <- 0, Planners <- 0, Adopt <- 0, Served <- 0,
    Faults <- 0, MaxCalls <- 0, Grace <- 2, SchedGrace <- 2, NoGrace <- 99, Delay <- 1,
    Poll <- 1, Containers <- {"creating", "invalid"}, DogFaults <- {}, MaxTime <- 4,
    tasks <- x1, planned <- x2, plan <- x3, pc <- x4, batch <- x5, counts <- x6, calls <- x7,
    accepted <- x8, failed <- x9, now <- x1, pod <- x2, podName <- x3, first <- x4, last <- x5,
    nextPoll <- x6, wd <- x7, judged <- x8, verdict <- x9, deletedClaim <- x10, stopSet <- x11,
    decideLock <- x12, acquirer <- x13, claim <- x14, log <- x15, answer <- x16

Handle == INSTANCE SandboxHandles WITH
    Containers <- {"runtime", "grader"}, Runtime <- "runtime", Faults <- {"transport"},
    MaxCommands <- 2, MaxPods <- 2, MaxRestarts <- 1, pod <- x1, suspended <- x2, handle <- x3,
    session <- x4, shell <- x5, wire <- x6, pc <- x7, cmd <- x8, target <- x9, buf <- x10,
    seq <- x11, base <- x12, fresh <- x13, result <- x14

Pull == INSTANCE PoolProbes WITH
    MaxReplicas <- 0, MaxChanges <- 0, MaxFaults <- 0, Drops <- 0, MaxExtras <- 0,
    PoolNames <- 0, TmplMaxReplicas <- 0, NClusters <- 0, MaxBad <- 0, CheckDrops <- 0,
    Keys <- 0, Values <- 0, Absent <- 0, Batches <- 2, Parallel <- 2, PullWait <- TRUE,
    Nodes <- 1, Budget <- 3, ZeroGrace <- 2, DeleteWhenDone <- TRUE, DropCaches <- TRUE,
    ControllerLag <- 1, Leftovers <- {"ours", "older"}, MaxAttempts <- 2, MaxTime <- 4,
    pool <- x1, expected <- x2, pc <- x3, result <- x4, events <- x5, late <- x6,
    wasReady <- x7, blind <- x8, changes <- x9, faults <- x10, extra <- x1, foreign <- x2,
    pools <- x3, tmplPc <- x4, found <- x5, opts <- x1, cluster <- x2, at <- x3, failures <- x4,
    warnings <- x5, truth <- x6, verdict <- x7, bad <- x8, ds <- x1, now <- x2, next <- x3,
    running <- x4, tries <- x5, pullPc <- x6, ok <- x7, failed <- x8

Shards == INSTANCE FleetExecutors WITH
    Shards <- {"s1", "s2"}, Tasks <- 1, MaxReuses <- 2, Concurrency <- 2, ClaimConcurrency <- 1,
    Faults <- {"acquire", "release", "scale"}, Images <- 0, Batches <- 0, Callers <- 0,
    Mixes <- 0, Cap <- 0, KeepFinished <- 0, MaxCalls <- 0, LookFaults <- 0, pc <- x1,
    pos <- x2, handle <- x3, recyclable <- x4, uses <- x5, sandbox <- x6, active <- x7,
    held <- x8, pool <- x9, results <- x10, live <- x1, finished <- x2, lookActive <- x3,
    pools <- x4, executor <- x5, closedTo <- x6, queue <- x7, lookPc <- x8, mine <- x9,
    jobs <- x10, lock <- x11, calls <- x12, asked <- x13, kept <- x14, lookFailed <- x15,
    closing <- x16

Lease == INSTANCE FleetMember WITH
    Pools <- 0, Sinks <- 0, Reads <- 0, Forms <- 0, Faults <- 0, MaxFaults <- 0, MaxWrites <- 0,
    MaxTicks <- 0, Replicas <- {"m1", "m2"}, Nobody <- Nobody, LeaseDuration <- 3,
    RenewDeadline <- 2, Denied <- {}, LeaseFaults <- {"transport", "hang", "signal", "crash"},
    LeaseMaxFaults <- 2, plan <- x1, writes <- x2, templates <- x3, have <- x4, etag <- x5,
    last <- x6, retry <- x7, ok <- x8, since <- x9, pc <- x10, todo <- x11, skipped <- x12,
    kept <- x13, ticks <- x14, faults <- x15, lease <- x1, st <- x2, at <- x3, news <- x4,
    dirty <- x5, age <- x6, renew <- x7, leaseFaults <- x8

Stream == INSTANCE ClientStreams WITH
    ProcKind <- "sync", Frames <- {"init", "zero", "out", "exit", "odd"}, MaxFrames <- 2,
    WatchKind <- "ready", Pinned <- TRUE, Generation <- FALSE, Conds <- {"true", "false"},
    MaxWrites <- 3, MaxBreaks <- 1, sent <- x1, wire <- x2, stream <- x3, process <- x4,
    start <- x5, timer <- x6, finished <- x7, iter <- x8, out <- x9, closedBy <- x10,
    sig <- x11, log <- x1, old <- x2, rv <- x3, pos <- x4, initial <- x5, expired <- x6,
    breaks <- x7, seen <- x8, result <- x9

Router == INSTANCE SandboxRouter WITH
    Conns <- {"c1"}, Requests <- {"r1"}, Peers <- {"p"}, Trusted <- {}, Headers <- {},
    Events <- {"client", "backend", "quiet", "aged"}, Limit <- 1, Idle <- TRUE,
    Lifetime <- TRUE, pc <- x1, from <- x2, count <- x3, client <- x4, backend <- x5, c2b <- x6,
    b2c <- x7, quiet <- x8, aged <- x9, dog <- x10, told <- x11, http <- x12

Snapshot == INSTANCE Snapshots WITH
    Triggers <- {"t1"}, MaxSnaps <- 3, Foreign <- {2}, MaxCalls <- 3, Faults <- {},
    MaxFaults <- 2, MaxRetries <- 2, SuspendMaxSnaps <- 2, MaxPods <- 3, SuspendMaxCalls <- 4,
    SuspendFaults <- {}, SuspendMaxFaults <- 1, Legacy <- FALSE, trigger <- x1, snap <- x2,
    claim <- x3, news <- x4, made <- x5, attached <- x6, pc <- x7, call <- x8, answer <- x9,
    calls <- x10, faults <- x11, mode <- x1, ann <- x2, sbann <- x3, named <- x4, pod <- x5,
    born <- x6, snaps <- x7, cached <- x8, suspendPc <- x9, suspendCall <- x10,
    suspendAnswer <- x11, suspendCalls <- x12, suspendFaults <- x13

Transport == INSTANCE SandboxTransports WITH
    Mode <- "podTunnel", Callers <- {"caller"}, Ops <- {"grpc"},
    Faults <- {"die", "swap", "start", "stuck", "net", "close"}, MaxFaults <- 3, Tasks <- 0,
    Closer <- 0, AsyncFaults <- 0, AsyncMaxFaults <- 0, pod <- x1, running <- x2, proc <- x3,
    url <- x4, target <- x5, chan <- x6, open <- x7, token <- x8, inc <- x9, pc <- x10,
    loc <- x11, res <- x12, stale <- x13, faults <- x14, asyncRunning <- x1, asyncProc <- x2,
    asyncTarget <- x3, ctarget <- x4, asyncChan <- x5, asyncOpen <- x6, closed <- x7,
    complete <- x8, lock <- x9, asyncPc <- x10, asyncLoc <- x11, errs <- x12, asyncRes <- x13,
    exited <- x14, asyncFaults <- x15

Gateway == INSTANCE AgentPortals WITH
    Ops <- {"o1", "o2"}, MaxClaims <- 2, Bodyless <- FALSE, MaxFaults <- 1, PortalOps <- 0,
    PortalMaxClaims <- 0, MaxPods <- 0, MaxMounts <- 0, Overlap <- 0, Sweeper <- 0,
    Timeouts <- 0, DaemonFaults <- 0, claim <- x1, token <- x2, box <- x3, in_flight <- x4,
    stamp <- x5, ended <- x6, op <- x7, sw <- x8, faults <- x9, portalClaim <- x1,
    portalToken <- x2, portalBox <- x3, pod <- x4, workspace <- x5, lost <- x6, alias <- x7,
    portalStamp <- x8, portalOp <- x9, portalSw <- x10

Workspace == INSTANCE AgentWorkspaces WITH
    Cleaners <- {"t1"}, MaxFaults <- 1, Shutdown <- FALSE, Backends <- 0, Calls <- 0,
    MaxClaims <- 0, Kinds <- 0, FileStates <- 0, Overlap <- 0, Threads <- 0, MayUnbind <- 0,
    MayRestart <- 0, config <- x1, init <- x2, claim <- x3, sandbox <- x4, client <- x5,
    owns <- x6, clean <- x7, faults <- x8, deepClaim <- x1, root <- x2, file <- x3,
    cached <- x4, ready <- x5, lastUsed <- x6, used <- x7, call <- x8

ClaimFaults == [warm |-> {"s1"}, faults |-> {"busy", "error", "unread", "crash", "drop"},
                maxDeletes |-> 0]
ClaimExpiry == [warm |-> {"s1"}, faults |-> {"busy", "error", "unread", "expire"},
                maxDeletes |-> 1]
ClaimTwo == [warm |-> {"s1", "s2"}, faults |-> {"busy"}, maxDeletes |-> 0]
Claim(c) == INSTANCE ClaimAdoption WITH
    Claims <- {"c1"}, Warm <- c.warm, Stale <- {}, ForceCold <- {}, Faults <- c.faults,
    Lag <- {}, MaxDeletes <- c.maxDeletes, MaxFaults <- 1, claim <- x1, seenClaim <- x2,
    box <- x3, seenBox <- x4, net <- x5, queue <- x6, wk <- x7, due <- x8, young <- x9,
    expired <- x10, deletes <- x11, faults <- x12

-----------------------------------------------------------------------------
\* ZeroN and KeepN: the component has N - 1 variables, the others stay 0.
Zero15 == x15 = 0 /\ x16 = 0
Zero14 == x14 = 0 /\ Zero15
Zero13 == x13 = 0 /\ Zero14
Zero12 == x12 = 0 /\ Zero13
Zero11 == x11 = 0 /\ Zero12
Zero10 == x10 = 0 /\ Zero11
Zero9 == x9 = 0 /\ Zero10
Keep17 == UNCHANGED part
Keep15 == UNCHANGED <<part, x15, x16>>
Keep14 == UNCHANGED <<part, x14, x15, x16>>
Keep13 == UNCHANGED <<part, x13, x14, x15, x16>>
Keep12 == UNCHANGED <<part, x12, x13, x14, x15, x16>>
Keep11 == UNCHANGED <<part, x11, x12, x13, x14, x15, x16>>
Keep10 == UNCHANGED <<part, x10, x11, x12, x13, x14, x15, x16>>
Keep9 == UNCHANGED <<part, x9, x10, x11, x12, x13, x14, x15, x16>>

\* One component moves, from its own initial states; the others are not there.
Init ==
    /\ part \in Parts
    /\ \/ part = "watchdog" /\ Dog!DogInit
       \/ part = "handle" /\ Handle!Init /\ Zero15
       \/ part = "pull" /\ Pull!PullInit /\ Zero9
       \/ part = "shards" /\ Shards!ShardInit /\ Zero11
       \/ part = "lease" /\ Lease!LeaseInit /\ Zero9
       \/ part = "stream" /\ Stream!ProcInit /\ Zero12
       \/ part = "watch" /\ Stream!WatchInit /\ Zero10
       \/ part = "router" /\ Router!Init /\ Zero13
       \/ part = "suspend" /\ Snapshot!SuspendInit /\ Zero14
       \/ part = "snapshots" /\ Snapshot!EngineInit /\ Zero12
       \/ part = "transport" /\ Transport!ThreadInit /\ Zero15
       \/ part = "gateway" /\ Gateway!GateInit /\ Zero10
       \/ part = "workspace" /\ Workspace!HandsInit /\ Zero9
       \/ part = "claim" /\ Claim(ClaimFaults)!Init /\ Zero13
       \/ part = "expiry" /\ Claim(ClaimExpiry)!Init /\ Zero13
       \/ part = "choice" /\ Claim(ClaimTwo)!Init /\ Zero13

Next ==
    \/ part = "watchdog" /\ Dog!DogNext /\ Keep17
    \/ part = "handle" /\ Handle!Next /\ Keep15
    \/ part = "pull" /\ Pull!PullNext /\ Keep9
    \/ part = "shards" /\ Shards!ShardNext /\ Keep11
    \/ part = "lease" /\ Lease!LeaseNext /\ Keep9
    \/ part = "stream" /\ Stream!ProcNext /\ Keep12
    \/ part = "watch" /\ Stream!WatchNext /\ Keep10
    \/ part = "router" /\ Router!Next /\ Keep13
    \/ part = "suspend" /\ Snapshot!SuspendNext /\ Keep14
    \/ part = "snapshots" /\ Snapshot!EngineNext /\ Keep12
    \/ part = "transport" /\ Transport!ThreadNext /\ Keep15
    \/ part = "gateway" /\ Gateway!GateNext /\ Keep10
    \/ part = "workspace" /\ Workspace!HandsNext /\ Keep9
    \/ part = "claim" /\ Claim(ClaimFaults)!Next /\ Keep13
    \/ part = "expiry" /\ Claim(ClaimExpiry)!Next /\ Keep13
    \/ part = "choice" /\ Claim(ClaimTwo)!Next /\ Keep13

Spec == Init /\ [][Next]_vars

\* What the code and its surroundings keep doing: a thread, task or handler that can go on
\* does, a timer fires, the controllers and the garbage collector of the cluster act. A user,
\* a fault or a crash is never forced.
FairSpec ==
    /\ Spec
    /\ WF_vars(part = "watchdog" /\ Dog!Watchdog /\ Keep17)
    /\ WF_vars(part = "watchdog" /\ Dog!Tick /\ Keep17)
    /\ WF_vars(part = "handle" /\ Handle!ShellPrints /\ Keep15)
    /\ WF_vars(part = "handle" /\ (Handle!Read \/ Handle!RunGivesUp \/ Handle!OneShot \/ Handle!CheckLost \/ Handle!Refresh) /\ Keep15)
    /\ WF_vars(part = "pull" /\ Pull!Loop /\ Keep9)
    /\ WF_vars(part = "pull" /\ Pull!Tick /\ Keep9)
    /\ \A b \in Pull!PullNames :
          /\ WF_vars(part = "pull" /\ Pull!Observe(b) /\ Keep9)
    /\ WF_vars(part = "lease" /\ Lease!LeaseTick /\ Keep9)
    /\ \A m \in {"m1", "m2"} :
          /\ WF_vars(part = "lease" /\ Lease!Read(m) /\ Keep9)
          /\ WF_vars(part = "lease" /\ (Lease!Create(m) \/ Lease!Update(m)) /\ Keep9)
          /\ WF_vars(part = "lease" /\ Lease!StopLeading(m) /\ Keep9)
          /\ WF_vars(part = "lease" /\ Lease!Rejoin(m) /\ Keep9)
          /\ WF_vars(part = "lease" /\ Lease!Unhang(m) /\ Keep9)
    /\ WF_vars(part = "stream" /\ Stream!Caller /\ Keep12)
    /\ WF_vars(part = "stream" /\ Stream!Timeout /\ Keep12)
    /\ WF_vars(part = "watch" /\ Stream!Client /\ Keep10)
    /\ WF_vars(part = "router" /\ Router!Connect("c1") /\ Keep13)
    /\ WF_vars(part = "router" /\ Router!BackendToClient("c1") /\ Keep13)
    /\ WF_vars(part = "router" /\ Router!RelayWakes("c1") /\ Keep13)
    /\ WF_vars(part = "router" /\ Router!RelayEnds("c1") /\ Keep13)
    /\ WF_vars(part = "router" /\ Router!Watchdog("c1") /\ Keep13)
    /\ WF_vars(part = "suspend" /\ Snapshot!Handle /\ Keep14)
    /\ WF_vars(part = "suspend" /\ Snapshot!StopPod /\ Keep14)
    /\ WF_vars(part = "suspend" /\ Snapshot!StartPod /\ Keep14)
    /\ WF_vars(part = "suspend" /\ Snapshot!PodReady /\ Keep14)
    /\ WF_vars(part = "suspend" /\ Snapshot!Propagate /\ Keep14)
    /\ WF_vars(part = "snapshots" /\ Snapshot!Engine /\ Keep12)
    /\ \A s \in Snapshot!Snaps :
          /\ WF_vars(part = "snapshots" /\ Snapshot!Settle(s) /\ Keep12)
    /\ WF_vars(part = "transport" /\ Transport!Step("caller") /\ Keep15)
    /\ WF_vars(part = "gateway" /\ Gateway!Sweep /\ Keep10)
    /\ WF_vars(part = "gateway" /\ Gateway!Controllers /\ Keep10)
    /\ WF_vars(part = "gateway" /\ Gateway!Tick /\ Keep10)
    /\ \A o \in {"o1", "o2"} :
          /\ WF_vars(part = "gateway" /\ Gateway!Handler(o) /\ Keep10)
    /\ WF_vars(part = "workspace" /\ Workspace!Constructor /\ Keep9)
    /\ WF_vars(part = "workspace" /\ Workspace!Finalize /\ Keep9)
    /\ WF_vars(part = "workspace" /\ Workspace!Expire /\ Keep9)
    /\ \A t \in Workspace!Callers :
          /\ WF_vars(part = "workspace" /\ Workspace!Cleanup(t) /\ Keep9)
    /\ WF_vars(part = "claim" /\ Claim(ClaimFaults)!Work("c1") /\ Keep13)
    /\ WF_vars(part = "claim" /\ Claim(ClaimFaults)!DeliverClaim("c1") /\ Keep13)
    /\ WF_vars(part = "claim" /\ Claim(ClaimFaults)!Collect("c1") /\ Keep13)
    /\ WF_vars(part = "claim" /\ Claim(ClaimFaults)!GrowOld("c1") /\ Keep13)
    /\ \A s \in {"c1", "s1"} :
          /\ WF_vars(part = "claim" /\ Claim(ClaimFaults)!DeliverBox(s) /\ Keep13)
    /\ WF_vars(part = "expiry" /\ Claim(ClaimExpiry)!Work("c1") /\ Keep13)
    /\ WF_vars(part = "expiry" /\ Claim(ClaimExpiry)!DeliverClaim("c1") /\ Keep13)
    /\ WF_vars(part = "expiry" /\ Claim(ClaimExpiry)!Collect("c1") /\ Keep13)
    /\ WF_vars(part = "expiry" /\ Claim(ClaimExpiry)!GrowOld("c1") /\ Keep13)
    /\ \A s \in {"c1", "s1"} :
          /\ WF_vars(part = "expiry" /\ Claim(ClaimExpiry)!DeliverBox(s) /\ Keep13)
    /\ WF_vars(part = "choice" /\ Claim(ClaimTwo)!Work("c1") /\ Keep13)
    /\ WF_vars(part = "choice" /\ Claim(ClaimTwo)!DeliverClaim("c1") /\ Keep13)
    /\ WF_vars(part = "choice" /\ Claim(ClaimTwo)!Collect("c1") /\ Keep13)
    /\ WF_vars(part = "choice" /\ Claim(ClaimTwo)!GrowOld("c1") /\ Keep13)
    /\ \A s \in {"c1", "s1", "s2"} :
          /\ WF_vars(part = "choice" /\ Claim(ClaimTwo)!DeliverBox(s) /\ Keep13)

-----------------------------------------------------------------------------
\* A pod that can never start does not keep the claim until the timeout: with a reason that
\* needs no grace and polls that work, the watchdog comes to a verdict (run).
HopelessEnds ==
    (part = "watchdog" /\ Dog!Hopeless) ~> (part = "watchdog" /\ Dog!NoLongerHopeless)

\* Every exec ends: with its output, an error, or the news that the pod is lost.
ExecEnds == (part = "handle" /\ Handle!Executing) ~> (part = "handle" /\ Handle!ExecEnded)

\* The call returns, whatever the nodes do.
PrepullReturns == part = "pull" ~> (part = "pull" /\ Pull!PrepullReturned)

\* When the faults end, some replica leads again and again.
SomeoneLeads == part = "lease" ~> (part = "lease" /\ Lease!Led)

\* start() does not wait for ever for a runtime that says nothing.
StartEnds == part = "stream" ~> (part = "stream" /\ Stream!StartEnded)

\* A claim that has become Ready for good is noticed without the deadline's help ("An already-ready
\* GET may never produce another watch event").
ReadyIsSeen ==
    <>[](part = "watch" /\ Stream!Settled) => <>(part = "watch" /\ Stream!WaitIsOver)

\* A connection past its lifetime is closed "regardless of activity", and gives its slot back.
AgedEnds ==
    (part = "router" /\ Router!Aged("c1")) ~> (part = "router" /\ Router!Closed("c1"))

\* A resume or restore whose Running patch was accepted ends, with running controllers and no
\* failing request, in a successful answer.
ResumeWorks ==
    (part = "suspend" /\ Snapshot!ResumeAccepted) ~> (part = "suspend" /\ Snapshot!ResumeSucceeded)

\* A deletion the service finishes is confirmed: between the look and the watch no DELETED event is
\* lost, so the call returns even when the wait has no timeout.
DeletionConfirmed ==
    (part = "snapshots" /\ Snapshot!Confirming) ~> (part = "snapshots" /\ Snapshot!EngineIdle)

\* A caller that tries again gets through after the faults have ended ("re-establishes if
\* closed/dead").
Served == part = "transport" ~> (part = "transport" /\ Transport!LastServed("caller"))

(* An agent nobody uses is suspended: the requests that ended hold nothing   *)
(* back, and a failing sweep is followed by another.                         *)
AgentIsSuspended ==
    \A n \in 1..2 : (part = "gateway" /\ Gateway!IsAgent(n)) ~> (part = "gateway" /\ Gateway!GoneOrSuspended(n))

(* A claim whose deletion was tried is deleted in the end, although one      *)
(* request fails: the finalizer tries again.  One with a time to live is     *)
(* deleted in any case.                                                      *)
ClaimIsReleased ==
    (part = "workspace" /\ Workspace!ToBeReleased) ~> (part = "workspace" /\ Workspace!Released)

\* Every group ends: semaphores and locks are given back on every path.
\* The event loop runs every coroutine that can go on, and its semaphores are fair.
Finishes ==
    (\A s \in {"s1", "s2"} : SF_vars(part = "shards" /\ Shards!Step(s) /\ Keep11))
        => (part = "shards" ~> (part = "shards" /\ Shards!AllDone))

\* A claim that is not deleted gets its Sandbox, warm or cold, and its status says so, when
\* nobody else deletes Sandboxes: no failed request, lost race or restart leaves a claim
\* without the event or the retry that its next pass needs.
ClaimServed ==
    <>[](/\ part = "claim" => Claim(ClaimFaults)!Served("c1")
         /\ part = "choice" => Claim(ClaimTwo)!Served("c1"))

\* An expired claim that is kept ends with no Sandbox (reconcileExpired).
ExpiredReleases ==
    (part = "expiry" /\ Claim(ClaimExpiry)!Overdue("c1")) ~>
    (part = "expiry" /\ Claim(ClaimExpiry)!Released("c1"))

\* Every call ends: an exec (ExecEnds), a pre-pull whatever the nodes do (PrepullReturns), the
\* start of a process whose runtime says nothing (StartEnds), a wait for a claim that became
\* ready (ReadyIsSeen), a resume that was accepted (ResumeWorks), the confirmation of a
\* deletion (DeletionConfirmed), and every group of recycled tasks (Finishes).
CallsEnd ==
    /\ ExecEnds
    /\ PrepullReturns
    /\ StartEnds
    /\ ReadyIsSeen
    /\ ResumeWorks
    /\ DeletionConfirmed
    /\ Finishes

\* What must come about does: a hopeless start is given up (HopelessEnds), some replica leads
\* again (SomeoneLeads), a caller that tries again is served (Served), an aged connection and
\* an idle agent are ended (AgedEnds, AgentIsSuspended), and a claim whose deletion failed once
\* is deleted (ClaimIsReleased).
ComesAbout ==
    /\ HopelessEnds
    /\ SomeoneLeads
    /\ Served
    /\ AgedEnds
    /\ AgentIsSuspended
    /\ ClaimIsReleased
=============================================================================
