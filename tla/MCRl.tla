-------------------------------- MODULE MCRl --------------------------------
(***************************************************************************)
(* Instances of the components of the RL fleet (examples/agent-sandbox-rl)  *)
(* for TLC. The components share no variable, so a behaviour of all of them *)
(* is an interleaving of behaviours of each, and a property of one holds of *)
(* the whole exactly when it holds of that one: a state is the state of ONE *)
(* component, in the generic variables x1, x2, ..., with the name of the    *)
(* component in part. Parts selects the components of a run.                *)
(***************************************************************************)
EXTENDS Integers, Sequences, FiniteSets, TLC

CONSTANTS
    Parts,   \* the components that are explored
    Missing,          \* no object, no record
    Actors, Things    \* two interchangeable threads or runs, two interchangeable objects

VARIABLES part,   \* the component that moves in this behaviour
          x1, x2, x3, x4, x5, x6, x7, x8, x9, x10, x11, x12, x13, x14, x15, x16, x17, x18, x19,
          x20, x21 \* its variables, in the order of its declaration; 0 when it has fewer

vars == <<part, x1, x2, x3, x4, x5, x6, x7, x8, x9, x10, x11, x12, x13, x14, x15, x16, x17, x18, x19, x20, x21>>

Batch(n1, n2, n3) == [i \in {"i1", "i2", "i3"} |-> IF i = "i1" THEN n1 ELSE IF i = "i2" THEN n2 ELSE n3]
Mix(n1, n2) == [i \in {"i1", "i2"} |-> IF i = "i1" THEN n1 ELSE n2]

\* Three pools, of a run that is over and of one that is not; a claim of the live run sits
\* on a pool of the dead one.
PoolRuns == [p \in {"p1", "p2", "p3"} |-> IF p = "p2" THEN "live" ELSE "dead"]
ClaimRuns == [c \in {"c1", "c2", "c3"} |-> IF c = "c1" THEN "dead" ELSE "live"]
ClaimPools == [c \in {"c1", "c2", "c3"} |-> IF c = "c3" THEN "p2" ELSE "p1"]
SandboxPools == [s \in {"s1", "s2", "s3", "s4"} |->
                   IF s = "s3" THEN "p3" ELSE IF s = "s4" THEN "p2" ELSE "p1"]

OneCycle == [maxLive |-> 1, maxCycles |-> 0, faults |-> {"create", "delete", "list"}]
TwoCycles == [maxLive |-> 2, maxCycles |-> 1, faults |-> {"create"}]
Claiming(c) == INSTANCE FleetClaims WITH
    Workers <- Actors, Main <- "main", Breaker <- "breaker", Claims <- Things,
    NoClaim <- "noclaim", MaxLive <- c.maxLive, TripPolls <- 1, MaxCycles <- c.maxCycles,
    Faults <- c.faults, Quiet <- TRUE, api <- x1, reserved <- x2, tracked <- x3, freed <- x4,
    active <- x5, torndown <- x6, sweeper <- x7, todo <- x8, breaches <- x9, watchdog <- x10,
    pc <- x11, claim <- x12, interrupted <- x13, cycle <- x14, born <- x15, refused <- x16

OwnRuns == [run |-> [p \in Actors |-> p], shared |-> FALSE, maxVersion |-> 2,
            leftovers |-> FALSE, reaps |-> FALSE, callsFail |-> TRUE]
OneRun == [run |-> [p \in Actors |-> "run"], shared |-> TRUE, maxVersion |-> 4,
           leftovers |-> FALSE, reaps |-> FALSE, callsFail |-> TRUE]
Leftover == [run |-> [p \in Actors |-> p], shared |-> FALSE, maxVersion |-> 1,
             leftovers |-> TRUE, reaps |-> TRUE, callsFail |-> FALSE]
Pooling(c) == INSTANCE FleetPools WITH
    Procs <- Actors, Run <- c.run, Nobody <- "nobody", Shared <- c.shared, Absent <- Missing,
    MaxReplicas <- 1, MaxVersion <- c.maxVersion, Attempts <- 2, Leftovers <- c.leftovers,
    Reaps <- c.reaps, CallsFail <- c.callsFail, pool <- x1, tmpl <- x2, version <- x3,
    warmed <- x4, ondemand <- x5, replicas <- x6, pc <- x7, op <- x8, want <- x9, had <- x10,
    seen <- x11, tries <- x12, made <- x13, adrift <- x14

Pipelined == [nImages |-> 3, window |-> 1, tasks |-> 2, maxReuses |-> 2,
              strategy |-> "pipelined", reuse |-> TRUE, concurrency |-> 2, epochs |-> 1,
              calls |-> 1, breaker |-> FALSE, faults |-> {"plan", "warm", "acquire", "unwarm"}]
Sliding == [nImages |-> 3, window |-> 2, tasks |-> 2, maxReuses |-> 2, strategy |-> "sliding",
            reuse |-> FALSE, concurrency |-> 2, epochs |-> 2, calls |-> 1, breaker |-> FALSE,
            faults |-> {"plan", "warm", "acquire", "unwarm"}]
Naive == [nImages |-> 2, window |-> 2, tasks |-> 2, maxReuses |-> 2, strategy |-> "naive",
          reuse |-> TRUE, concurrency |-> 2, epochs |-> 2, calls |-> 2, breaker |-> FALSE,
          faults |-> {"plan", "warm", "acquire", "unwarm"}]
Quiet == [nImages |-> 3, window |-> 1, tasks |-> 2, maxReuses |-> 2, strategy |-> "pipelined",
          reuse |-> TRUE, concurrency |-> 1, epochs |-> 2, calls |-> 1, breaker |-> FALSE,
          faults |-> {}]
Stalled == [nImages |-> 2, window |-> 1, tasks |-> 1, maxReuses |-> 1, strategy |-> "pipelined",
            reuse |-> FALSE, concurrency |-> 1, epochs |-> 1, calls |-> 1, breaker |-> TRUE,
            faults |-> {}]
Strategies(c) == INSTANCE RunStrategies WITH
    NImages <- c.nImages, Window <- c.window, Tasks <- c.tasks, MaxReuses <- c.maxReuses,
    Strategy <- c.strategy, Reuse <- c.reuse, Concurrency <- c.concurrency, Epochs <- c.epochs,
    Calls <- c.calls, Breaker <- c.breaker, Faults <- c.faults, call <- x1, epoch <- x2,
    k <- x3, pc <- x4, raised <- x5, todo <- x6, made <- x7, werr <- x8, sweepW <- x9,
    prefetch <- x10, job <- x11, pos <- x12, uses <- x13, recyclable <- x14, results <- x15,
    pools <- x16, warmed <- x17, claims <- x18, torn <- x19, sweep <- x20, listed <- x21

NoFaults == [keepFinished |-> 1, lookFaults |-> {}]
FleetFails == [keepFinished |-> 0, lookFaults |-> {"create", "scale", "remove"}]
Executors(c) == INSTANCE FleetExecutors WITH
    Shards <- Actors, Tasks <- 3, MaxReuses <- 2, Concurrency <- 2, ClaimConcurrency <- 1,
    Faults <- {"acquire", "release"}, Images <- {"i1", "i2"}, Batches <- {"b1", "b2"},
    Callers <- {"c1", "c2"}, Mixes <- {Mix(1, 0), Mix(1, 2)}, Cap <- 2,
    KeepFinished <- c.keepFinished, MaxCalls <- 3, LookFaults <- c.lookFaults, pc <- x1,
    pos <- x2, handle <- x3, recyclable <- x4, uses <- x5, sandbox <- x6, active <- x7,
    held <- x8, pool <- x9, results <- x10, live <- x1, finished <- x2, lookActive <- x3,
    pools <- x4, executor <- x5, closedTo <- x6, queue <- x7, lookPc <- x8, mine <- x9,
    jobs <- x10, lock <- x11, calls <- x12, asked <- x13, kept <- x14, lookFailed <- x15,
    closing <- x16

OwnPools == [adders |-> {"a1", "a2"}, planners |-> {"p1"}, adopt |-> FALSE,
             faults |-> {"place"}, maxCalls |-> 4]
AdoptedPools == [adders |-> {"a1", "a2"}, planners |-> {"p1"}, adopt |-> TRUE,
                 faults |-> {"list"}, maxCalls |-> 3]
OneCaller == [adders |-> {"a1"}, planners |-> {}, adopt |-> TRUE, faults |-> {}, maxCalls |-> 6]
Patient == [grace |-> 3, schedGrace |-> 2, containers |-> {"creating", "backoff", "running"},
            dogFaults |-> {"read"}, maxTime |-> 6]
Hasty == [grace |-> 1, schedGrace |-> 99,
          containers |-> {"creating", "backoff", "invalid", "running", "oom", "wasOom"},
          dogFaults |-> {"read", "delete"}, maxTime |-> 3]
Intake(c) == INSTANCE TaskIntake WITH
    Images <- {"i1", "i2", "i3"}, Loaded <- Batch(1, 0, 0),
    Batches <- {Batch(1, 0, 0), Batch(1, 1, 0), Batch(0, 1, 0), Batch(0, 0, 1)},
    Adders <- c.adders, Planners <- c.planners, Adopt <- c.adopt, Served <- {"i1", "i2"},
    Faults <- c.faults, MaxCalls <- c.maxCalls, Grace <- c.grace, SchedGrace <- c.schedGrace,
    NoGrace <- 99, Delay <- 1, Poll <- 1, Containers <- c.containers, DogFaults <- c.dogFaults,
    MaxTime <- c.maxTime, tasks <- x1, planned <- x2, plan <- x3, pc <- x4, batch <- x5,
    counts <- x6, calls <- x7, accepted <- x8, failed <- x9, now <- x1, pod <- x2,
    podName <- x3, first <- x4, last <- x5, nextPoll <- x6, wd <- x7, judged <- x8,
    verdict <- x9, deletedClaim <- x10, stopSet <- x11, decideLock <- x12, acquirer <- x13,
    claim <- x14, log <- x15, answer <- x16

ReapRun == [sandboxes |-> {"s1", "s2", "s3"},
            sandboxPool |-> [s \in {"s1", "s2", "s3"} |-> SandboxPools[s]], unlabelled |-> {},
            given |-> {"dead"}, young |-> {}, busy |-> {"bind"}, faults |-> {"list", "delete"}]
ReapOrphans == [sandboxes |-> {"s1", "s2", "s3", "s4"}, sandboxPool |-> SandboxPools,
                unlabelled |-> {}, given |-> {}, young |-> {"live"}, busy |-> {"claim", "bind"},
                faults |-> {}]
ReapIdle == [sandboxes |-> {"s1", "s2", "s3", "s4"}, sandboxPool |-> SandboxPools,
             unlabelled |-> {"s1"}, given |-> {"dead"}, young |-> {}, busy |-> {"replenish"},
             faults |-> {}]
OwnNamespaces == [shared |-> FALSE, joined |-> TRUE,
                  nsFaults |-> {"create", "hook", "delete", "read"}, maxCalls |-> 4,
                  maxCycles |-> 1]
MoreCycles == [shared |-> FALSE, joined |-> TRUE, nsFaults |-> {"create", "hook"},
               maxCalls |-> 5, maxCycles |-> 2]
PeerNamespaces == [shared |-> TRUE, joined |-> FALSE, nsFaults |-> {"create", "hook", "delete"},
                   maxCalls |-> 4, maxCycles |-> 1]
Resources(c) == INSTANCE RunResources WITH
    Pools <- {"p1", "p2", "p3"}, Claims <- {"c1", "c2", "c3"}, Sandboxes <- c.sandboxes,
    Runs <- {"dead", "live"}, PoolRun <- PoolRuns, ClaimRun <- ClaimRuns,
    ClaimPool <- ClaimPools, SandboxPool <- c.sandboxPool, Unlabelled <- c.unlabelled,
    Given <- c.given, Alive <- {}, Young <- c.young, Busy <- c.busy, Faults <- c.faults,
    NoClaim <- "none", Clusters <- <<"east", "west">>, Planners <- {"p1", "p2"},
    Shared <- c.shared, Joined <- c.joined, NsFaults <- c.nsFaults, MaxCalls <- c.maxCalls,
    MaxCycles <- c.maxCycles, claims <- x1, pools <- x2, templates <- x3, sandboxes <- x4,
    pods <- x5, bound <- x6, poolLabel <- x7, pc <- x8, targets <- x9, inUse <- x10,
    links <- x11, used <- x12, removed <- x13, ns <- x1, mine <- x2, ready <- x3, created <- x4,
    setUp <- x5, deleted <- x6, ensured <- x7, lock <- x8, nsPc <- x9, at <- x10,
    createdNow <- x11, torndown <- x12, sweep <- x13, sweepAt <- x14, calls <- x15,
    cycles <- x16, foreign <- x17

Commands == [faults |-> {"timeout", "transport"}, maxCommands |-> 3, maxPods |-> 2]
Losses == [faults |-> {"transport", "read", "name"}, maxCommands |-> 2, maxPods |-> 3]
Handles(c) == INSTANCE SandboxHandles WITH
    Containers <- {"runtime", "grader"}, Runtime <- "runtime", Faults <- c.faults,
    MaxCommands <- c.maxCommands, MaxPods <- c.maxPods, MaxRestarts <- 1, pod <- x1,
    suspended <- x2, handle <- x3, session <- x4, shell <- x5, wire <- x6, pc <- x7, cmd <- x8,
    target <- x9, buf <- x10, seq <- x11, base <- x12, fresh <- x13, result <- x14

Paced == [batches |-> 3, parallel |-> 2, pullWait |-> TRUE, nodes |-> 1,
          deleteWhenDone |-> TRUE, controllerLag |-> 0, leftovers |-> {"older"}]
Kept == [batches |-> 2, parallel |-> 0, pullWait |-> TRUE, nodes |-> 2,
         deleteWhenDone |-> FALSE, controllerLag |-> 1, leftovers |-> {"older"}]
Unpaced == [batches |-> 3, parallel |-> 2, pullWait |-> FALSE, nodes |-> 2,
            deleteWhenDone |-> TRUE, controllerLag |-> 1, leftovers |-> {"ours", "older"}]
Probes(c) == INSTANCE PoolProbes WITH
    MaxReplicas <- 2, MaxChanges <- 3, MaxFaults <- 2, Drops <- TRUE, MaxExtras <- 2,
    PoolNames <- {1, 2, 3}, TmplMaxReplicas <- 1, NClusters <- 2, MaxBad <- 2,
    CheckDrops <- TRUE, Keys <- {"k1", "k2"}, Values <- {"v1", "v2"}, Absent <- "Absent",
    Batches <- c.batches, Parallel <- c.parallel, PullWait <- c.pullWait, Nodes <- c.nodes,
    Budget <- 3, ZeroGrace <- 2, DeleteWhenDone <- c.deleteWhenDone, DropCaches <- TRUE,
    ControllerLag <- c.controllerLag, Leftovers <- c.leftovers, MaxAttempts <- 2, MaxTime <- 4,
    pool <- x1, expected <- x2, pc <- x3, result <- x4, events <- x5, late <- x6,
    wasReady <- x7, blind <- x8, changes <- x9, faults <- x10, extra <- x1, foreign <- x2,
    pools <- x3, tmplPc <- x4, found <- x5, opts <- x1, cluster <- x2, at <- x3, failures <- x4,
    warnings <- x5, truth <- x6, verdict <- x7, bad <- x8, ds <- x1, now <- x2, next <- x3,
    running <- x4, tries <- x5, pullPc <- x6, ok <- x7, failed <- x8

Window == [question |-> "window", size |-> 3, largest |-> 3]
Split == [question |-> "split", size |-> 3, largest |-> 4]
Waves == [question |-> "waves", size |-> 5, largest |-> 4]
Plan == [question |-> "plan", size |-> 3, largest |-> 3]
Benchmark == [question |-> "benchmark", size |-> 1, largest |-> 5]
Place == [question |-> "place", size |-> 1, largest |-> 1]
Sizing(c) == INSTANCE RlSizing WITH
    Question <- c.question, Size <- c.size, Largest <- c.largest, input <- x1, result <- x2,
    done <- x3

-----------------------------------------------------------------------------
\* ZeroN and KeepN: the component has N - 1 variables, the others stay 0.
Zero18 == x18 = 0 /\ x19 = 0 /\ x20 = 0 /\ x21 = 0
Zero17 == x17 = 0 /\ Zero18
Zero15 == x15 = 0 /\ x16 = 0 /\ Zero17
Zero14 == x14 = 0 /\ Zero15
Zero11 == x11 = 0 /\ x12 = 0 /\ x13 = 0 /\ Zero14
Zero10 == x10 = 0 /\ Zero11
Zero9 == x9 = 0 /\ Zero10
Zero6 == x6 = 0 /\ x7 = 0 /\ x8 = 0 /\ Zero9
Zero4 == x4 = 0 /\ x5 = 0 /\ Zero6
Keep22 == UNCHANGED part
Keep18 == UNCHANGED <<part, x18, x19, x20, x21>>
Keep17 == UNCHANGED <<part, x17, x18, x19, x20, x21>>
Keep15 == UNCHANGED <<part, x15, x16, x17, x18, x19, x20, x21>>
Keep14 == UNCHANGED <<part, x14, x15, x16, x17, x18, x19, x20, x21>>
Keep11 == UNCHANGED <<part, x11, x12, x13, x14, x15, x16, x17, x18, x19, x20, x21>>
Keep10 == UNCHANGED <<part, x10, x11, x12, x13, x14, x15, x16, x17, x18, x19, x20, x21>>
Keep9 == UNCHANGED <<part, x9, x10, x11, x12, x13, x14, x15, x16, x17, x18, x19, x20, x21>>
Keep6 == UNCHANGED <<part, x6, x7, x8, x9, x10, x11, x12, x13, x14, x15, x16, x17, x18, x19, x20, x21>>
Keep4 == UNCHANGED <<part, x4, x5, x6, x7, x8, x9, x10, x11, x12, x13, x14, x15, x16, x17, x18, x19, x20, x21>>

\* One component moves, from its own initial states; the others are not there.
Init ==
    /\ part \in Parts
    /\ \/ part = "claims" /\ Claiming(OneCycle)!Init /\ Zero17
       \/ part = "cycles" /\ Claiming(TwoCycles)!Init /\ Zero17
       \/ part = "pools" /\ Pooling(OwnRuns)!Init /\ Zero15
       \/ part = "shared" /\ Pooling(OneRun)!Init /\ Zero15
       \/ part = "leftover-pool" /\ Pooling(Leftover)!Init /\ Zero15
       \/ part = "pipelined" /\ Strategies(Pipelined)!Init
       \/ part = "sliding" /\ Strategies(Sliding)!Init
       \/ part = "naive" /\ Strategies(Naive)!Init
       \/ part = "quiet" /\ Strategies(Quiet)!Init
       \/ part = "stalled" /\ Strategies(Stalled)!Init
       \/ part = "shards" /\ Executors(NoFaults)!ShardInit /\ Zero11
       \/ part = "lookahead" /\ Executors(NoFaults)!LookInit /\ Zero17
       \/ part = "lookahead-faults" /\ Executors(FleetFails)!LookInit /\ Zero17
       \/ part = "tasks" /\ Intake(OwnPools)!TaskInit /\ Zero10
       \/ part = "tasks-adopt" /\ Intake(AdoptedPools)!TaskInit /\ Zero10
       \/ part = "tasks-serial" /\ Intake(OneCaller)!TaskInit /\ Zero10
       \/ part = "watchdog" /\ Intake(Patient)!DogInit /\ Zero17
       \/ part = "watchdog-stop" /\ Intake(Hasty)!DogInit /\ Zero17
       \/ part = "reap" /\ Resources(ReapRun)!ReapInit /\ Zero14
       \/ part = "orphans" /\ Resources(ReapOrphans)!ReapInit /\ Zero14
       \/ part = "leftover" /\ Resources(ReapIdle)!ReapInit /\ Zero14
       \/ part = "namespaces" /\ Resources(OwnNamespaces)!NsInit /\ Zero18
       \/ part = "namespaces-clean" /\ Resources(MoreCycles)!NsInit /\ Zero18
       \/ part = "namespaces-shared" /\ Resources(PeerNamespaces)!NsInit /\ Zero18
       \/ part = "output" /\ Handles(Commands)!Init /\ Zero15
       \/ part = "lost" /\ Handles(Losses)!Init /\ Zero15
       \/ part = "paced" /\ Probes(Paced)!PullInit /\ Zero9
       \/ part = "kept" /\ Probes(Kept)!PullInit /\ Zero9
       \/ part = "unpaced" /\ Probes(Unpaced)!PullInit /\ Zero9
       \/ part = "wait" /\ Probes(Paced)!WaitInit /\ Zero11
       \/ part = "templates" /\ Probes(Paced)!TmplInit /\ Zero6
       \/ part = "preflight" /\ Probes(Paced)!CheckInit /\ Zero9
       \/ part = "size-window" /\ Sizing(Window)!Init /\ Zero4
       \/ part = "size-split" /\ Sizing(Split)!Init /\ Zero4
       \/ part = "size-waves" /\ Sizing(Waves)!Init /\ Zero4
       \/ part = "size-plan" /\ Sizing(Plan)!Init /\ Zero4
       \/ part = "size-benchmark" /\ Sizing(Benchmark)!Init /\ Zero4
       \/ part = "size-place" /\ Sizing(Place)!Init /\ Zero4

Next ==
    \/ part = "claims" /\ Claiming(OneCycle)!Next /\ Keep17
    \/ part = "cycles" /\ Claiming(TwoCycles)!Next /\ Keep17
    \/ part = "pools" /\ Pooling(OwnRuns)!Next /\ Keep15
    \/ part = "shared" /\ Pooling(OneRun)!Next /\ Keep15
    \/ part = "leftover-pool" /\ Pooling(Leftover)!Next /\ Keep15
    \/ part = "pipelined" /\ Strategies(Pipelined)!Next /\ Keep22
    \/ part = "sliding" /\ Strategies(Sliding)!Next /\ Keep22
    \/ part = "naive" /\ Strategies(Naive)!Next /\ Keep22
    \/ part = "quiet" /\ Strategies(Quiet)!Next /\ Keep22
    \/ part = "stalled" /\ Strategies(Stalled)!Next /\ Keep22
    \/ part = "shards" /\ Executors(NoFaults)!ShardNext /\ Keep11
    \/ part = "lookahead" /\ Executors(NoFaults)!LookNext /\ Keep17
    \/ part = "lookahead-faults" /\ Executors(FleetFails)!LookNext /\ Keep17
    \/ part = "tasks" /\ Intake(OwnPools)!TaskNext /\ Keep10
    \/ part = "tasks-adopt" /\ Intake(AdoptedPools)!TaskNext /\ Keep10
    \/ part = "tasks-serial" /\ Intake(OneCaller)!TaskNext /\ Keep10
    \/ part = "watchdog" /\ Intake(Patient)!DogNext /\ Keep17
    \/ part = "watchdog-stop" /\ Intake(Hasty)!DogNext /\ Keep17
    \/ part = "reap" /\ Resources(ReapRun)!ReapNext /\ Keep14
    \/ part = "orphans" /\ Resources(ReapOrphans)!ReapNext /\ Keep14
    \/ part = "leftover" /\ Resources(ReapIdle)!ReapNext /\ Keep14
    \/ part = "namespaces" /\ Resources(OwnNamespaces)!NsNext /\ Keep18
    \/ part = "namespaces-clean" /\ Resources(MoreCycles)!NsNext /\ Keep18
    \/ part = "namespaces-shared" /\ Resources(PeerNamespaces)!NsNext /\ Keep18
    \/ part = "output" /\ Handles(Commands)!Next /\ Keep15
    \/ part = "lost" /\ Handles(Losses)!Next /\ Keep15
    \/ part = "paced" /\ Probes(Paced)!PullNext /\ Keep9
    \/ part = "kept" /\ Probes(Kept)!PullNext /\ Keep9
    \/ part = "unpaced" /\ Probes(Unpaced)!PullNext /\ Keep9
    \/ part = "wait" /\ Probes(Paced)!WaitNext /\ Keep11
    \/ part = "templates" /\ Probes(Paced)!TmplNext /\ Keep6
    \/ part = "preflight" /\ Probes(Paced)!CheckNext /\ Keep9
    \/ part = "size-window" /\ Sizing(Window)!Next /\ Keep4
    \/ part = "size-split" /\ Sizing(Split)!Next /\ Keep4
    \/ part = "size-waves" /\ Sizing(Waves)!Next /\ Keep4
    \/ part = "size-plan" /\ Sizing(Plan)!Next /\ Keep4
    \/ part = "size-benchmark" /\ Sizing(Benchmark)!Next /\ Keep4
    \/ part = "size-place" /\ Sizing(Place)!Next /\ Keep4

Spec == Init /\ [][Next]_vars

Symmetry == Permutations(Actors) \cup Permutations(Things)

-----------------------------------------------------------------------------
\* What a run counts is what it holds, at every interleaving of its threads: the slots of the
\* claims (SlotsExact) within max_live_sandboxes (HeldWithinCap), the sandboxes and waiting
\* shards of the recycling executor (PoolCountsExact), and the pools of at most two windows
\* (FootprintBounded), each warmed by one thread at a time (OneWarmerPerImage).
CountsAreExact ==
    /\ part = "claims" =>
          /\ Claiming(OneCycle)!SlotsExact
          /\ Claiming(OneCycle)!HeldWithinCap
    /\ part = "cycles" =>
          /\ Claiming(TwoCycles)!SlotsExact
          /\ Claiming(TwoCycles)!HeldWithinCap
    /\ part = "pipelined" =>
          /\ Strategies(Pipelined)!FootprintBounded
          /\ Strategies(Pipelined)!OneWarmerPerImage
    /\ part = "sliding" => Strategies(Sliding)!FootprintBounded
    /\ part = "stalled" => Strategies(Stalled)!FootprintBounded
    /\ part = "shards" => Executors(NoFaults)!PoolCountsExact

\* A task works on a sandbox that is there and is its own: of a claim no watchdog has condemned
\* (NoCondemnedHandle, StopDecides) and none that recovered in its grace (VerdictIsPersisted),
\* of this cycle of the fleet (HandleOfThisCycle), of a pool that exists (ClaimFindsPool), and
\* fresh or verified clean (NoContamination).
HandlesAreSound ==
    /\ part = "claims" => Claiming(OneCycle)!NoCondemnedHandle
    /\ part = "cycles" => Claiming(TwoCycles)!HandleOfThisCycle
    /\ part = "quiet" => Strategies(Quiet)!ClaimFindsPool
    /\ part = "shards" => Executors(NoFaults)!NoContamination
    /\ part = "watchdog" => Intake(Patient)!VerdictIsPersisted
    /\ part = "watchdog-stop" => Intake(Hasty)!StopDecides

\* Work and resources are neither lost nor left: every task has its result (ResultsComplete)
\* and its place in the plan (PlanCoversTasks), a batch of tasks is added whole or not at all
\* (AddAllOrNothing), at rest the pools are those the batches in flight need (QuietIsDesired),
\* and after close or the end of a run none is left (ClosedIsCold, NothingLeft).
NothingLostOrLeft ==
    /\ part = "pipelined" => Strategies(Pipelined)!NothingLeft
    /\ part = "sliding" => Strategies(Sliding)!NothingLeft
    /\ part = "naive" => Strategies(Naive)!NothingLeft
    /\ part = "shards" => Executors(NoFaults)!ResultsComplete
    /\ part = "lookahead" =>
          /\ Executors(NoFaults)!QuietIsDesired
          /\ Executors(NoFaults)!ClosedIsCold
    /\ part = "lookahead-faults" => Executors(FleetFails)!QuietIsDesired
    /\ part = "tasks" => Intake(OwnPools)!AddAllOrNothing
    /\ part = "tasks-adopt" => Intake(AdoptedPools)!AddAllOrNothing
    /\ part = "tasks-serial" => Intake(OneCaller)!PlanCoversTasks

\* No step takes away what is in use: a reconcile of the lookahead warmer never unwarms an image
\* that a batch asks for (NeededNotUnwarmed), and the watchdog never gives up a pod that runs
\* (RunningIsSpared).
NeededIsKept ==
    [][/\ part = "lookahead" => Executors(NoFaults)!NeededNotUnwarmed
       /\ part = "watchdog-stop" => Intake(Hasty)!RunningIsSpared]_vars

\* What other runs use is never deleted: by the reaper of dead runs (InUseStands,
\* LiveRunStands) or by the end of a run that shares a namespace (ForeignStands); and of the
\* processes of one job at most one manages a pool (OneOwner).
OthersStand ==
    /\ part = "shared" => Pooling(OneRun)!OneOwner
    /\ part = "reap" =>
          /\ Resources(ReapRun)!InUseStands
          /\ Resources(ReapRun)!LiveRunStands
    /\ part = "orphans" =>
          /\ Resources(ReapOrphans)!InUseStands
          /\ Resources(ReapOrphans)!LiveRunStands
    /\ part = "namespaces" => Resources(OwnNamespaces)!ForeignStands
    /\ part = "namespaces-shared" => Resources(PeerNamespaces)!ForeignStands

\* A run knows what it has and leaves nothing behind: the replicas and the namespaces in its
\* books are those it made (ReplicasExact, OwnedIsKnown), its pulls are bounded
\* (PullsBounded), and nothing of it stays when clean-ups work (NothingLeftBehind,
\* NothingOfTheRunLeft).
OwnIsAccounted ==
    /\ part = "pools" => Pooling(OwnRuns)!ReplicasExact
    /\ part = "shared" => Pooling(OneRun)!ReplicasExact
    /\ part = "leftover-pool" => Pooling(Leftover)!ReplicasExact
    /\ part = "leftover" => Resources(ReapIdle)!NothingOfTheRunLeft
    /\ part = "namespaces" => Resources(OwnNamespaces)!OwnedIsKnown
    /\ part = "namespaces-clean" => Resources(MoreCycles)!NothingLeftBehind
    /\ part = "paced" => Probes(Paced)!PullsBounded
    /\ part = "kept" => Probes(Kept)!PullsBounded

\* What a fleet does to the cluster, and what it tells its caller, is true at that moment: it
\* writes only to pools and templates that are its own (ForeignUntouched), reports images as
\* pulled when they are (TrueMeansPulled), a sandbox as lost when it is (LostIsLost), and does
\* not give up a pool that is ready nor wait for one that is gone (ReadyIsNotMissed,
\* BrokenWatchSeesGone).
StepsAreJustified ==
    [][/\ part = "pools" => Pooling(OwnRuns)!ForeignUntouched
       /\ part = "lost" => Handles(Losses)!LostIsLost
       /\ part = "paced" => Probes(Paced)!TrueMeansPulled
       /\ part = "wait" =>
             /\ Probes(Paced)!ReadyIsNotMissed
             /\ Probes(Paced)!BrokenWatchSeesGone]_vars

\* What a fleet reads is what it asked for: the output of its own command (OutputIsOwn), the
\* template it wrote, whatever the order of a list (OwnTemplateFound, OrderFree), a preflight
\* that passes only on clusters that meet it (PassedMeansMet) and a selector that covers
\* exactly the pods it says (CoversIsExact).
ReadsAreTrue ==
    /\ part = "output" => Handles(Commands)!OutputIsOwn
    /\ part = "templates" =>
          /\ Probes(Paced)!OwnTemplateFound
          /\ Probes(Paced)!OrderFree
    /\ part = "preflight" =>
          /\ Probes(Paced)!PassedMeansMet
          /\ Probes(Paced)!CoversIsExact

\* The arithmetic of a plan computes what its reference says: largest windows
\* (WindowsAreLargest), shares that sum up (SplitIsExact), greedy waves (WavesAreGreedy),
\* replicas near the budget (FootprintNearBudget, BenchmarkFitsCpu) and a rotation that
\* capacity does not shift (PlacementInTurn).
SizingIsExact ==
    /\ part = "size-window" => Sizing(Window)!WindowsAreLargest
    /\ part = "size-split" => Sizing(Split)!SplitIsExact
    /\ part = "size-waves" => Sizing(Waves)!WavesAreGreedy
    /\ part = "size-plan" => Sizing(Plan)!FootprintNearBudget
    /\ part = "size-benchmark" => Sizing(Benchmark)!BenchmarkFitsCpu
    /\ part = "size-place" => Sizing(Place)!PlacementInTurn
=============================================================================
