# agent-sandbox: TLA+ models and proofs

This directory holds TLA+ models of agent-sandbox, the TLC configurations that
check them on small instances, and TLAPS proofs that hold for every value of the
constants. `PROJECT.json` maps every definition to the lines it models and lists
components, runs, mutants, findings, hazards and theorems.

## The system

| Part | What it keeps | What it does |
|---|---|---|
| SandboxWarmPool controller (Go) | expectations per pool, in memory | lists the pool's Sandboxes from a cache, creates, deletes, relabels |
| Sandbox queue (Go) | keys of adoptable Sandboxes per template | hands keys to the claim workers |
| SandboxClaim controller (Go) | annotation and status of a claim | adopts a warm Sandbox or creates a cold one, publishes it, lets it go on expiry |
| Python client, sandbox router | tunnels, channels, registry of handles | claims, connects, runs commands, moves files, suspends, snapshots |
| RL fleet (`examples/agent-sandbox-rl`) | plan, pools, claims, namespaces of a run | warms pools, runs tasks on sandboxes, recycles them, tears down |
| Multi-cluster fleet | plan and reports in an object store | plans, publishes, reconciles members, routes claims |
| Integrations | one sandbox per agent, thread or session | NeMo Gym, DeerFlow, OpenAI Agents, MCP, OpenHands, DeepAgents, two portals |
| Runtimes | files and processes of one sandbox | execute, upload, download |

The hard behaviours are those of every program that works against an API server:
reads come from caches that lag, every write is a request of its own that may fail
or conflict, other actors write the same objects, threads overlap, and what a
process remembers is lost when it restarts.

## Modules

The Go controllers have one module per component. The Python parts have one module
per subject; a module that models two components of one subject keeps them in
separate sections with their own variables, initial predicate and next-state
relation, and says so in its header.

| Module | Models |
|---|---|
| `WarmPool` | SandboxWarmPool controller and expectations, for one pool |
| `SandboxQueue` | the queue of adoptable Sandboxes of one pool, and its callers |
| `ClaimAdoption` | SandboxClaim controller: how claims get and lose Sandboxes |
| `ClaimAssignment` | the abstract specification of ownership that `ClaimAdoption` implements |
| `FleetClaims` | RL fleet: acquire, release, suspend, resume, breaker, teardown |
| `FleetPools` | RL fleet: pools and templates several runs share by name |
| `FleetExecutors` | recycling shards; lookahead warmer |
| `RunStrategies` | naive, sliding, pipelined and single-image strategies of a run |
| `RlSizing` | sizing, splitting and placement arithmetic |
| `TaskIntake` | adding tasks to a running fleet; the watchdog of a start |
| `RunResources` | the reaper of dead runs; the namespaces of a run |
| `SandboxHandles` | exec, suspend, resume and refresh on one handle |
| `PoolProbes` | readiness of a pool, discovery of templates, preflight, pre-pull |
| `FleetMember` | reconciliation of a member cluster; its lease |
| `FleetPlanner` | placement, budget and publishing of the plan |
| `FleetReports` | capacity reports; resolver and routed claims |
| `SandboxTransports`, `RequestRouting` | tunnels and channels; requests with retries |
| `ClientRegistry`, `ClientStreams` | handles and exit cleanup; process streams and claim watches |
| `ClientFiles`, `Snapshots`, `SandboxRouter` | transfers and paths; snapshots, suspend and resume; the Python router |
| `NemoGym`, `DeerFlow`, `OpenAIAgents`, `McpTools`, `AgentWorkspaces`, `AgentPortals` | the integrations |
| `SandboxRuntimes` | the servers inside a sandbox |
| `MCWarmPool`, `MCSandboxQueue`, `MCClaimAdoption` | instances for TLC |
| `MCRl`, `MCMultiCluster`, `MCClient`, `MCIntegrations`, `MCLive` | instances of many components for TLC, see below |
| `*_proofs` | theorems and proofs |

### WarmPool

`api` is the truth, `cache` the informer's copy. `WatchEvent` delivers the next
version of one Sandbox, `Relist` jumps to the current one and skips what lies
between. `HandleCreate` and `HandleDelete` are `warmPoolSandboxEventHandler`; they
run after the cache changed, so `adds` and `dels` hold what is between the two.
`creations`, `deletions` and `expired` are the `poolExpectation` record.

A pass is split where the code calls the API server. `StartPass` reads cache,
template and spec once. The filter loop is `FilterTerminating`, `FilterStale`,
`FilterActive` and `FilterWriteFails`; the grace loop is `EndFilter` and
`DeleteStuck`; then one of `BeginCreates`, `DeferCreates`, `BeginExcess`,
`DeferExcess`, `NoChange` is taken. `slowStartBatch` is `StartBatch`, `CreateOK`,
`CreateFails`, `DeleteExcess`, `NextBatch`, `EndCreates` and `EndExcess`. A DELETE is
in `inflight` from `ExpectDeletion` to its answer, since its watch event can be
handled in between. `UpdateStatus` and `StatusFails` end the pass and say what wakes
the pool next.

Abstracted: a template is a version number; readiness is a nondeterministic choice
of stuck members; the victims of a scale-down are any set of the right size; `Paced`
lets hold and token bucket cut or put off any creation. Not modelled: deletion of
the pool and `Forget`, not-progressing events, replies lost after a call took
effect. A record expires only between passes and after the events it awaits were
delivered or will never come: `expectationsTimeout` (5 minutes) is taken to be
longer than a pass and than the delay of a watch.

### SandboxQueue

One pool's entry of `SimpleSandboxQueue`. `queue` is the object the sync.Map holds,
`items` and `set` the slice and the deduplicating set of every object ever
allocated, dropped ones included. A call is two steps or more: the lookup, and the
work under the object's lock. `PopWithStrategy` is `Snapshot`, which copies and
picks, and `Take`, which looks again. A key carries a ticket, the number of the Add
it stems from: a history variable that no action reads except to carry it along.

### ClaimAdoption and ClaimAssignment

`claim` and `box` are the claims and Sandboxes on the server, `seenClaim` and
`seenBox` the caches, `queue` the keys of the warm pool's queue (order is
`SandboxQueue`'s matter; here any key may be popped). `wk[c]` is the worker of claim
c; its `pc` names the next request it sends, so that other workers, events, crashes
and deletions come between any two requests. `Start` to `ByName` are
`getOrCreateSandbox` up to the queue, `PopKey` and `QueueEmpty` are `getCandidate`,
`Assign`, `Reassign`, `Complete`, `Resolve` and `Clear` are
`adoptSandboxFromCandidates` with its recovery, `Confirm` and `Create` the cold path,
`Publish`, `MarkExpired` and `ReconcileExpired` the status and the expiry.

`Lag` names the caches that may be old when a pass begins, `Faults` what may go wrong.

`ClaimAssignment` has one variable, who holds which Sandbox, and four steps: adopt,
create cold, release and collect. `ImplementsAssignment` says that `box` behaves like
that: with `holder <- box`, every step of the controller is one of the four or a stutter.

### The components of the Python parts

Each section starts with what it models, what is external and what is abstracted.
A step ends where the code waits: for a request, a lock, an `await`, a timer. The
constants are faults the environment may produce and bounds on calls.

## Runs

Deadlock is not checked anywhere: components at rest have nothing to do, and calls
are finitely many. Each cfg says which.

| Run | Instance | Checks |
|---|---|---|
| `warmpool` | 3 Sandboxes, 1 replica, 2 templates, Recreate, 1 disturbance, fair | `OvershootAtMostOneBatch`, `Converges` |
| `warmpool_adopt` | an unlabelled member, 2 replicas, 2 templates, Paced, 1 disturbance | `TypeOK`, `ExpectationsCoverWrites`, `PendingDeletionsReal`, `DeletionsAwaited`, `ClaimsKept` |
| `warmpool_hard` | 3 Sandboxes, 2 replicas, no disturbance | violated: `HardInvariant` |
| `sandboxqueue` | 2 workers, 3 keys, 2 objects, 4 calls, fair | `TypeOK`, `SetMatchesItems`, `HandedOutOnce`, `OrderKept`, `CallsReturn` |
| `claim` | 2 claims, 2 warm Sandboxes (one stale), three parts, below | `OneSandboxPerClaim`, `NoLostCandidate`, `NeverStolen`, `ImplementsAssignment` |
| `claim_deadref` | 1 claim, 3 warm Sandboxes, lagging claim cache, 1 deletion | violated: `OneSandboxPerClaim` |
| `rl_execution`, `rl_resources`, `multicluster`, `client`, `integrations` | one part per configuration, below | safety of the Python components |
| `live` | one part per component, below, fair | liveness of the claim controller and the Python components |

In `warmpool`, three identities allow a member, its replacement and one too many; in
`warmpool_adopt` a batch of two exercises a partial batch and doubling. For the
queue, four calls fill it with three keys and remove one, or let two workers race
for one; two objects are a dropped queue and its successor.

In `claim`, two workers race for the one usable Sandbox while the other key is stale,
and the loser starts cold; every write of either can meet the fault. The parts are
the situations in which the code keeps its promises (see "What does not hold" for the
others):

- `given`: passes begin with a claim from any point of the past, and writes conflict
  until the retries are exhausted;
- `failing`: passes begin with current caches; one conflict, failed request, failed
  fresh read or restart, at any point;
- `dropping`: passes begin with current caches; a claim is deleted at any point, and
  its Sandbox collected.

`Expire` and `DeleteBox` happen in `live`, where one claim with one or two warm
Sandboxes is enough: what keeps a claim waiting is a missing event or retry of its
own. Symmetry is used for claims and for warm Sandboxes of which none is stale, in
runs without liveness.

### Instances of many components

The components of `MCRl`, `MCMultiCluster`, `MCClient`, `MCIntegrations` and `MCLive`
share no variable. A behaviour of all of them is an interleaving of behaviours of
each, and a property of one component holds of the whole exactly when it holds of
that one. So a state of these modules is the state of ONE component, in the generic
variables `x1`, `x2`, ..., with its name in `part`; `Parts` selects what a run
explores. A configuration is a record (`OneCycle`, `TwoGateways`, ...) that gives the
component its constants; the same component appears under several configurations
where one would be too large, or where a property holds only without a certain fault
(see "What does not hold"). Two threads, two keys, two objects and one or two faults
are the usual bounds: each hazard listed in `PROJECT.json` needs two actors and at
most one fault to happen.

What a run checks of these components is a handful of themes, each the conjunction of
properties that say the same kind of thing of different components (`NothingOrphaned`:
no component loses sight of a sandbox it must release). A theme's definition lists its
members by part; the tables below list them by component. In a part of another
component a member says nothing.

`MCRl`:

| Part | Component | Configuration | Properties |
|---|---|---|---|
| claims | FleetClaims | `OneCycle` | `SlotsExact`, `HeldWithinCap`, `NoCondemnedHandle` |
| cycles | FleetClaims | `TwoCycles` | `SlotsExact`, `HeldWithinCap`, `HandleOfThisCycle` |
| pools | FleetPools | `OwnRuns` | `ForeignUntouched`, `ReplicasExact` |
| shared | FleetPools | `OneRun` | `ReplicasExact`, `OneOwner` |
| leftover-pool | FleetPools | `Leftover` | `ReplicasExact` |
| pipelined | RunStrategies | `Pipelined` | `FootprintBounded`, `OneWarmerPerImage`, `NothingLeft` |
| sliding | RunStrategies | `Sliding` | `FootprintBounded`, `NothingLeft` |
| naive | RunStrategies | `Naive` | `NothingLeft` |
| quiet | RunStrategies | `Quiet` | `ClaimFindsPool` |
| stalled | RunStrategies | `Stalled` | `FootprintBounded` |
| shards | FleetExecutors (recycle shards) | `NoFaults` | `NoContamination`, `ResultsComplete`, `PoolCountsExact` |
| lookahead | FleetExecutors (lookahead warmer) | `NoFaults` | `QuietIsDesired`, `ClosedIsCold`, `NeededNotUnwarmed` |
| lookahead-faults | FleetExecutors (lookahead warmer) | `FleetFails` | `QuietIsDesired` |
| tasks | TaskIntake (fleet tasks) | `OwnPools` | `AddAllOrNothing` |
| tasks-adopt | TaskIntake (fleet tasks) | `AdoptedPools` | `AddAllOrNothing` |
| tasks-serial | TaskIntake (fleet tasks) | `OneCaller` | `PlanCoversTasks` |
| watchdog | TaskIntake (start watchdog) | `Patient` | `VerdictIsPersisted` |
| watchdog-stop | TaskIntake (start watchdog) | `Hasty` | `StopDecides`, `RunningIsSpared` |
| reap | RunResources (run reaper) | `ReapRun` | `InUseStands`, `LiveRunStands` |
| orphans | RunResources (run reaper) | `ReapOrphans` | `InUseStands`, `LiveRunStands` |
| leftover | RunResources (run reaper) | `ReapIdle` | `NothingOfTheRunLeft` |
| namespaces | RunResources (run namespaces) | `OwnNamespaces` | `ForeignStands`, `OwnedIsKnown` |
| namespaces-clean | RunResources (run namespaces) | `MoreCycles` | `NothingLeftBehind` |
| namespaces-shared | RunResources (run namespaces) | `PeerNamespaces` | `ForeignStands` |
| output | SandboxHandles | `Commands` | `OutputIsOwn` |
| lost | SandboxHandles | `Losses` | `LostIsLost` |
| paced | PoolProbes (pre pull) | `Paced` | `PullsBounded`, `TrueMeansPulled` |
| kept | PoolProbes (pre pull) | `Kept` | `PullsBounded` |
| unpaced | PoolProbes (pre pull) | `Unpaced` | `TypeOK` |
| wait | PoolProbes (pool readiness) | `Paced` | `ReadyIsNotMissed`, `BrokenWatchSeesGone` |
| templates | PoolProbes (template discovery) | `Paced` | `OwnTemplateFound`, `OrderFree` |
| preflight | PoolProbes (preflight) | `Paced` | `PassedMeansMet`, `CoversIsExact` |
| size-window | RlSizing | `Window` | `WindowsAreLargest` |
| size-split | RlSizing | `Split` | `SplitIsExact` |
| size-waves | RlSizing | `Waves` | `WavesAreGreedy` |
| size-plan | RlSizing | `Plan` | `FootprintNearBudget` |
| size-benchmark | RlSizing | `Benchmark` | `BenchmarkFitsCpu` |
| size-place | RlSizing | `Place` | `PlacementInTurn` |

`rl_execution` takes `claims`, `cycles`, `pipelined`, `sliding`, `naive`, `quiet`, `stalled`, `shards`, `lookahead`, `lookahead-faults`, `tasks`, `tasks-adopt`, `tasks-serial`, `watchdog`, `watchdog-stop`; `rl_resources` the others.

`MCMultiCluster`:

| Part | Component | Configuration | Properties |
|---|---|---|---|
| member | FleetMember (member reconcile) | `Allowed` | `NothingLostUnordered` |
| lease | FleetMember (member lease) | `Allowed` | `OneDriver` |
| lease-get | FleetMember (member lease) | `MayNotGet` | `OneDriver` |
| lease-create | FleetMember (member lease) | `MayNotCreate` | `OneDriver` |
| apply | FleetPlanner (fleet apply) | `Racing` | `NeverBlind`, `GenerationAdvances`, `EmptiedOnPurpose`, `SilentGetsNothingNew` |
| plan | FleetPlanner (fleet apply) | `Planning` | `DrainedShedsEverything`, `EveryModelServed`, `BudgetExact`, `PositionalIsStable` |
| report | FleetReports (capacity report) | `Full` | `UnmeasuredIsNeverZero`, `FreshMeansReported`, `PressureOfOneWalk`, `UnhealthyIsStale`, `StampIsEarned`, `SinksAreIndependent` |
| report-light | FleetReports (capacity report) | `Light` | `UnmeasuredIsNeverZero`, `FreshMeansReported` |
| resolve | FleetReports (fleet resolver) | `Moving` | `RefreshSeesPublished`, `FrozenNeverRouted`, `EveryClaimRoutable` |
| spread | FleetReports (fleet resolver) | `Spreading` | `Spreads` |
| unhosted | FleetReports (fleet resolver) | `Unhosted` | `RefreshSeesPublished`, `FrozenNeverRouted`, `EveryClaimRoutable` |

`MCClient`:

| Part | Component | Configuration | Properties |
|---|---|---|---|
| tunnel | SandboxTransports (sandbox transport) | `PodTunnel` | `OneTunnel` |
| direct | SandboxTransports (sandbox transport) | `PodIp` | `ChannelIsCurrent`, `LateFailureSpares` |
| service | SandboxTransports (sandbox transport) | `Service` | `LateFailureSpares` |
| tunnel-stuck | SandboxTransports (sandbox transport) | `StuckTunnel` | `OneTunnel` |
| routed | RequestRouting | `Routed` | `ActsOnce`, `ClosedStaysClosed` |
| routed-direct | RequestRouting | `Direct` | `ActsOnce` |
| routed-alone | RequestRouting | `Alone` | `ActsOnce` |
| async-tunnel | SandboxTransports (async tunnel) | `PodTunnel` | `NoTunnelOrphan`, `CloseIsFinal` |
| stream | ClientStreams (process stream) | `ThreadRead` | `OneExitLast`, `NoUnownedStream` |
| stream-async | ClientStreams (process stream) | `TaskRead` | `NoUnownedStream` |
| registry | ClientRegistry | `SyncCalls` | `NoClaimOrphan`, `ExitLeavesNothing`, `ExplicitSurvives`, `PinnedHandle` |
| registry-exit | ClientRegistry | `ExitCalls` | `ExplicitSurvives` |
| registry-async | ClientRegistry | `AsyncCalls` | `NoClaimOrphan`, `PinnedHandle` |
| registry-collide | ClientRegistry | `CollideCalls` | `RollbackSparesOthers` |
| watch | ClientStreams (claim watch) | `PinnedWait` | `SuccessIsReady`, `FailsFast`, `NeverBack` |
| watch-resolve | ClientStreams (claim watch) | `ResolveWait` | `FailsFast`, `NeverBack` |
| watch-generation | ClientStreams (claim watch) | `GenerationWait` | `SuccessIsReady` |
| watch-sandbox | ClientStreams (claim watch) | `SandboxWait` | `TypeOK` |
| watch-gateway | ClientStreams (claim watch) | `GatewayWait` | `TypeOK` |
| router-limit | SandboxRouter | `Limited` | `PeerLimit`, `CountExact` |
| router-relay | SandboxRouter | `Relaying` | `CountExact`, `NoBackendLeak` |
| snapshots | Snapshots (snapshot engine) | `Faulty` | `DeletedIsGone`, `OnlyOwn`, `TerminateReaches`, `DeletesEach` |
| snapshots-lost | Snapshots (snapshot engine) | `Lossy` | `DeletedIsGone`, `OnlyOwn`, `TerminateReaches` |
| suspend | Snapshots (suspend resume) | `Faulty` | `NoStopWithoutSnapshot`, `StartsFromPin` |
| suspend-clean | Snapshots (suspend resume) | `Clean` | `RestoredPodIsNew` |
| files | ClientFiles (file transfer) |  | `UploadIsWhole`, `LimitHolds`, `DownloadIsWhole` |
| paths | ClientFiles (safe paths) |  | `RuntimeConfines`, `SdkPathAccepted` |

`MCIntegrations`:

| Part | Component | Configuration | Properties |
|---|---|---|---|
| nemo | NemoGym (nemo provider) | `Hasty` | `FailedCreateCleans`, `NoClientAfterAclose`, `StoppedIsFinal` |
| nemo-wait | NemoGym (nemo provider) | `Patient` | `TypeOK` |
| nemo-files | NemoGym (nemo transfer) | `Hasty` | `UploadLands`, `DownloadIsACopy` |
| deer | DeerFlow (deer flow provider) | `OneGateway` | `NewClaimRolledBack`, `ReleasedIsGone`, `RollbackOnlyOwn` |
| deer-shared | DeerFlow (deer flow provider) | `TwoGateways` | `AcquiredIsCurrent` |
| deer-tools | DeerFlow (deer flow tools) | `OneGateway` | `Confined`, `WindowsTile`, `UntruncatedIsComplete` |
| sessions | OpenAIAgents (openai sessions) | `Derived` | `StateFollowsHandle`, `HostFollowsSandbox` |
| sessions-pinned | OpenAIAgents (openai sessions) | `HostPinned` | `ReplacesOnlyGone` |
| archive | OpenAIAgents (openai files) | `LateCommands` | `WriteCleansUp`, `NeverMixed`, `SnapshotIsHydratable`, `LateDecodeIsFenced` |
| archive-prompt | OpenAIAgents (openai files) | `PromptCommands` | `StagingCollected` |
| mcp | McpTools (mcp server) |  | `OwnSandboxesOnly`, `ReturnedIsListed`, `FailedCreateRollsBack` |
| mcp-results | McpTools (mcp results) |  | `WithinBudget`, `FairShare`, `RoundTrip` |
| openhands | AgentWorkspaces (open hands workspace) | `Sequential` | `HeldUntilReleased`, `FailedInitReleases` |
| deepagents | AgentWorkspaces (deep agents backend) | `Sequential` | `OneForScope`, `BackendKeepsSandbox` |
| deepagents-threads | AgentWorkspaces (deep agents backend) | `Threaded` | `RootBeforeUse` |
| gateway | AgentPortals (agent gateway) | `Serial` | `CountIsExact`, `ServedWhileRunning`, `OneSignup` |
| portal | AgentPortals (fleet portal) | `Serial` | `WorkspaceSurvives`, `IdentityPersists`, `ReadyIsBound` |
| gateway-deleted | AgentPortals (agent gateway) | `Overlapping` | `CountIsExact`, `ServedWhileRunning`, `OneSignup` |
| portal-races | AgentPortals (fleet portal) | `Overlapping` | `TypeOK` |
| portal-swept | AgentPortals (fleet portal) | `Swept` | `IdentityPersists` |
| exec | SandboxRuntimes (runtime exec) | `KnownSize` | `ExitIsTrue`, `NothingOutlives` |
| keepalive | SandboxRuntimes (keep alive body) | `KnownSize` | `InSync`, `AnswerReaches`, `DrainedIsKept` |
| upload | SandboxRuntimes (upload stream) | `KnownSize` | `CopiesContent`, `AllocationBounded` |
| upload-chunked | SandboxRuntimes (upload stream) | `UnknownSize` | `CopiesContent`, `AllocationBounded` |
| atomic | SandboxRuntimes (atomic upload) | `KnownSize` | `NothingLeftBehind`, `InPlaceIsWhole`, `AnswerIsTrue` |
| in-place | SandboxRuntimes (in place upload) | `KnownSize` | `LastIsSaved`, `DownloadIsWhole` |
| in-place-copied | SandboxRuntimes (in place upload) | `UnknownSize` | `LastIsSaved`, `DownloadIsWhole` |

`MCLive`:

| Part | Component | Property |
|---|---|---|
| watchdog | TaskIntake (start watchdog) | `HopelessEnds` |
| handle | SandboxHandles | `ExecEnds` |
| pull | PoolProbes (pre pull) | `PrepullReturns` |
| shards | FleetExecutors (recycle shards) | `Finishes` |
| lease | FleetMember (member lease) | `SomeoneLeads` |
| stream | ClientStreams (process stream) | `StartEnds` |
| watch | ClientStreams (claim watch) | `ReadyIsSeen` |
| router | SandboxRouter | `AgedEnds` |
| suspend | Snapshots (suspend resume) | `ResumeWorks` |
| snapshots | Snapshots (snapshot engine) | `DeletionConfirmed` |
| transport | SandboxTransports (sandbox transport) | `Served` |
| gateway | AgentPortals (agent gateway) | `AgentIsSuspended` |
| workspace | AgentWorkspaces (open hands workspace) | `ClaimIsReleased` |
| claim | ClaimAdoption | `ClaimServed` |
| expiry | ClaimAdoption | `ExpiredReleases` |
| choice | ClaimAdoption | `ClaimServed` |

### Fairness

`WarmPool`: `Pass`, and per Sandbox `WatchEvent`, `HandleCreate`, `HandleDelete` and
`Finalize`, are weakly fair (worker, informer, handlers and API server keep
running); so is `TimerFires` (the workqueue delivers a RequeueAfter). `Expire` is
strongly fair because a clock advances also while passes start and end. No
disturbance is fair. `SandboxQueue`: a goroutine inside a call goes on with it; the
bound on calls matters for `CallsReturn`, since with other callers taking keys for
ever `PopWithStrategy` may try again for ever. The claim controller, in `MCLive`:
workers, watch events, the garbage collector and the grace period are weakly fair;
no conflict, failure, restart, deletion or expiry is. The other parts of `MCLive`: the
threads, tasks, controllers and clocks of a component are weakly fair, its faults
and callers are not; in `Finishes` the shard that waits on a lock other shards take
and release is strongly fair, which asyncio's FIFO locks justify.

### What does not hold

`warmpool_hard` is a run: the list is read before the expectations gate is asked, so
events handled in between open the gate for a list older than they are, and the pool
creates although its population covers the target. `OvershootAtMostOneBatch` bounds
the damage and is proved.

`claim_deadref` is a run: a pass that reads the claim late finds its reference dead and
removes it with a merge patch without a lock (`Unref`). When an earlier pass has already
assigned another Sandbox, the patch wipes that assignment, and the claim adopts a second
one. One deletion and a lagging claim cache are enough; a failed request or a restart
does instead of the deletion.

The following were met while modelling, with TLC counterexamples on larger
configurations; the runs state the properties for configurations without them.

- `OneSandboxPerClaim` also fails when the Sandbox cache lags behind a status the claim
  cache shows (`"boxes"` in `Lag`), and when, with a lagging claim cache, a fresh read
  fails (`"unread"`).
- `NoLostCandidate` fails when a claim is deleted after its conflicts were exhausted
  (`"drop"` and `"busy"`): the key is not put back.
- `ExpiredReleases` fails after a restart between adoption and status, and with lagging
  caches: the expired pass looks under the status name and the claim's name only.
- A pool's delete has no precondition: a Sandbox claimed after the list is deleted.
- `SandboxQueue.Add` after `RemoveQueue` makes an entry nobody removes.
- RL fleet: a teardown whose release raises leaves the rest; a claim in flight across
  teardown and setup joins the new cycle (`cycles` bounds this); a label change
  between read and delete loses a foreign template; plans race with added tasks.
- Multi-cluster: a failed orphan delete is not retried; a member compares etags and
  not generations; a lease renewal that hangs leaves two drivers.
- Client: a late failure clears the target of a newer channel (tunnel and direct
  strategies differ); a listing drops a handle whose lookup failed; a suspend whose
  read of the pod fails does not wait for it.
- Integrations and portals: a gateway's reservation of a bodyless answer is never
  released; overlapping portal handlers bind and unbind in either order; uploads in
  place of one path can mix.

## Proofs

`WarmPool_proofs` proves, for every finite set of Sandboxes and all values of the
other constants allowed by `WarmPoolAssumption`:

- `TypeCorrect`, `CreationsCovered`, `NoRunaway`, `DeletionsReal`,
  `DeletionsWaitForEvents`: the five invariants of the runs;
- `ClaimsStay`: the action property `ClaimsKept`.

They follow from `Inductive` (`Spec => []IInv`). `IInv` joins the invariants with
what they need and do not say:

- `Lag`: the cache is never ahead of the API server, and neither is the list a
  pass works on;
- `Loops`: what the loop variables may hold in each phase;
- `Missed`, `Coverage`: which Sandboxes a list can have missed, and that each of
  them is still covered by an expectation or arrived after the list;
- `Record`: the counted creations against the unseen objects and open calls;
- `Window`: the members a pass did not see fit in one batch.

`NoRunaway` is the interesting one: what a list misses was unobserved when it was
read, so `pendingCreations`, at most `MaxBatchSize`, covered it.

`SandboxQueue_proofs` proves, for all sets of workers, keys, nodes and objects and
any number of calls (`SandboxQueueAssumption`): `TypeCorrect`, `SetInStep`,
`EachHandedOutOnce` and, for the action property, `OrderIsKept`.
`SandboxQueueTypes_proofs` holds the lemmas about slices and the steps for types and
set. The inductive invariant adds to the three invariants:

- `Roles`: only the event handler removes by key, only workers take, and a step
  that works on a key has one;
- `Tickets`: every ticket in use is above the number of calls left, so the next
  Add's is new;
- `Letting`: a worker that puts a key back no longer holds it.

`EachHandedOutOnce` needs `SetMatchesItems`: `Take` trusts the set and then takes
the position in the slice. `OrderIsKept` needs `EachHandedOutOnce`: a ticket names
one position.

### The claim controller

The three modules on `ClaimAdoption` prove their theorems for all sets of claims and
Sandboxes, finite or not, and any number of faults and deletions
(`ClaimAdoptionAssumption`: names of claims and Sandboxes differ, and none is `"none"`
or `"pool"`). A hypothesis on `Lag`, `Faults` or `MaxDeletes` is part of the theorem, and
excludes the situations in which TLC has a counterexample ("What does not hold").

| Theorem | States | Hypothesis |
|---|---|---|
| `TypeCorrect` | `TypeOK` and `Hands` | |
| `NotStolen` | `NeverStolen` | |
| `OneSandbox` | `OneSandboxPerClaim` | `Lag = {}` |
| `Implements` | `ImplementsAssignment` | `Lag = {}` |
| `KeysKept` | `NoLostCandidate` | no `"busy"` |
| `KeysKeptInConflicts` | `NoLostCandidate` | `Lag = {}`, no `"drop"` |
| `OneSandboxLag` | `OneSandboxPerClaim` | `Calm` |
| `ImplementsLag` | `ImplementsAssignment` | `Calm` |
| `KeysKeptLag` | `NoLostCandidate` | `Calm`, no `"drop"` |

`Calm`: the claim cache may lag without bound, claims conflict, expire and are deleted,
but nobody else deletes Sandboxes, no other request fails and nothing restarts.

- `ClaimAdoptionTypes_proofs`: `Hands` says what a worker holds at each point of its pass.
- `ClaimAdoption_proofs`, ownership: nothing in `OneSandboxPerClaim` says why a worker
  that is about to adopt does so for a claim without a Sandbox. `Ledger` does: the warm
  Sandbox a claim owns is the one its annotation names, a cold one goes with no
  annotation, and a worker past its lookup knows the annotation. With current caches
  only the claim's own worker writes it, so what the worker read stays true through
  every interleaving. `Owned` is the part of the ledger that ownership needs; from it
  follow that a claim has at most one (`OwnedOne`) and that every step of the controller
  is a step of `ClaimAssignment` or leaves the owners alone (`OwnedStep`).
- `ClaimAdoption_proofs`, keys: `Keys` says where the key of a warm Sandbox can be at each
  point (in the queue, kept by a worker that picks, in the hand of one that adopts) and
  that every way out of a pass puts it back or takes the Sandbox out of the pool. After
  exhausted conflicts only the reference of the claim keeps it (`Refs`).
- `ClaimLag_proofs`: with a late claim, a worker may work for a claim that has been
  served. `LagInv` replaces the ledger: what cache and worker know of the reference is
  none or the truth, a key is in one place only (`Tokens`: the queue, one hand or one
  reference), and the Sandbox cache is behind but never wrong about an owner
  (`Behind`). So a late worker fails at the lock on the claim, rereads, and finds the
  reference; and the reread before a cold start finds it too. `LagInv` gives `Owned`,
  and the two theorems follow by the same lemmas as before.

`Ledger`, `Keys` and `LagInv` were checked with TLC before they were proved, on instances
of two claims and two warm Sandboxes and of one claim and three.

### Only model-checked

Liveness (`Converges`, `CallsReturn`, `ClaimServed`, `ExpiredReleases` and all of
`live`): fairness and ENABLED are outside the prover. Arithmetic over recursively
computed data (`RlSizing`, `FleetPlanner`, the windows and budgets of `DeerFlow` and
`McpTools`): what a fold or a recursive function computes for every input needs
induction over data, which the installed provers cannot do. The remaining Python
components are checked on instances only; they are instantiated with configuration
records, and their proofs would follow the same pattern.

## Not modelled

The Sandbox controller with its backoff and write-behind clock, the SandboxTemplate
controller, the Go router, sandboxd, the Go and TypeScript clients, generated code,
manifests, metrics, tracing and command lines. `PROJECT.json` gives the reason for
each. Where a modelled component depends on one of them it appears as an external
action that may do whatever its interface allows.
