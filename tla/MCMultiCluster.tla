--------------------------- MODULE MCMultiCluster ---------------------------
(***************************************************************************)
(* Instances of the components of the multi-cluster fleet (clients/python   *)
(* multicluster: the planner, the member controllers, their capacity        *)
(* reports and the client that routes over them) for TLC. The components    *)
(* meet in the bucket objects they read and write, and each of them models  *)
(* what it may find there, so a state is the state of ONE component, in the *)
(* generic variables x1, x2, ..., with its name in part. Parts selects the  *)
(* components of a run.                                                     *)
(***************************************************************************)
EXTENDS Integers, Sequences, FiniteSets, TLC

CONSTANTS
    Parts,   \* the components that are explored
    Actors, Things    \* two interchangeable administrators or threads, two pools or names

VARIABLES part,   \* the component that moves in this behaviour
          x1, x2, x3, x4, x5, x6, x7, x8, x9, x10, x11, x12, x13, x14, x15 \* its variables, in the order of its declaration; 0 when it has fewer

vars == <<part, x1, x2, x3, x4, x5, x6, x7, x8, x9, x10, x11, x12, x13, x14, x15>>

\* What an administrator may apply (see FleetPlanner): models in file order, a policy, weights.
None == -1
Model(t, i, c) == [tasks |-> t, image |-> i, cluster |-> c]
Make(models, policy, min, w, mc, maxPool, window) ==
    [models |-> models, policy |-> policy, min |-> min, weights |-> w, mc |-> mc,
     maxPool |-> maxPool, window |-> window]
W2(a, b) == (1 :> a) @@ (2 :> b)
W3(a, b, c) == (1 :> a) @@ (2 :> b) @@ (3 :> c)
Sig(d, r, k, p) == [max |-> None, depth |-> d, ready |-> r, claims |-> k, pressure |-> p]

\* Two administrators race: an even split, a drain of the first cluster, an emptied file.
Two == <<Model(2, 0, None), Model(3, 1, None)>>
RacingSpecs ==
    {Make(Two, "least-loaded", 0, W2(1, 1), 4, 3, 1),
     Make(Two, "least-loaded", 0, W2(0, 1), 4, 3, 0),
     Make(<<>>, "least-loaded", 0, W2(1, 1), 4, 3, 1)}

\* One administrator plans: every policy, weight zero, a minimum, pins, measured and
\* unmeasured clusters, a cluster with a maximum.
Five == [i \in 1..5 |-> Model((i % 3) + 1, i, None)]
PlannedSpecs ==
    {Make(Five, p, m, w, 7, 3, 1) :
        p \in {"round-robin", "least-loaded", "capacity-weighted", "capacity-aware",
               "image-affinity"},
        m \in {0, 2}, w \in {W3(1, 1, 1), W3(2, 1, 3), W3(0, 1, 2)}}
       \cup {Make([i \in 1..3 |-> Model(2, i, 4 - i)], "pinned", 0, W3(1, 2, 1), 5, 2, 0),
             Make(<<Model(1, None, None)>>, "image-affinity", 0, W3(1, 1, 1), 2, 2, 0)}
Idle == Sig(0, 0, 0, 0)
Slow == Sig(2, 1, None, 2)
Busy == Sig(2, 2, 1, None)
Tight == [max |-> 2, depth |-> 1, ready |-> 1, claims |-> 2, pressure |-> 1]
PlannedSignals ==
    [1..3 -> {Slow, Busy}]
      \cup {<<Idle, Slow, Busy>>, <<Slow, Idle, Idle>>, <<Idle, Idle, Idle>>, <<Tight, Slow, Idle>>, <<Busy, Tight, Slow>>,
            <<Slow, Tight, Tight>>, <<Tight, Tight, Tight>>}

\* Three nodes, one cordoned, whose pods come in two pages.
SmallLayout ==
    [alloc |-> ("n1" :> 2) @@ ("n2" :> 2) @@ ("n3" :> 2),
     cordoned |-> {"n3"},
     pages |-> <<("n1" :> 1) @@ ("n2" :> 1) @@ ("n3" :> 1),
                 ("n1" :> 0) @@ ("n2" :> 2) @@ ("n3" :> 0)>>]
NoNodes == [alloc |-> [n \in {} |-> 0], cordoned |-> {}, pages |-> <<>>]

\* The second plan freezes the first cluster.
MovingPlans == <<[c \in 1..2 |-> "hosts"],
                 [c \in 1..2 |-> IF c = 1 THEN "frozen" ELSE "hosts"]>>
NoPlan == <<[c \in 1..2 |-> "frozen"]>>
OnePlan == <<[c \in 1..2 |-> "hosts"]>>

Allowed == [replicas |-> {"m1", "m2", "m3"}, denied |-> {}, leaseMaxFaults |-> 2]
MayNotGet == [replicas |-> {"m1", "m2"}, denied |-> {"get"}, leaseMaxFaults |-> 1]
MayNotCreate == [replicas |-> {"m1", "m2"}, denied |-> {"create"}, leaseMaxFaults |-> 1]
Member(c) == INSTANCE FleetMember WITH
    Pools <- Things, Sinks <- {"gcs"}, Reads <- "gcs",
    Forms <- {"entry", "drain", "other", "schema", "broken", "none"},
    Faults <- {"fetch", "template", "ensure", "list", "delete", "restart"}, MaxFaults <- 1,
    MaxWrites <- 3, MaxTicks <- 2, Replicas <- c.replicas, Nobody <- "Nobody",
    LeaseDuration <- 3, RenewDeadline <- 2, Denied <- c.denied,
    LeaseFaults <- {"transport", "signal", "crash"}, LeaseMaxFaults <- c.leaseMaxFaults,
    plan <- x1, writes <- x2, templates <- x3, have <- x4, etag <- x5, last <- x6, retry <- x7,
    ok <- x8, since <- x9, pc <- x10, todo <- x11, skipped <- x12, kept <- x13, ticks <- x14,
    faults <- x15, lease <- x1, st <- x2, at <- x3, news <- x4, dirty <- x5, age <- x6,
    renew <- x7, leaseFaults <- x8

Racing == [clusters |-> 1..2, admins |-> Actors, specs |-> RacingSpecs,
           signals |-> {[c \in 1..2 |-> Idle]}, overrides |-> {None, 1}, maxGen |-> 2,
           maxAge |-> 2]
Planning == [clusters |-> 1..3, admins |-> {"admin"}, specs |-> PlannedSpecs,
             signals |-> PlannedSignals, overrides |-> {None}, maxGen |-> 1, maxAge |-> 0]
Planner(c) == INSTANCE FleetPlanner WITH
    Clusters <- c.clusters, Admins <- c.admins, Specs <- c.specs, Signals <- c.signals,
    Overrides <- c.overrides, MaxGen <- c.maxGen, MaxAge <- c.maxAge, report <- x1,
    signal <- x2, published <- x3, archived <- x4, admin <- x5

Full == [layout |-> SmallLayout, detail |-> "full", requireHeartbeat |-> TRUE, maxFaults |-> 2]
Light == [layout |-> NoNodes, detail |-> "light", requireHeartbeat |-> FALSE, maxFaults |-> 3]
Moving == [names |-> Things, plans |-> MovingPlans, maxCalls |-> 3, routeMaxFaults |-> 1]
Spreading == [names |-> {"n1", "n2", "n3"}, plans |-> OnePlan, maxCalls |-> 3,
              routeMaxFaults |-> 0]
Unhosted == [names |-> Things, plans |-> NoPlan, maxCalls |-> 2, routeMaxFaults |-> 0]
Reports(c) == INSTANCE FleetReports WITH
    Layout <- c.layout, Claims <- 3, Depth <- 2, Detail <- c.detail, Hub <- TRUE,
    ForceConflicts <- FALSE, RequireHeartbeat <- c.requireHeartbeat, MaxReportAge <- 1,
    MaxTime <- 3, MaxFaults <- c.maxFaults, Clusters <- 1..2, Threads <- Actors,
    Names <- c.names, Plans <- c.plans, FirstPlan <- 1, Strategy <- "round-robin",
    UniqueNames <- TRUE, Retries <- 2, MaxCalls <- c.maxCalls,
    RouteMaxFaults <- c.routeMaxFaults, now <- x1, pc <- x2, report <- x3, walk <- x4,
    failed <- x5, okAt <- x6, gcs <- x7, profile <- x8, took <- x9, faults <- x10, pub <- x1,
    cache <- x2, expired <- x3, cursor <- x4, clients <- x5, creds <- x6, claims <- x7,
    owner <- x8, used <- x9, th <- x10, picks <- x11, calls <- x12, routeFaults <- x13

-----------------------------------------------------------------------------
\* ZeroN and KeepN: the component has N - 1 variables, the others stay 0.
Zero14 == x14 = 0 /\ x15 = 0
Zero11 == x11 = 0 /\ x12 = 0 /\ x13 = 0 /\ Zero14
Zero9 == x9 = 0 /\ x10 = 0 /\ Zero11
Zero6 == x6 = 0 /\ x7 = 0 /\ x8 = 0 /\ Zero9
Keep16 == UNCHANGED part
Keep14 == UNCHANGED <<part, x14, x15>>
Keep11 == UNCHANGED <<part, x11, x12, x13, x14, x15>>
Keep9 == UNCHANGED <<part, x9, x10, x11, x12, x13, x14, x15>>
Keep6 == UNCHANGED <<part, x6, x7, x8, x9, x10, x11, x12, x13, x14, x15>>

\* One component moves, from its own initial states; the others are not there.
Init ==
    /\ part \in Parts
    /\ \/ part = "member" /\ Member(Allowed)!MemberInit
       \/ part = "lease" /\ Member(Allowed)!LeaseInit /\ Zero9
       \/ part = "lease-get" /\ Member(MayNotGet)!LeaseInit /\ Zero9
       \/ part = "lease-create" /\ Member(MayNotCreate)!LeaseInit /\ Zero9
       \/ part = "apply" /\ Planner(Racing)!ApplyInit /\ Zero6
       \/ part = "plan" /\ Planner(Planning)!ApplyInit /\ Zero6
       \/ part = "report" /\ Reports(Full)!ReportInit /\ Zero11
       \/ part = "report-light" /\ Reports(Light)!ReportInit /\ Zero11
       \/ part = "resolve" /\ Reports(Moving)!RouteInit /\ Zero14
       \/ part = "spread" /\ Reports(Spreading)!RouteInit /\ Zero14
       \/ part = "unhosted" /\ Reports(Unhosted)!RouteInit /\ Zero14

Next ==
    \/ part = "member" /\ Member(Allowed)!MemberNext /\ Keep16
    \/ part = "lease" /\ Member(Allowed)!LeaseNext /\ Keep9
    \/ part = "lease-get" /\ Member(MayNotGet)!LeaseNext /\ Keep9
    \/ part = "lease-create" /\ Member(MayNotCreate)!LeaseNext /\ Keep9
    \/ part = "apply" /\ Planner(Racing)!ApplyNext /\ Keep6
    \/ part = "plan" /\ Planner(Planning)!PlanNext /\ Keep6
    \/ part = "report" /\ Reports(Full)!ReportNext /\ Keep11
    \/ part = "report-light" /\ Reports(Light)!ReportNext /\ Keep11
    \/ part = "resolve" /\ Reports(Moving)!RouteNext /\ Keep14
    \/ part = "spread" /\ Reports(Spreading)!RouteNext /\ Keep14
    \/ part = "unhosted" /\ Reports(Unhosted)!RouteNext /\ Keep14

Spec == Init /\ [][Next]_vars

Symmetry == Permutations(Actors) \cup Permutations(Things)

-----------------------------------------------------------------------------
\* Models are placed on clusters that are known to be there: on fresh reports of a healthy
\* control plane (FreshMeansReported, UnhealthyIsStale, NeverBlind), with load that was
\* measured (UnmeasuredIsNeverZero, PressureOfOneWalk); every model once (EveryModelServed),
\* none on a drained cluster (DrainedShedsEverything), the budget to the last replica
\* (BudgetExact), and the same again for the same clusters (PositionalIsStable).
PlacedOnReports ==
    /\ part = "apply" => Planner(Racing)!NeverBlind
    /\ part = "plan" =>
          /\ Planner(Planning)!DrainedShedsEverything
          /\ Planner(Planning)!EveryModelServed
          /\ Planner(Planning)!BudgetExact
          /\ Planner(Planning)!PositionalIsStable
    /\ part = "report" =>
          /\ Reports(Full)!UnmeasuredIsNeverZero
          /\ Reports(Full)!FreshMeansReported
          /\ Reports(Full)!PressureOfOneWalk
          /\ Reports(Full)!UnhealthyIsStale
    /\ part = "report-light" =>
          /\ Reports(Light)!UnmeasuredIsNeverZero
          /\ Reports(Light)!FreshMeansReported

\* Clusters and clients act on the plan in force and on nothing else: one replica of a member
\* drives its loops (OneDriver), a pool every order included stands (NothingLostUnordered), a
\* refreshed read is not older than its call (RefreshSeesPublished), no claim is made on a
\* frozen cluster (FrozenNeverRouted), each can be deleted by its name (EveryClaimRoutable),
\* and round robin spreads (Spreads).
ActsOnOrders ==
    /\ part = "member" => Member(Allowed)!NothingLostUnordered
    /\ part = "lease" => Member(Allowed)!OneDriver
    /\ part = "lease-get" => Member(MayNotGet)!OneDriver
    /\ part = "lease-create" => Member(MayNotCreate)!OneDriver
    /\ part = "resolve" =>
          /\ Reports(Moving)!RefreshSeesPublished
          /\ Reports(Moving)!FrozenNeverRouted
          /\ Reports(Moving)!EveryClaimRoutable
    /\ part = "spread" => Reports(Spreading)!Spreads
    /\ part = "unhosted" =>
          /\ Reports(Unhosted)!RefreshSeesPublished
          /\ Reports(Unhosted)!FrozenNeverRouted
          /\ Reports(Unhosted)!EveryClaimRoutable

\* What is published moves forward and for a reason: generations increase whoever applies
\* (GenerationAdvances), an entry is emptied only on purpose (EmptiedOnPurpose), a silent
\* cluster gets nothing new (SilentGetsNothingNew), a member's stamp moves with a report some
\* sink took (StampIsEarned), and one sink's failure is not the other's (SinksAreIndependent).
PublishesInOrder ==
    [][/\ part = "apply" =>
             /\ Planner(Racing)!GenerationAdvances
             /\ Planner(Racing)!EmptiedOnPurpose
             /\ Planner(Racing)!SilentGetsNothingNew
       /\ part = "report" =>
             /\ Reports(Full)!StampIsEarned
             /\ Reports(Full)!SinksAreIndependent]_vars
=============================================================================
