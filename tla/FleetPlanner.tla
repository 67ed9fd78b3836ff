-------------------------------- MODULE FleetPlanner --------------------------------
(***************************************************************************)
(* The planner of a multi-cluster fleet: the plan as a pure operator, and   *)
(* the applies that publish it.                                             *)
(***************************************************************************)
EXTENDS Integers, Sequences, SequencesExt, FiniteSets, FiniteSetsExt

CONSTANTS
    Clusters,   \* 1..n, in name order
    Admins,
    Specs,      \* the specifications an administrator may apply
    Signals,    \* the capacity signals the clusters may report
    Overrides,  \* the values of --generation, None among them
    MaxGen,     \* bound on the published generation
    MaxAge      \* bound on the age of a report

VARIABLES
    report,     \* age of each capacity report; STALE_AGE when it is missing
    signal,     \* what the reports say besides their age
    published,  \* fleet/assignments.json: generation, store generation, entries
    archived,   \* the generation stamped on the archived specification
    admin       \* the local state of each administrator's apply

-----------------------------------------------------------------------------
(***************************************************************************)
(* The multi-cluster planner as pure operators: the candidate set, the      *)
(* placement policies, the largest-remainder budget split, the sizing of a  *)
(* pool, and Plan, which turns a fleet specification, a registry and the    *)
(* published entries into the next assignments (planner.py, placement.py,   *)
(* budget.py, sizing.py).                                                   *)
(*                                                                          *)
(* Clusters are numbered in the order of their names.  A registry maps the  *)
(* clusters the inventory knows to what it knows of them.  Ages are ranks:  *)
(* 0 is within max_report_age_s, STALE_AGE is the age of a report that is   *)
(* missing or unreadable.  Pressure is counted in units of 1/PressureUnit.  *)
(* Fractions are compared by cross-multiplication, never rounded.           *)
(***************************************************************************)
None == -1
STALE_AGE == 9
PressureUnit == 2

Fresh(reg) == {c \in DOMAIN reg : reg[c].age = 0}

Eligible(reg) == SetToSortSeq({c \in Fresh(reg) : reg[c].weight > 0}, <)

-----------------------------------------------------------------------------
(* Selection of a cluster for one more pool.  chosen is the sequence of the *)
(* clusters already chosen in this plan (planned_replicas).                 *)

Planned(chosen, c) == Cardinality({i \in DOMAIN chosen : chosen[i] = c})
ActiveReplicas(reg, chosen, c) == reg[c].depth + Planned(chosen, c)
HasCapacity(reg, chosen, c) ==
    reg[c].max = None \/ ActiveReplicas(reg, chosen, c) + 1 <= reg[c].max

Candidates(reg, chosen) ==
    {c \in ToSet(Eligible(reg)) : HasCapacity(reg, chosen, c)}

LessLoaded(reg, chosen, a, b) ==
    LET unmeasured(c) == reg[c].claims = None
    IN  \/ ~unmeasured(a) /\ unmeasured(b)
        \/ /\ unmeasured(a) = unmeasured(b)
           /\ \/ reg[a].claims < reg[b].claims
              \/ /\ reg[a].claims = reg[b].claims
                 /\ ActiveReplicas(reg, chosen, a) < ActiveReplicas(reg, chosen, b)

LeastLoaded(reg, chosen) ==
    LET S == Candidates(reg, chosen)
    IN  CHOOSE a \in S : \A b \in S : \/ LessLoaded(reg, chosen, a, b)
                                      \/ ~LessLoaded(reg, chosen, b, a) /\ a <= b

\* The first of the candidates with the largest num[c] / den[c].
Best(S, num, den) ==
    CHOOSE a \in S : \A b \in S : \/ num[a] * den[b] > num[b] * den[a]
                                  \/ num[a] * den[b] = num[b] * den[a] /\ a <= b

CapacityWeighted(reg, chosen) ==
    LET S == Candidates(reg, chosen)
    IN  Best(S, [c \in S |-> reg[c].weight],
                [c \in S |-> 1 + ActiveReplicas(reg, chosen, c)])

\* weight * ready_ratio / (1 + load * (1 + pressure)); a cluster that could not
\* measure its pressure is given the mean of those that did.
CapacityAware(reg, chosen) ==
    LET S     == Candidates(reg, chosen)
        known == {c \in S : reg[c].pressure # None}
        total == FoldSet(LAMBDA c, t : t + reg[c].pressure, 0, known)
        k     == Max({Cardinality(known), 1})
        unit  == k * PressureUnit
        raw(c) == IF reg[c].pressure = None THEN total ELSE k * reg[c].pressure
        pressure(c) == Max({0, Min({unit, raw(c)})})
        num   == [c \in S |-> reg[c].weight * unit
                                * (IF reg[c].depth = 0 THEN 1 ELSE reg[c].ready)]
        den   == [c \in S |-> (IF reg[c].depth = 0 THEN 1 ELSE reg[c].depth)
                                * (unit + ActiveReplicas(reg, chosen, c)
                                            * (unit + pressure(c)))]
    IN  IF \A a, b \in S : num[a] * den[b] = num[b] * den[a]
        THEN LeastLoaded(reg, chosen)
        ELSE Best(S, num, den)

\* The counter starts at 0 in every plan and advances with every call.
RoundRobin(reg, chosen) ==
    LET ordered == Eligible(reg)
        n       == Len(ordered)
        at(i)   == ordered[((Len(chosen) - n + i) % n) + 1]
        first   == CHOOSE i \in 0..(n - 1) :
                       /\ at(i) \in Candidates(reg, chosen)
                       /\ \A j \in 0..(i - 1) : at(j) \notin Candidates(reg, chosen)
    IN  at(first)

\* image is the digest of the image's name.
ImageAffinity(image, reg, chosen) ==
    LET names  == Eligible(reg)
        target == names[(image % Len(names)) + 1]
    IN  IF HasCapacity(reg, chosen, target) THEN target ELSE LeastLoaded(reg, chosen)

\* None: NoClusterAvailableError.
Select(policy, image, reg, chosen) ==
    IF Candidates(reg, chosen) = {} THEN None
    ELSE CASE policy = "round-robin"       -> RoundRobin(reg, chosen)
           [] policy = "least-loaded"      -> LeastLoaded(reg, chosen)
           [] policy = "capacity-weighted" -> CapacityWeighted(reg, chosen)
           [] policy = "image-affinity"    -> ImageAffinity(image, reg, chosen)
           [] policy = "capacity-aware"    -> CapacityAware(reg, chosen)

-----------------------------------------------------------------------------
(* Placement of the models of a specification.                              *)

PlaceOne(spec, reg, chosen) ==
    LET i     == Len(chosen)
        model == spec.models[i + 1]
        elig  == Eligible(reg)
    IN  CASE spec.policy = "pinned"  -> model.cluster
          [] spec.policy # "pinned" /\ spec.min > 0 ->
                 elig[(i % Min({spec.min, Len(elig)})) + 1]
          [] OTHER -> IF i < Len(elig) THEN elig[i + 1]
                      ELSE Select(spec.policy, model.image, reg, chosen)

\* The clusters of the models, in order; it ends with None where a selector
\* finds no cluster.
Placement(spec, reg) ==
    LET place[i \in 0..Len(spec.models)] ==
            IF i = 0 THEN <<>>
            ELSE IF None \in ToSet(place[i - 1]) THEN place[i - 1]
            ELSE Append(place[i - 1], PlaceOne(spec, reg, place[i - 1]))
    IN  IF Eligible(reg) = <<>> THEN <<>> ELSE place[Len(spec.models)]

\* What plan() refuses before it places anything.
Refused(spec, reg) ==
    \/ /\ spec.policy = "image-affinity"
       /\ \E i \in DOMAIN spec.models : spec.models[i].image = None
    \/ /\ spec.policy = "pinned"
       /\ \E i \in DOMAIN spec.models :
              spec.models[i].cluster \notin ToSet(Eligible(reg))
    \/ Fresh(reg) = {} /\ spec.models # <<>>

-----------------------------------------------------------------------------
(* Budget and sizing.                                                       *)

FirstPlaced(chosen, c) == Min({i \in DOMAIN chosen : chosen[i] = c})

HamiltonSplit(total, chosen, w) ==
    LET S         == ToSet(chosen)
        tw        == FoldSet(LAMBDA c, t : t + w[c], 0, S)
        alloc     == [c \in S |-> (total * w[c]) \div tw]
        part      == [c \in S |-> (total * w[c]) % tw]
        remainder == total - FoldSet(LAMBDA c, t : t + alloc[c], 0, S)
        ahead(c)  == {d \in S : \/ part[d] > part[c]
                                \/ /\ part[d] = part[c]
                                   /\ FirstPlaced(chosen, d) < FirstPlaced(chosen, c)}
    IN  [c \in S |-> alloc[c] + (IF Cardinality(ahead(c)) < remainder THEN 1 ELSE 0)]

\* Python's round of n / d: to the nearest integer, ties to the even one.
Round(n, d) ==
    LET q == n \div d
        r == n % d
    IN  IF 2 * r > d \/ (2 * r = d /\ q % 2 = 1) THEN q + 1 ELSE q

ComputeReplicas(tasks, total, mc, maxPool) ==
    Min({Max({1, Round(mc * tasks, total)}), tasks, maxPool})

ModelsOn(chosen, c) == {i \in DOMAIN chosen : chosen[i] = c}
Slices(spec, reg, chosen) ==
    HamiltonSplit(spec.mc, chosen, [c \in ToSet(chosen) |-> reg[c].weight])
PoolsOn(spec, reg, chosen, c) ==
    LET on    == ModelsOn(chosen, c)
        total == FoldSet(LAMBDA i, t : t + spec.models[i].tasks, 0, on)
    IN  {[model |-> i,
          replicas |-> ComputeReplicas(spec.models[i].tasks, total,
                           Slices(spec, reg, chosen)[c], spec.maxPool)] : i \in on}

-----------------------------------------------------------------------------
(* The entry of a cluster nothing was placed on.                            *)

Empty == [pools |-> {}, since |-> FALSE]
Previous(prev, c) == IF c \in DOMAIN prev THEN prev[c] ELSE Empty

PastWindow(spec, age) == spec.window > 0 /\ age < STALE_AGE /\ age > spec.window

Freezes(spec, reg, prev, c) ==
    /\ reg[c].age > 0
    /\ reg[c].weight > 0
    /\ spec.models # <<>>
    /\ Previous(prev, c).pools # {}
    /\ ~PastWindow(spec, reg[c].age)

EntryOf(spec, reg, prev, chosen, c) ==
    IF c \in ToSet(chosen)
    THEN [pools |-> PoolsOn(spec, reg, chosen, c), since |-> FALSE]
    ELSE IF Freezes(spec, reg, prev, c)
    THEN [pools |-> prev[c].pools, since |-> TRUE]
    ELSE Empty

\* plan(): it raises, or gives an entry to every cluster of the registry.
Raises(spec, reg) == Refused(spec, reg) \/ None \in ToSet(Placement(spec, reg))
Plan(spec, reg, prev) ==
    [c \in DOMAIN reg |-> EntryOf(spec, reg, prev, Placement(spec, reg), c)]

-----------------------------------------------------------------------------
(***************************************************************************)
(* fleetctl apply: administrators who read the published assignments, load  *)
(* the capacity reports, plan, publish under a compare-and-set on the store *)
(* generation, and archive the specification (planner.apply), while the     *)
(* reports of the members age, vanish and come back.  An administrator's    *)
(* process may die between any two requests.                                *)
(***************************************************************************)
applyVars == <<report, signal, published, archived, admin>>

NoEntries == [c \in {} |-> Empty]
Idle == [pc |-> "idle"]

ApplyInit ==
    /\ report \in [Clusters -> {0, STALE_AGE}]
    /\ signal \in Signals
    /\ published = [gen |-> 0, store |-> 0, entries |-> NoEntries]
    /\ archived = 0
    /\ admin = [a \in Admins |-> Idle]

-----------------------------------------------------------------------------
(* The members' reports.                                                    *)

Ages(c) ==
    /\ report[c] < MaxAge
    /\ report' = [report EXCEPT ![c] = @ + 1]
    /\ UNCHANGED <<signal, published, archived, admin>>

Vanishes(c) ==
    /\ report[c] # STALE_AGE
    /\ report' = [report EXCEPT ![c] = STALE_AGE]
    /\ UNCHANGED <<signal, published, archived, admin>>

\* A member publishes a report, or an object that was unreadable is read again:
\* it may be fresh or already old.
Reports(c) ==
    /\ report[c] # 0
    /\ \E age \in {0, 1} : report' = [report EXCEPT ![c] = age]
    /\ UNCHANGED <<signal, published, archived, admin>>

-----------------------------------------------------------------------------
(* apply().                                                                 *)

WeightOf(spec, c) == IF c \in DOMAIN spec.weights THEN spec.weights[c] ELSE 1

\* GCSInventory.load: a cluster is known by its report, or by being named in
\* cluster_weights.
Registry(spec) ==
    [c \in {d \in Clusters : report[d] # STALE_AGE \/ d \in DOMAIN spec.weights} |->
        IF report[c] = STALE_AGE
        THEN [weight |-> WeightOf(spec, c), max |-> None, depth |-> 0, ready |-> 0,
              claims |-> None, pressure |-> None, age |-> STALE_AGE]
        ELSE [weight |-> WeightOf(spec, c), max |-> signal[c].max,
              depth |-> signal[c].depth, ready |-> signal[c].ready,
              claims |-> signal[c].claims, pressure |-> signal[c].pressure,
              age |-> report[c]]]

NextGeneration(current, override) == IF override = None THEN current + 1 ELSE override

\* read_published_payload and next_generation: an override that does not
\* advance ends the apply here.
ReadAnyOverride(a) ==
    /\ admin[a].pc = "idle"
    /\ \E spec \in Specs, override \in Overrides :
          admin' = [admin EXCEPT ![a] =
              [pc |-> "read", spec |-> spec, base |-> published,
               gen |-> NextGeneration(published.gen, override)]]
    /\ UNCHANGED <<report, signal, published, archived>>
ReadPublished(a) ==
    /\ admin[a].pc = "idle"
    /\ \E spec \in Specs, override \in Overrides :
          LET gen == NextGeneration(published.gen, override)
          IN  /\ gen <= MaxGen
              /\ gen > published.gen
              /\ admin' = [admin EXCEPT ![a] =
                     [pc |-> "read", spec |-> spec, base |-> published, gen |-> gen]]
    /\ UNCHANGED <<report, signal, published, archived>>

\* provider.load and plan, which raises or hands the plan on to be published.
LoadAndPlan(a) ==
    /\ admin[a].pc = "read"
    /\ LET spec == admin[a].spec
           reg  == Registry(spec)
       IN  admin' = [admin EXCEPT ![a] =
               IF Raises(spec, reg) THEN Idle
               ELSE [pc |-> "planned", spec |-> spec, base |-> admin[a].base,
                     gen |-> admin[a].gen, reg |-> reg,
                     entries |-> Plan(spec, reg, admin[a].base.entries)]]
    /\ UNCHANGED <<report, signal, published, archived>>

\* publish: CASConflict ends the apply; the administrator must start again.
Publish(a) ==
    /\ admin[a].pc = "planned"
    /\ IF published.store = admin[a].base.store
       THEN /\ published' = [gen |-> admin[a].gen, store |-> published.store + 1,
                             entries |-> admin[a].entries]
            /\ admin' = [admin EXCEPT ![a] = [pc |-> "archive", gen |-> admin[a].gen]]
       ELSE /\ admin' = [admin EXCEPT ![a] = Idle]
            /\ UNCHANGED published
    /\ UNCHANGED <<report, signal, archived>>

\* The archive is written unconditionally.
Archive(a) ==
    /\ admin[a].pc = "archive"
    /\ archived' = admin[a].gen
    /\ admin' = [admin EXCEPT ![a] = Idle]
    /\ UNCHANGED <<report, signal, published>>

Dies(a) ==
    /\ admin[a].pc # "idle"
    /\ admin' = [admin EXCEPT ![a] = Idle]
    /\ UNCHANGED <<report, signal, published, archived>>

ApplyNext ==
    \/ \E c \in Clusters : Ages(c) \/ Vanishes(c) \/ Reports(c)
    \/ \E a \in Admins : \/ ReadPublished(a) \/ LoadAndPlan(a) \/ Publish(a)
                         \/ Archive(a) \/ Dies(a)

\* Without the death of a process.
CalmNext ==
    \/ \E c \in Clusters : Ages(c) \/ Vanishes(c) \/ Reports(c)
    \/ \E a \in Admins : ReadPublished(a) \/ LoadAndPlan(a) \/ Publish(a) \/ Archive(a)

\* One administrator computes a plan from every initial registry.
PlanNext == \E a \in Admins : ReadPublished(a) \/ LoadAndPlan(a)

ApplySpec == ApplyInit /\ [][ApplyNext]_applyVars
PlanSpec == ApplyInit /\ [][PlanNext]_applyVars
CalmSpec == ApplyInit /\ [][CalmNext]_applyVars

-----------------------------------------------------------------------------
(* Properties.                                                              *)

\* Two administrators who apply at the same time never publish the same
\* generation or an older one: the payload's generation strictly increases
\* (publish under if_generation_match; members ignore a plan that does not
\* advance).
GenerationAdvances == (published' # published) => (published'.gen > published.gen)

\* The administrator whose plan is being published in this step.
Publisher(a) == admin[a].pc = "planned" /\ admin'[a].pc = "archive"

\* An entry that held pools is published empty only on an instruction (weight
\* 0, no models), because the cluster is fresh and its models were placed
\* elsewhere, or because a report that was read said it had been silent longer
\* than the window (FleetSpec.stale_teardown_after_s).
EmptiedOnPurpose ==
    \A a \in Admins : Publisher(a) =>
       \A c \in DOMAIN published.entries \cap DOMAIN published'.entries :
          (published.entries[c].pools # {} /\ published'.entries[c].pools = {}) =>
              LET spec == admin[a].spec
                  age  == admin[a].reg[c].age
              IN  \/ WeightOf(spec, c) = 0 \/ spec.models = <<>> \/ age = 0
                  \/ spec.window > 0 /\ spec.window < age /\ age # STALE_AGE

\* A cluster whose report is not fresh is given nothing new: what is published
\* for it is what was published before, marked stale so that nothing is routed
\* there, or nothing.
SilentGetsNothingNew ==
    \A a \in Admins : Publisher(a) =>
       \A c \in DOMAIN published'.entries :
          (admin[a].reg[c].age # 0 /\ published'.entries[c].pools # {}) =>
              /\ c \in DOMAIN published.entries
              /\ published'.entries[c].pools = published.entries[c].pools
              /\ published'.entries[c].since

Planning == {a \in Admins : admin[a].pc = "planned"}
PlacedBy(a) == Placement(admin[a].spec, admin[a].reg)
Sum(f) == FoldSet(LAMBDA x, t : t + f[x], 0, DOMAIN f)

\* A cluster an administrator drained (weight 0) is never given a pool, by any
\* of the placement paths nor by a freeze (PlannerRegistry.eligible).
DrainedShedsEverything ==
    \A a \in Planning : \A c \in DOMAIN admin[a].entries :
        WeightOf(admin[a].spec, c) = 0 => admin[a].entries[c].pools = {}

\* Unless everything fresh is drained, every model of the specification has a
\* pool with at least one replica on exactly one cluster that reports.
EveryModelServed ==
    \A a \in Planning : Eligible(admin[a].reg) # <<>> =>
        \A i \in DOMAIN admin[a].spec.models :
            Cardinality({c \in Fresh(admin[a].reg) :
                \E p \in admin[a].entries[c].pools : p.model = i /\ p.replicas >= 1}) = 1

\* The budget is handed out to the last replica, and no cluster's slice is a
\* whole replica away from its exact share (hamilton_split: "Sums to exactly
\* total (no rounding overshoot)").
BudgetExact ==
    \A a \in Planning : PlacedBy(a) # <<>> =>
        LET spec == admin[a].spec
            s    == Slices(spec, admin[a].reg, PlacedBy(a))
            w    == [c \in DOMAIN s |-> WeightOf(spec, c)]
        IN  /\ Sum(s) = spec.mc
            /\ \A c \in DOMAIN s : /\ s[c] * Sum(w) < spec.mc * w[c] + Sum(w)
                                   /\ s[c] * Sum(w) > spec.mc * w[c] - Sum(w)

\* With min_clusters, or pinned, the placement is a function of the
\* specification and of which clusters are eligible: no load signal moves a
\* model, so that applying again cannot ping-pong.
PositionalIsStable ==
    \A a \in Planning : (admin[a].spec.min > 0 \/ admin[a].spec.policy = "pinned") =>
        PlacedBy(a) = Placement(admin[a].spec,
            [c \in DOMAIN admin[a].reg |->
                [admin[a].reg[c] EXCEPT !.depth = 0, !.ready = 0, !.claims = None,
                                        !.pressure = None, !.max = None]])

\* No cluster is given pools while the planner sees no fresh report at all.
NeverBlind ==
    \A a \in Planning : (admin[a].spec.models # <<>>) => Fresh(admin[a].reg) # {}

=============================================================================
