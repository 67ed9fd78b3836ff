----------------------------- MODULE RlSizing -----------------------------
(***************************************************************************)
(* The arithmetic of a fleet plan: replicas per image, the windows of the  *)
(* sliding and pipelined strategies, the split of the concurrency budget   *)
(* over clusters, the waves of a staged warm-up and the benchmark plan,    *)
(* as operators, against definitions of what they are to compute.          *)
(*                                                                         *)
(* Weights, GiB and shares are floats in the code; here they are integers  *)
(* and fractions are compared by cross-multiplication.                     *)
(*                                                                         *)
(* examples/agent-sandbox-rl/agent_sandbox_rl: sizing.py, capacity.py,     *)
(* placement.py and fleet.py.                                              *)
(***************************************************************************)
EXTENDS Integers, Sequences, FiniteSets, FiniteSetsExt, SequencesExt

CONSTANTS
    Question,  \* the operator that is checked
    Size,      \* longest sequence of inputs
    Largest    \* largest number in the inputs

VARIABLES input, result, done
vars == <<input, result, done>>

Total(s) == FoldSeq(LAMBDA x, y : x + y, 0, s)
Prefix(s, n) == SubSeq(s, 1, n)
Positive == 1..Largest
Lists(S) == UNION {[1..n -> S] : n \in 1..Size}

---------------------------------------------------------------------------
\* sizing.py

\* Python's round of a/b: half to even.
RoundHalfEven(a, b) ==
    LET q == a \div b  r == 2 * (a % b)
    IN IF r > b \/ (r = b /\ q % 2 = 1) THEN q + 1 ELSE q

ComputeReplicas(image, total, concurrent, pool, perTask) ==
    IF image <= 0 THEN 0
    ELSE IF perTask THEN Min({image, pool})
    ELSE LET t == IF total <= 0 THEN image ELSE total
         IN Min({Max({1, RoundHalfEven(concurrent * image, t)}), image, pool})

\* The loop of both windows: images are taken while their cost fits, the first always.
TakeWhileFits(costs, limit) ==
    FoldLeft(LAMBDA acc, c :
               IF acc.stop \/ (acc.n >= 1 /\ acc.used + c > limit)
               THEN [acc EXCEPT !.stop = TRUE]
               ELSE [n |-> acc.n + 1, used |-> acc.used + c, stop |-> FALSE],
             [n |-> 0, used |-> 0, stop |-> FALSE], costs).n

Replicas(counts, concurrent, pool, perTask) ==
    [i \in DOMAIN counts |->
       ComputeReplicas(counts[i], Max({1, Total(counts)}), concurrent, pool, perTask)]

RecommendWindow(counts, concurrent, pool, perTask) ==
    Max({1, TakeWhileFits(Replicas(counts, concurrent, pool, perTask), Max({1, concurrent}))})

\* The disk budget is usable/scale GiB over all nodes, shared by factor windows;
\* usable = 0 is "no disk hint".
RecommendWindowDisk(counts, concurrent, pool, perTask, avg, usable, scale, factor) ==
    LET costs == [i \in DOMAIN counts |->
                    Replicas(counts, concurrent, pool, perTask)[i] * avg * factor * scale]
    IN IF usable = 0 THEN Len(counts) ELSE Max({1, TakeWhileFits(costs, usable)})

\* Two windows are resident at once.
RecommendWindowPipelined(counts, concurrent, pool, perTask, avg, usable, scale) ==
    Max({1, Min({Max({1, RecommendWindow(counts, concurrent, pool, perTask) \div 2}),
                 RecommendWindowDisk(counts, concurrent, pool, perTask, avg, usable, scale, 2)})})

---------------------------------------------------------------------------
\* fleet.py

\* Faulty: every share is rounded for itself.
SplitBudgetRounded(total, weights) ==
    [i \in DOMAIN weights |-> RoundHalfEven(total * weights[i], Total(weights))]

\* Largest remainder: the units left over go to the largest fractional parts, the
\* earlier key first (sorted is stable).
SplitBudget(total, weights) ==
    LET tw == Total(weights)
        floor == [i \in DOMAIN weights |-> (total * weights[i]) \div tw]
        frac(i) == (total * weights[i]) % tw
        left == total - Total(floor)
        ahead(i) == {j \in DOMAIN weights :
                       frac(j) > frac(i) \/ (frac(j) = frac(i) /\ j < i)}
    IN [i \in DOMAIN weights |->
          IF Cardinality(ahead(i)) < left THEN floor[i] + 1 ELSE floor[i]]

\* start_warmpools: pools in waves whose summed replicas stay under the budget.
Waves(replicas, budget) ==
    LET step(acc, r) ==
          IF acc.open # <<>> /\ Total(acc.open) + r > budget
          THEN [done |-> Append(acc.done, acc.open), open |-> <<r>>]
          ELSE [acc EXCEPT !.open = Append(@, r)]
        end == FoldLeft(step, [done |-> <<>>, open |-> <<>>], replicas)
    IN IF end.open = <<>> THEN end.done ELSE Append(end.done, end.open)

\* plan: images placed on clusters 1..Len(weights), sized by the cluster's budget.
PlanReplicas(p) ==
    LET clusters == {p.cluster[i] : i \in DOMAIN p.counts}
        used == SetToSortSeq(clusters, <)
        budget == SplitBudget(p.concurrent, [n \in DOMAIN used |-> p.weights[used[n]]])
        of(c) == CHOOSE n \in DOMAIN used : used[n] = c
        total(c) == MapThenSumSet(LAMBDA i : p.counts[i], {i \in DOMAIN p.counts : p.cluster[i] = c})
    IN [i \in DOMAIN p.counts |->
          ComputeReplicas(p.counts[i], total(p.cluster[i]), budget[of(p.cluster[i])],
                          p.pool, p.perTask)]

---------------------------------------------------------------------------
\* capacity.py: plan_benchmark, for nodes nodes of disk GiB with 25% headroom in all.

CeilDiv(a, b) == (a + b - 1) \div b

PlanBenchmark(b) ==
    LET rl == b.tasks > 1
        replicas == IF rl THEN Min({b.tasks, b.pool}) ELSE 1
        cpuCap == b.cpu \div b.request
        concCap == Max({1, Min({cpuCap, b.pods})})
        usable == b.disk * 75               \* times 100, over all nodes
        warm == b.images * replicas
        resident == CeilDiv(b.images, b.nodes) * replicas * b.avg
        diskFits == resident * 100 * b.nodes <= usable
        podsFit == warm <= b.pods
        cpuFits == warm * b.request <= b.cpu
        window == RecommendWindowPipelined([i \in 1..b.images |-> b.tasks], concCap, b.pool,
                                           rl, b.avg, usable, 100)
    IN IF diskFits /\ podsFit /\ cpuFits
       THEN [strategy |-> "naive", concurrent |-> Min({b.images * b.tasks, concCap}),
             window |-> b.images, warm |-> warm, resident |-> resident, concCap |-> concCap,
             usable |-> usable]
       ELSE [strategy |-> "pipelined", concurrent |-> Max({1, Min({concCap, window * replicas})}),
             window |-> window, warm |-> 2 * window * replicas,
             resident |-> CeilDiv(window, b.nodes) * replicas * b.avg * 2, concCap |-> concCap,
             usable |-> usable]

---------------------------------------------------------------------------
\* placement.py: clusters in registry order, eligible the ones with capacity.

Eligible(p) == {c \in DOMAIN p.load : p.load[c] < p.limit[c]}

RoundRobin(p) ==
    LET n == Len(p.load)
        first == CHOOSE i \in 0..n - 1 :
                   /\ 1 + ((p.start + i) % n) \in Eligible(p)
                   /\ \A j \in 0..i - 1 : 1 + ((p.start + j) % n) \notin Eligible(p)
    IN 1 + ((p.start + first) % n)

\* The first of the clusters with the best weight to load ratio.
CapacityWeighted(p) ==
    CHOOSE c \in Eligible(p) :
        /\ \A d \in Eligible(p) : p.weights[c] * (1 + p.load[d]) >= p.weights[d] * (1 + p.load[c])
        /\ \A d \in Eligible(p) : d < c =>
             p.weights[c] * (1 + p.load[d]) > p.weights[d] * (1 + p.load[c])

\* Claims decide, then replicas; the first of equals.
LeastLoaded(p) ==
    LET below(c, d) == p.claims[c] < p.claims[d]
                       \/ (p.claims[c] = p.claims[d] /\ p.load[c] < p.load[d])
    IN CHOOSE c \in Eligible(p) : \A d \in Eligible(p) :
          ~below(d, c) /\ (d < c => below(c, d))

---------------------------------------------------------------------------
Inputs ==
    CASE Question = "window" ->
           [counts : Lists(Positive), concurrent : 0..Largest, pool : Positive, perTask : BOOLEAN,
            avg : {1, 2}, usable : {0, 3, 8}]
      [] Question = "split" -> [total : 0..3 * Largest, weights : Lists(Positive)]
      [] Question = "waves" -> [replicas : Lists(Positive), budget : Positive]
      [] Question = "plan" ->
           {p \in [counts : Lists(Positive), cluster : Lists(1..2), weights : [1..2 -> Positive],
                   concurrent : 1..2 * Largest, pool : {2, Largest}, perTask : {FALSE}] :
              Len(p.cluster) = Len(p.counts)}
      [] Question = "benchmark" ->
           [images : 1..Largest + 2, tasks : 1..3, nodes : 1..3, avg : {1, 2}, pool : {2, 4},
            cpu : {4, 9, 40}, request : {1, 2}, pods : {3, 8, 40}, disk : {3, 8, 20}]
      [] Question = "place" ->
           {p \in [load : [1..3 -> 0..Largest], limit : [1..3 -> 0..1], claims : [1..3 -> 0..1],
                   weights : [1..3 -> 1..2], start : 0..3] : Eligible(p) # {}}

Compute(x) ==
    CASE Question = "window" ->
           [plain |-> RecommendWindow(x.counts, x.concurrent, x.pool, x.perTask),
            disk |-> RecommendWindowDisk(x.counts, x.concurrent, x.pool, x.perTask,
                                         x.avg, x.usable, 1, 1),
            pipelined |-> RecommendWindowPipelined(x.counts, x.concurrent, x.pool, x.perTask,
                                                   x.avg, x.usable, 1)]
      [] Question = "split" -> SplitBudget(x.total, x.weights)
      [] Question = "waves" -> Waves(x.replicas, x.budget)
      [] Question = "plan" -> PlanReplicas(x)
      [] Question = "benchmark" -> PlanBenchmark(x)
      [] Question = "place" -> [robin |-> RoundRobin(x), weighted |-> CapacityWeighted(x),
                                least |-> LeastLoaded(x)]

Init == input \in Inputs /\ result = "none" /\ done = FALSE
Next == ~done /\ result' = Compute(input) /\ done' = TRUE /\ UNCHANGED input
Spec == Init /\ [][Next]_vars

Computed(q) == done /\ Question = q

---------------------------------------------------------------------------
\* The largest n of S, the numbers of images whose prefix fits; 1 if none does.
Longest(S) == Max({1} \cup S)

\* The windows are the longest prefixes of the images whose replicas fit the concurrency
\* budget, and whose bytes fit the disk (sizing.py, recommend_window and
\* recommend_window_disk, "Largest window whose resident image bytes fit"); a pipelined
\* run keeps two of its windows within both, unless a window is a single image.
WindowsAreLargest ==
    Computed("window") =>
        LET reps == Replicas(input.counts, input.concurrent, input.pool, input.perTask)
            sum(n) == Total(Prefix(reps, n))
            two == Min({2 * result.pipelined, Len(reps)})
        IN /\ result.plain = Longest({n \in DOMAIN reps : sum(n) <= Max({1, input.concurrent})})
           /\ input.usable > 0 =>
                result.disk = Longest({n \in DOMAIN reps : sum(n) * input.avg <= input.usable})
           /\ result.pipelined > 1 =>
                /\ sum(two) <= Max({1, input.concurrent})
                /\ input.usable > 0 => 2 * sum(result.pipelined) * input.avg <= input.usable

\* The budgets of the clusters sum to exactly the whole and each is within one unit of its
\* exact share ("so the result sums to exactly total", fleet.py, _split_budget).
SplitIsExact ==
    Computed("split") =>
        LET tw == Total(input.weights)
        IN /\ Total(result) = input.total
           /\ \A i \in DOMAIN result :
                /\ result[i] * tw > input.total * input.weights[i] - tw
                /\ result[i] * tw < input.total * input.weights[i] + tw

\* The waves hold every pool once, in order; a wave is within the budget or a single pool,
\* and no pool could have joined the wave before it (fleet.py, start_warmpools).
WavesAreGreedy ==
    Computed("waves") =>
        /\ FlattenSeq(result) = input.replicas
        /\ \A w \in DOMAIN result : result[w] # <<>> /\ (Len(result[w]) > 1 => Total(result[w]) <= input.budget)
        /\ \A w \in 1..Len(result) - 1 : Total(result[w]) + result[w + 1][1] > input.budget

\* Every planned image has a replica, never more than its tasks or the cap, and the whole
\* footprint stays below max_concurrent plus one per image ("so the total warm footprint
\* stays ~max_concurrent rather than max_concurrent x n_clusters", fleet.py, _plan).
FootprintNearBudget ==
    Computed("plan") =>
        /\ \A i \in DOMAIN result : result[i] \in 1..Min({input.counts[i], input.pool})
        /\ Total(result) < input.concurrent + Len(result)

\* A benchmark plan never asks for more concurrency than CPU and pods allow, and warms no
\* more pods than that at a time unless its window is a single image (capacity.py,
\* plan_benchmark).
BenchmarkFitsCpu ==
    Computed("benchmark") =>
        /\ result.concurrent <= result.concCap
        /\ result.window > 1 => result.warm <= result.concCap

\* Every policy chooses a cluster with capacity, and a full cluster does not shift the
\* rotation: when the cluster whose turn it is has capacity, round robin takes it ("so
\* capacity changes don't scramble the rotation", placement.py, RoundRobin).
PlacementInTurn ==
    Computed("place") =>
        /\ {result.robin, result.weighted, result.least} \subseteq Eligible(input)
        /\ 1 + (input.start % Len(input.load)) \in Eligible(input)
             => result.robin = 1 + (input.start % Len(input.load))
=============================================================================
