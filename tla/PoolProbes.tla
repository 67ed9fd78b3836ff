--------------------------------- MODULE PoolProbes ---------------------------------
(***************************************************************************)
(* What an RL fleet asks a cluster before it runs: the wait for a warm      *)
(* pool, the discovery of the images that existing pools serve, the         *)
(* preflight checks, and the pulling of images ahead of a run. They share   *)
(* no state; each has its own initial predicate and next-state relation.    *)
(***************************************************************************)
EXTENDS Integers, Sequences, SequencesExt, FiniteSets

CONSTANTS
    MaxReplicas,
    MaxChanges,  \* of the pool, during the wait
    MaxFaults,   \* requests that fail
    Drops        \* TRUE: a request may fail without an HTTP status

CONSTANTS
    MaxExtras,    \* containers of extra_pod_spec
    PoolNames, TmplMaxReplicas

CONSTANTS
    NClusters,
    MaxBad,    \* answers other than yes
    CheckDrops,     \* TRUE: a request may fail without an HTTP status
    Keys, Values, Absent

CONSTANTS
    Batches,      \* number of DaemonSets the images are split into
    Parallel,     \* max_parallel
    PullWait,         \* wait=True: paced and judged
    Nodes,        \* nodes that match the selector
    Budget,       \* timeout
    ZeroGrace,    \* how long 0/0 is not believed
    DeleteWhenDone,
    DropCaches,   \* the page-cache DaemonSet runs last
    ControllerLag,  \* the DaemonSet controller sees an object within this time
    Leftovers,    \* selectors of DaemonSets that earlier runs may have left: "ours", "older"
    MaxAttempts,  \* creates tried while an old object is terminating
    MaxTime

VARIABLES
    pool,      \* [exists, ready]
    expected,
    pc, result, \* result: "none", "ready", "gone", "timeout", "raised"
    events,    \* delivered by the open watch, not yet read
    late,      \* the deadline has passed
    wasReady,  \* the pool has been ready since the wait began
    blind,     \* the open watch started on a pool that did not exist
    changes, faults

VARIABLES
    extra,     \* extra_pod_spec["containers"]
    foreign,   \* containers of a template of somebody else
    pools,     \* the warm pools as they are listed: [name, template, replicas]
    tmplPc, found

VARIABLES
    opts,      \* what the configuration asks for
    cluster, at,
    failures, warnings,   \* per cluster: names of checks
    truth,     \* per cluster: hard requirements the cluster was seen not to meet
    verdict, bad

VARIABLES
    ds,        \* name -> the DaemonSet
    now,
    next,      \* the first batch not started
    running,   \* <<name, created at>> of the batches started, oldest first
    tries,     \* creates that met the terminating object
    pullPc,        \* "start" | "recreate" | "wait" | "drop" | "dropwait" | "done" | "raised"
    ok,        \* what prepull will return
    failed     \* history: batches that missed the deadline

-----------------------------------------------------------------------------
(***************************************************************************)
(* Waiting for a warm pool (resources.py, wait_for_pool_ready; fleet.py,    *)
(* wait_pools_ready): a read, then watches that are opened again until the  *)
(* deadline, with a read whenever one breaks, and a last read.              *)
(*                                                                          *)
(* A watch is opened without a resourceVersion: it starts with the pool as  *)
(* it is, or with nothing, and then delivers what happens to it.            *)
(***************************************************************************)
waitVars == <<pool, expected, pc, result, events, late, wasReady, blind, changes, faults>>

Fault == faults < MaxFaults /\ faults' = faults + 1
Enough(p) == p.exists /\ p.ready >= expected

\* _one of wait_pools_ready: what the fleet asked of the pool, at most the caller's share.
Want(warmed, share) ==
    LET asked == IF warmed = 0 THEN 1 ELSE warmed
    IN  IF share = 0 THEN asked ELSE IF share < asked THEN share ELSE asked

WaitInit ==
    /\ pool \in [exists : {TRUE}, ready : 0..MaxReplicas] \cup {[exists |-> FALSE, ready |-> 0]}
    /\ \E warmed \in 0..MaxReplicas, share \in 0..MaxReplicas : expected = Want(warmed, share)
    /\ pc = "read" /\ result = "none"
    /\ events = <<>> /\ late = FALSE
    /\ wasReady = Enough(pool)
    /\ blind = FALSE
    /\ changes = 0 /\ faults = 0

-----------------------------------------------------------------------------
(* The pool and the clock.                                                   *)

Changes(to, type) ==
    /\ pc # "done" /\ changes < MaxChanges /\ changes' = changes + 1
    /\ pool' = to
    /\ wasReady' = (wasReady \/ Enough(to))
    /\ events' = IF pc = "watch" THEN Append(events, [type |-> type, ready |-> to.ready])
                                 ELSE events
    /\ UNCHANGED <<expected, pc, result, late, blind, faults>>

Status == \E n \in 0..MaxReplicas :
    pool.exists /\ n # pool.ready /\ Changes([pool EXCEPT !.ready = n], "MODIFIED")

\* A DELETED event carries the last status.
Deleted == pool.exists /\ Changes([pool EXCEPT !.exists = FALSE], "DELETED")
Recreated == ~pool.exists /\ Changes([exists |-> TRUE, ready |-> 0], "ADDED")

Deadline ==
    /\ ~late /\ pc # "done"
    /\ late' = TRUE
    /\ UNCHANGED <<pool, expected, pc, result, events, wasReady, blind, changes, faults>>

-----------------------------------------------------------------------------
Unchanged == UNCHANGED <<pool, expected, late, wasReady, changes>>
Returns(r) == pc' = "done" /\ result' = r /\ events' = <<>> /\ UNCHANGED blind
GoesTo(l) == pc' = l /\ UNCHANGED <<result, blind>>

\* The fast path; a status other than 404 is left to the watch.
Read ==
    /\ pc = "read" /\ Unchanged
    /\ \/ Enough(pool) /\ Returns("ready") /\ UNCHANGED faults
       \/ ~pool.exists /\ Returns("gone") /\ UNCHANGED faults
       \/ pool.exists /\ ~Enough(pool) /\ GoesTo("open") /\ UNCHANGED <<events, faults>>
       \/ Fault /\ GoesTo("open") /\ UNCHANGED events
       \/ Drops /\ Fault /\ Returns("raised")

Open ==
    /\ pc = "open" /\ ~late /\ Unchanged /\ UNCHANGED <<result, faults>>
    /\ pc' = "watch"
    /\ events' = IF pool.exists THEN <<[type |-> "ADDED", ready |-> pool.ready]>> ELSE <<>>
    /\ blind' = ~pool.exists

Event ==
    /\ pc = "watch" /\ events # <<>> /\ Unchanged /\ UNCHANGED faults
    /\ \/ /\ Head(events).type = "DELETED"
          /\ Returns("gone")
       \/ /\ Head(events).type # "DELETED" /\ Head(events).ready >= expected
          /\ Returns("ready")
       \/ /\ Head(events).type # "DELETED" /\ Head(events).ready < expected
          /\ events' = Tail(events) /\ GoesTo("watch")

Close ==
    /\ pc = "watch" /\ events = <<>> /\ Unchanged
    /\ \/ late /\ UNCHANGED faults
       \/ ~late /\ Fault
    /\ GoesTo("open") /\ UNCHANGED events

\* A terminal status (401, 403, 404) is raised, after any other failure the pool is read.
Breaks ==
    /\ pc \in {"open", "watch"} /\ ~late /\ Fault /\ Unchanged
    /\ \/ Returns("raised")
       \/ GoesTo("recheck") /\ events' = <<>>

RecheckGone == ~pool.exists /\ Returns("gone")

Recheck ==
    /\ pc = "recheck" /\ Unchanged
    /\ \/ Enough(pool) /\ Returns("ready") /\ UNCHANGED faults
       \/ RecheckGone /\ UNCHANGED faults
       \/ pool.exists /\ ~Enough(pool) /\ GoesTo("open") /\ UNCHANGED <<events, faults>>
       \/ Fault /\ GoesTo("open") /\ UNCHANGED events
       \/ Drops /\ Fault /\ Returns("raised")

LastRead ==
    /\ pc = "open" /\ late /\ Unchanged
    /\ \/ Enough(pool) /\ Returns("ready") /\ UNCHANGED faults
       \/ ~Enough(pool) /\ Returns("timeout") /\ UNCHANGED faults
       \/ Fault /\ Returns("timeout")
       \/ Drops /\ Fault /\ Returns("raised")

-----------------------------------------------------------------------------
Cluster == Status \/ Deleted \/ Recreated
Wait == Read \/ Open \/ Event \/ Close \/ Breaks \/ Recheck \/ LastRead
WaitNext == Cluster \/ Deadline \/ Wait

\* The clock runs, and the thread that waits is scheduled.
WaitSpec == WaitInit /\ [][WaitNext]_waitVars /\ WF_waitVars(Deadline) /\ WF_waitVars(Wait)

-----------------------------------------------------------------------------

\* A pool that has become ready and is not touched again is not given up at the deadline.
ReadyIsNotMissed ==
    (result' = "timeout" /\ result = "none" /\ faults' = faults) => ~Enough(pool)

\* After a watch broke, the wait does not go on for a pool that the read does not find.
BrokenWatchSeesGone ==
    (pc = "recheck" /\ ~pool.exists /\ faults' = faults /\ pc' # pc) => result' = "gone"

-----------------------------------------------------------------------------
(***************************************************************************)
(* Which image a warm pool serves (agent_sandbox_rl/resources.py): the      *)
(* containers _template_manifest writes, the container _template_runtimes   *)
(* reads back, and the pool discover_pools picks for an image.              *)
(*                                                                          *)
(* A container is [name, image]; Unnamed and NoImage stand for an absent    *)
(* key.  Pool names are numbers, ordered as their names are.                *)
(***************************************************************************)
Runtime == "agent-runtime"
Unnamed == "none"
Names == {Unnamed, Runtime, "side"}
TaskImage == "task"
Placeholder == "${TASK_IMAGE}"
NoImage == "none"
Images == {NoImage, Placeholder, "other"}
Extras == [name : Names, image : Images]

tmplVars == <<extra, foreign, pools, tmplPc, found>>

-----------------------------------------------------------------------------
(* _template_manifest.                                                       *)

\* _deep_merge of a container: what the override names replaces.
Override(c, x) == IF x.image = NoImage THEN c ELSE [c EXCEPT !.image = x.image]

IndexOf(cs, name) == SelectInSeq(cs, LAMBDA c : c.name = name)

Add(cs, x) ==
    LET i == IF x.name = Unnamed THEN 1 ELSE IndexOf(cs, x.name)
    IN  IF i = 0 THEN Append(cs, x) ELSE [cs EXCEPT ![i] = Override(@, x)]

Resolve(c) == IF c.image = Placeholder THEN [c EXCEPT !.image = TaskImage] ELSE c

Merged(xs) == FoldLeft(Add, <<[name |-> Runtime, image |-> TaskImage]>>, xs)

Manifest(xs) == LET cs == Merged(xs) IN [i \in DOMAIN cs |-> Resolve(cs[i])]

-----------------------------------------------------------------------------
(* _template_runtimes: the image of a template, or NoImage.                  *)

RuntimeOf(cs) ==
    LET i == IndexOf(cs, Runtime)
    IN  IF cs = <<>> THEN NoImage
        ELSE IF i # 0 THEN cs[i].image
        ELSE IF Len(cs) = 1 THEN cs[1].image
        ELSE NoImage

Templates == [own |-> Manifest(extra), foreign |-> foreign]

(* discover_pools: of two pools for an image the deeper one, then the name.  *)
NoPool == [name |-> 0, template |-> "none", replicas |-> 0]

Better(p, prev) ==
    \/ p.replicas > prev.replicas
    \/ p.replicas = prev.replicas /\ prev.name > p.name

Consider(image, prev, p) ==
    IF p.template \notin DOMAIN Templates \/ RuntimeOf(Templates[p.template]) # image
    THEN prev
    ELSE IF prev = NoPool \/ Better(p, prev) THEN p ELSE prev

Discover(image, listed) ==
    FoldLeft(LAMBDA prev, p : Consider(image, prev, p), NoPool, listed)

-----------------------------------------------------------------------------
\* Container names are unique in a pod.
ForeignTemplates ==
    {cs \in UNION {[1..n -> [name : {"side", "probe", Runtime}, image : {TaskImage, "other"}]] :
                     n \in 0..2} :
        \A i, j \in DOMAIN cs : cs[i].name = cs[j].name => i = j}

TmplInit ==
    /\ extra \in UNION {[1..n -> Extras] : n \in 0..MaxExtras}
    /\ foreign \in ForeignTemplates
    /\ pools = <<>>
    /\ tmplPc = "list" /\ found = NoPool

\* Pools are listed for the plain template; the escape hatches are checked without them.
List ==
    /\ tmplPc = "list" /\ extra = <<>>
    /\ \E n \in PoolNames, t \in {"own", "foreign", "missing"}, r \in 0..TmplMaxReplicas :
         /\ \A i \in DOMAIN pools : pools[i].name < n
         /\ pools' = Append(pools, [name |-> n, template |-> t, replicas |-> r])
    /\ UNCHANGED <<extra, foreign, tmplPc, found>>

Plan ==
    /\ tmplPc = "list"
    /\ tmplPc' = "done" /\ found' = Discover(TaskImage, pools)
    /\ UNCHANGED <<extra, foreign, pools>>

TmplNext == List \/ Plan
TmplSpec == TmplInit /\ [][TmplNext]_tmplVars

-----------------------------------------------------------------------------

\* A template this package writes is found again under its task image, whatever sidecars
\* the escape hatch adds, unless that gives the runtime container another image.
OwnTemplateFound ==
    (\A i \in DOMAIN extra : extra[i].name \in {Runtime, Unnamed} => extra[i].image # "other")
        => RuntimeOf(Manifest(extra)) = TaskImage

\* The pool that is picked does not depend on the order in which the pools are listed, so
\* planning again does not flip between two pools of one image.
OrderFree ==
    tmplPc = "done" => \A q \in {[i \in DOMAIN pools |-> pools[f[i]]] :
                                    f \in {g \in [DOMAIN pools -> DOMAIN pools] :
                                              \A i, j \in DOMAIN pools : g[i] = g[j] => i = j}} :
                            Discover(TaskImage, q) = found

-----------------------------------------------------------------------------
(***************************************************************************)
(* Preflight of a fleet's clusters (agent_sandbox_rl/preflight.py): the     *)
(* checks of preflight_cluster in order, each a request that answers, fails *)
(* with an HTTP status or fails without one, and the verdict on the fleet.  *)
(* PodSelectorCovers is the test whether a NetworkPolicy selects every pod  *)
(* of the fleet.                                                            *)
(***************************************************************************)
(* The checks in order, with what preflight_cluster does to their failures:   *)
(* warn: a failed check is only a warning; any: it takes every exception and   *)
(* not only an HTTP status; when: the option that asks for it.                 *)
Checks == <<
    [name |-> "reachable",   warn |-> FALSE, any |-> TRUE,  when |-> "always"],
    [name |-> "crds",        warn |-> FALSE, any |-> FALSE, when |-> "always"],
    [name |-> "controller",  warn |-> TRUE,  any |-> TRUE,  when |-> "always"],
    [name |-> "namespace",   warn |-> TRUE,  any |-> FALSE, when |-> "always"],
    [name |-> "runtime",     warn |-> FALSE, any |-> TRUE,  when |-> "runtime"],
    [name |-> "secret",      warn |-> FALSE, any |-> TRUE,  when |-> "secret"],
    [name |-> "manifests",   warn |-> TRUE,  any |-> TRUE,  when |-> "validate"],
    [name |-> "policy",      warn |-> TRUE,  any |-> TRUE,  when |-> "unmanaged"],
    [name |-> "snapcrds",    warn |-> FALSE, any |-> FALSE, when |-> "snapshots"],
    [name |-> "snapruntime", warn |-> FALSE, any |-> TRUE,  when |-> "snapshots"],
    [name |-> "snappolicy",  warn |-> TRUE,  any |-> TRUE,  when |-> "snapshots"] >>

Options == {"runtime", "secret", "validate", "unmanaged", "snapshots"}

checkVars == <<opts, cluster, at, failures, warnings, truth, verdict, bad>>

Clusters == 1..NClusters

CheckInit ==
    /\ opts \in SUBSET Options
    /\ cluster = 1 /\ at = 1
    /\ failures = [c \in Clusters |-> {}]
    /\ warnings = [c \in Clusters |-> {}]
    /\ truth = [c \in Clusters |-> {}]
    /\ verdict = "none"
    /\ bad = 0

Asked(k) == k.when = "always" \/ k.when \in opts
Bad == bad < MaxBad /\ bad' = bad + 1

-----------------------------------------------------------------------------
Severity(k, answer) ==
    IF k.warn /\ answer # "schema" THEN "warning" ELSE "failure"

\* The runtime class of snapshots is read from the configuration, not asked for: missing is
\* a failure, a class of another name a warning.
Answers(k) ==
    CASE k.name = "manifests" -> {"schema", "http", "drop"}
      [] k.name = "snapruntime" -> (IF "runtime" \in opts THEN {"other"} ELSE {"no"})
      [] OTHER -> {"no", "http", "drop"}

NextCheck(k, severity) ==
    IF k.name = "reachable" /\ severity = "failure" THEN Len(Checks) + 1 ELSE at + 1

Skips ==
    /\ verdict = "none" /\ at <= Len(Checks) /\ ~Asked(Checks[at])
    /\ at' = at + 1
    /\ UNCHANGED <<opts, cluster, failures, warnings, truth, verdict, bad>>

Passes ==
    /\ verdict = "none" /\ at <= Len(Checks) /\ Asked(Checks[at])
    /\ Checks[at].name = "snapruntime" => "runtime" \in opts
    /\ at' = at + 1
    /\ UNCHANGED <<opts, cluster, failures, warnings, truth, verdict, bad>>

Fails ==
    /\ verdict = "none" /\ at <= Len(Checks) /\ Asked(Checks[at])
    /\ \E a \in Answers(Checks[at]) :
         LET k == Checks[at]
             s == IF a = "other" THEN "warning" ELSE Severity(k, a)
         IN  /\ a = "drop" => CheckDrops /\ k.any
             /\ IF k.name = "snapruntime" THEN UNCHANGED bad ELSE Bad
             /\ failures' = [failures EXCEPT ![cluster] =
                               IF s = "failure" THEN @ \cup {k.name} ELSE @]
             /\ warnings' = [warnings EXCEPT ![cluster] =
                               IF s = "warning" THEN @ \cup {k.name} ELSE @]
             /\ truth' = [truth EXCEPT ![cluster] =
                            IF (a = "no" /\ ~k.warn) \/ a = "schema" THEN @ \cup {k.name} ELSE @]
             /\ at' = NextCheck(k, s)
    /\ UNCHANGED <<opts, cluster, verdict>>

\* A failure the check does not catch leaves preflight_cluster, and preflight.
Escapes ==
    /\ verdict = "none" /\ at <= Len(Checks) /\ Asked(Checks[at])
    /\ CheckDrops /\ ~Checks[at].any /\ Bad
    /\ verdict' = "escaped"
    /\ UNCHANGED <<opts, cluster, at, failures, warnings, truth>>

Raised(fs) == \E c \in Clusters : fs[c] # {}

Reported ==
    /\ verdict = "none" /\ at = Len(Checks) + 1
    /\ \/ /\ cluster < NClusters
          /\ cluster' = cluster + 1 /\ at' = 1 /\ UNCHANGED verdict
       \/ /\ cluster = NClusters
          /\ verdict' = IF Raised(failures) THEN "raised" ELSE "ok"
          /\ UNCHANGED <<cluster, at>>
    /\ UNCHANGED <<opts, failures, warnings, truth, bad>>

CheckNext == Skips \/ Passes \/ Fails \/ Escapes \/ Reported
CheckSpec == CheckInit /\ [][CheckNext]_checkVars

-----------------------------------------------------------------------------
(* pod_selector_covers.  Labels: functions from Keys to Values or Absent.    *)

Labels == [Keys -> Values \cup {Absent}]
\* The API server refuses In and NotIn without values.
Selectors == [labels : Labels, key : Keys, op : {"In", "NotIn", "Exists", "DoesNotExist"},
              values : SUBSET Values \ {{}}]

ExpressionCovers(sel, known) ==
    LET v == known[sel.key]
    IN  /\ v # Absent
        /\ sel.op = "In" => v \in sel.values
        /\ sel.op = "NotIn" => v \notin sel.values
        /\ sel.op # "DoesNotExist"

PodSelectorCovers(sel, known) ==
    /\ \A k \in Keys : sel.labels[k] # Absent => known[k] = sel.labels[k]
    /\ ExpressionCovers(sel, known)

\* What a selector means (Kubernetes).
Selects(sel, pod) ==
    /\ \A k \in Keys : sel.labels[k] # Absent => pod[k] = sel.labels[k]
    /\ CASE sel.op = "In" -> pod[sel.key] \in sel.values
         [] sel.op = "NotIn" -> pod[sel.key] \notin sel.values
         [] sel.op = "Exists" -> pod[sel.key] # Absent
         [] sel.op = "DoesNotExist" -> pod[sel.key] = Absent

PodsWith(known) == {pod \in Labels : \A k \in Keys : known[k] # Absent => pod[k] = known[k]}

-----------------------------------------------------------------------------

\* A fleet that passes preflight has no cluster that was seen to lack a hard requirement.
PassedMeansMet == verdict = "ok" => \A c \in Clusters : truth[c] = {}

\* pod_selector_covers is exact: it holds of a selector if and only if that selects every pod
\* with the known labels, whatever else the pod carries.
CoversIsExact ==
    (at = 1 /\ cluster = 1 /\ opts = {}) =>
        \A sel \in Selectors, known \in Labels :
            PodSelectorCovers(sel, known) <=> \A pod \in PodsWith(known) : Selects(sel, pod)

-----------------------------------------------------------------------------
(***************************************************************************)
(* Pre-pulling images onto the nodes of a cluster: the images are split    *)
(* into DaemonSets, at most max_parallel are waited for at once, each is   *)
(* judged by a status its controller writes later, and everything shares   *)
(* one budget.  DaemonSets of an earlier run may still be there.           *)
(*                                                                         *)
(* examples/agent-sandbox-rl/agent_sandbox_rl/prepull.py.                  *)
(***************************************************************************)
PullNames == 1..(Batches + 1)
PullLast == Batches + 1     \* the drop-caches DaemonSet

pullVars == <<ds, now, next, running, tries, pullPc, ok, failed>>

\* Of a DaemonSet, gen and seen are metadata.generation and status.observedGeneration; old and new count
\* the ready pods of earlier and of this generation; sel tells the selector.
PullAbsent == [gen |-> 0, seen |-> 0, desired |-> 0, old |-> 0, new |-> 0, sel |-> "none", at |-> -1]
Fresh == [PullAbsent EXCEPT !.gen = 1, !.sel = "ours", !.at = now]
Leftover(sel) == [PullAbsent EXCEPT !.gen = 1, !.seen = 1, !.desired = Nodes, !.old = Nodes, !.sel = sel]
Exists(b) == ds[b].gen > 0

PullInit ==
    /\ ds \in [PullNames -> {PullAbsent} \cup {Leftover(sel) : sel \in Leftovers}]
    /\ ds[PullLast] = PullAbsent
    /\ now = 0 /\ next = 1 /\ running = <<>> /\ tries = 0 /\ pullPc = "start" /\ ok = TRUE /\ failed = {}

---------------------------------------------------------------------------
\* The DaemonSet controller takes the object in, and pods become ready.
Observe(b) ==
    /\ Exists(b) /\ ds[b].seen < ds[b].gen
    /\ ds' = [ds EXCEPT ![b].seen = ds[b].gen, ![b].desired = Nodes]
    /\ UNCHANGED <<now, next, running, tries, pullPc, ok, failed>>

PodReady(b) ==
    /\ Exists(b) /\ ds[b].seen = ds[b].gen /\ ds[b].new < ds[b].desired
    /\ ds' = [ds EXCEPT ![b].new = @ + 1, ![b].old = IF @ > 0 THEN @ - 1 ELSE 0]
    /\ UNCHANGED <<now, next, running, tries, pullPc, ok, failed>>

Late(b) == Exists(b) /\ ds[b].seen < ds[b].gen /\ now >= ds[b].at + ControllerLag

Tick ==
    /\ now < MaxTime /\ pullPc \in {"wait", "dropwait"} /\ \A b \in PullNames : ~Late(b)
    /\ now' = now + 1
    /\ UNCHANGED <<ds, next, running, tries, pullPc, ok, failed>>

---------------------------------------------------------------------------
\* _apply: created, or replaced (the next generation).
Applied(b) ==
    IF Exists(b) THEN [ds EXCEPT ![b].gen = @ + 1, ![b].at = now]
    ELSE [ds EXCEPT ![b] = Fresh]

PullDeleted(b) == [ds EXCEPT ![b] = PullAbsent]

Slots == IF Parallel < 1 THEN 1 ELSE Parallel

\* The first batch always starts, further ones while there is room and budget.
MayStart ==
    /\ next <= Batches
    /\ PullWait => Len(running) < Slots /\ (next = 1 \/ now < Budget)

StartBatch ==
    /\ pullPc = "start" /\ MayStart
    /\ IF ds[next].sel = "older"     \* the selector cannot change: delete it first
       THEN /\ ds' = [ds EXCEPT ![next] = [PullAbsent EXCEPT !.sel = "dying"]]
            /\ pullPc' = "recreate" /\ tries' = 0 /\ UNCHANGED <<next, running>>
       ELSE /\ ds' = Applied(next) /\ running' = Append(running, <<next, now>>)
            /\ next' = next + 1 /\ UNCHANGED <<pullPc, tries>>
    /\ UNCHANGED <<now, ok, failed>>

\* The old object is gone.
Terminated(b) ==
    /\ ds[b].sel = "dying" /\ ds' = PullDeleted(b)
    /\ UNCHANGED <<now, next, running, tries, pullPc, ok, failed>>

\* Created again once the old object is gone.  Out of budget, the batches left are given
\* up; out of attempts, the conflict is raised out of prepull.
Recreate ==
    /\ pullPc = "recreate"
    /\ \/ /\ PullWait /\ now >= Budget
          /\ ok' = FALSE /\ next' = Batches + 1 /\ pullPc' = "start"
          /\ UNCHANGED <<ds, now, running, tries>>
       \/ /\ (PullWait => now < Budget) /\ ds[next].sel # "dying"
          /\ ds' = [ds EXCEPT ![next] = Fresh] /\ running' = Append(running, <<next, now>>)
          /\ next' = next + 1 /\ pullPc' = "start" /\ UNCHANGED <<now, tries, ok>>
       \/ /\ (PullWait => now < Budget) /\ ds[next].sel = "dying" /\ tries' = tries + 1
          /\ IF tries' = MaxAttempts \/ now = MaxTime THEN pullPc' = "raised" /\ UNCHANGED now
             ELSE (\A b \in PullNames : ~Late(b)) /\ now' = now + 1 /\ UNCHANGED pullPc
          /\ UNCHANGED <<ds, next, running, ok>>
    /\ UNCHANGED failed

\* Nothing more to start: the oldest is waited for.  With nothing running, the loop ends,
\* well if nothing is pending.
Turn ==
    /\ pullPc = "start" /\ ~MayStart
    /\ \/ PullWait /\ running # <<>> /\ pullPc' = "wait" /\ UNCHANGED <<running, ok>>
       \/ /\ PullWait /\ running = <<>> /\ ok' = (ok /\ next > Batches)
          /\ pullPc' = (IF DropCaches /\ ok' THEN "drop" ELSE "done") /\ UNCHANGED running
       \/ ~PullWait /\ running' = <<>> /\ pullPc' = "done" /\ UNCHANGED ok
    /\ UNCHANGED <<ds, now, next, tries, failed>>

\* A counter of zero is omitted from the status, and its reader then has no number.
Current(b) == ds[b].seen = 0 \/ ds[b].seen >= ds[b].gen
Rolled(b) == ds[b].new = 0 \/ ds[b].new >= ds[b].desired

\* What _wait_ready makes of a status.
StatusReady(b) ==
    /\ Current(b) /\ Rolled(b) /\ ds[b].desired > 0
    /\ ds[b].old + ds[b].new >= ds[b].desired

NothingToDo(b, until) == Current(b) /\ ds[b].desired = 0 /\ now >= until

Smaller(a, b) == IF a < b THEN a ELSE b

Done(b, good) ==
    /\ running' = Tail(running) /\ pullPc' = "start"
    /\ ok' = (ok /\ good) /\ failed' = IF good THEN failed ELSE failed \cup {b}
    /\ ds' = IF DeleteWhenDone /\ good THEN PullDeleted(b) ELSE ds
    /\ UNCHANGED <<now, next, tries>>

\* _wait_ready on the oldest batch, one poll after another until the budget is spent.
WaitOn ==
    /\ pullPc = "wait"
    /\ LET b == running[1][1]
           until == Smaller(Budget, running[1][2] + ZeroGrace)
       IN  \/ (StatusReady(b) \/ NothingToDo(b, until)) /\ Done(b, TRUE)
           \/ /\ ~StatusReady(b) /\ ~NothingToDo(b, until) /\ now >= Budget
              /\ Done(b, FALSE)

\* _drop_caches: refused at once, or waited for and deleted whatever comes of it.
Drop ==
    /\ pullPc = "drop"
    /\ \/ ds' = Applied(PullLast) /\ pullPc' = "dropwait" /\ running' = <<<<PullLast, now>>>> /\ UNCHANGED ok
       \/ ok' = FALSE /\ pullPc' = "done" /\ UNCHANGED <<ds, running>>
    /\ UNCHANGED <<now, next, tries, failed>>

DropWait ==
    /\ pullPc = "dropwait"
    /\ LET until == Smaller(Budget, running[1][2] + ZeroGrace)
           good == StatusReady(PullLast) \/ NothingToDo(PullLast, until)
       IN  (good \/ now >= Budget) /\ ok' = good
    /\ ds' = PullDeleted(PullLast) /\ running' = <<>> /\ pullPc' = "done"
    /\ UNCHANGED <<now, next, tries, failed>>

\* prepull_delete: every DaemonSet the package made goes, of any run; when they cannot be
\* listed they stay.
PrepullDelete ==
    /\ pullPc \in {"done", "raised"}
    /\ \/ ds' = [b \in PullNames |-> IF Exists(b) THEN PullAbsent ELSE ds[b]] /\ pullPc' = "deleted"
       \/ UNCHANGED ds /\ pullPc' = "unlisted"
    /\ UNCHANGED <<now, next, running, tries, ok, failed>>

Controller == \E b \in PullNames : Observe(b) \/ PodReady(b) \/ Terminated(b)
Loop == StartBatch \/ Recreate \/ Turn \/ WaitOn \/ Drop \/ DropWait
PullNext == Controller \/ Tick \/ Loop \/ PrepullDelete
PullSpec == PullInit /\ [][PullNext]_pullVars

---------------------------------------------------------------------------

\* The DaemonSets this call started and whose pods are still pulling are at most
\* max_parallel, which "bounds the concurrent pulls per node" (prepull).
PullsBounded ==
    PullWait => Cardinality({b \in 1..Batches : ds[b].at >= 0 /\ ds[b].new < Nodes}) <= Slots

\* True is returned only when every image was pulled on every matching node: each batch's
\* pods of this generation were ready when it was judged, never an earlier run's pods
\* ("Returns True once every DaemonSet is ready", prepull).
TrueMeansPulled ==
    pullPc = "wait" /\ pullPc' = "start" /\ ok' /\ Nodes > 0 => ds[running[1][1]].new = Nodes

PrepullReturned == pullPc \notin {"start", "recreate", "wait", "drop", "dropwait"}

=============================================================================
