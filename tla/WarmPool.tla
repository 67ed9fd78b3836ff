------------------------------ MODULE WarmPool ------------------------------
(***************************************************************************)
(* The SandboxWarmPool controller: one pool, the API server that owns the  *)
(* truth about its Sandboxes, the informer cache that lags behind it, the  *)
(* watch handlers that run after the cache, the expectations that bridge   *)
(* the gap, and the reconcile pass, which reads a list once and then       *)
(* issues API calls one at a time.  Claims (another controller) take       *)
(* members away with Adopt.                                                *)
(*                                                                         *)
(* extensions/controllers/sandboxwarmpool_controller.go and                *)
(* extensions/controllers/warmpool_expectations.go.                        *)
(***************************************************************************)
EXTENDS Integers, FiniteSets

CONSTANTS
    Sandboxes,      \* UIDs; each is used by at most one object
    Orphaned,       \* Sandboxes that carry the pool label and no controller at start
    Unlabelled,     \* members of an older controller, without launch-type label
    MaxReplicas,    \* bound on spec.replicas
    MaxTemplate,    \* bound on the number of template versions
    MaxBatchSize,   \* r.MaxBatchSize
    Recreate,       \* TRUE: update strategy Recreate, FALSE: OnReplenish
    Paced,          \* TRUE: ReplenishDelay or MaxRefillRate is set
    MaxDisturbances \* bound on faults and on moves of users, claims and clocks

ASSUME WarmPoolAssumption ==
    /\ IsFiniteSet(Sandboxes)
    /\ Orphaned \subseteq Sandboxes
    /\ Unlabelled \subseteq Sandboxes
    /\ Orphaned \cap Unlabelled = {}
    /\ MaxReplicas \in Nat
    /\ MaxTemplate \in Nat \ {0}
    /\ MaxBatchSize \in Nat \ {0}
    /\ Recreate \in BOOLEAN
    /\ Paced \in BOOLEAN
    /\ MaxDisturbances \in Nat

VARIABLES
    replicas,    \* spec.replicas of the pool
    template,    \* version of the SandboxTemplate, 0 when it is missing
    hash,        \* template version each Sandbox was built from
    api,         \* what the API server holds for each Sandbox
    cache,       \* what the informer cache holds for each Sandbox
    adds,        \* add events the cache applied and the handler did not run yet
    dels,        \* delete events, likewise, of objects controlled by the pool
    creations,   \* poolExpectation.pendingCreations
    deletions,   \* poolExpectation.pendingDeletions
    expired,     \* raisedAt is more than expectationsTimeout ago
    phase,       \* where the reconcile pass is
    view,        \* the list the pass works on
    tmpl,        \* the template version the pass fetched, 0 for an error
    desired,     \* spec.replicas the pass read
    todo,        \* list items the current loop has not visited
    active,      \* activeSandboxes
    terminating, \* members counted in terminatingReplicas
    skipped,     \* listed Sandboxes that an error path, or orphanhood, left uncounted
    inflight,    \* Sandboxes for which a DELETE is being issued
    left,        \* calls of slowStartBatch not attempted
    togo,        \* calls of its current batch not attempted
    size,        \* its batchSize
    lost,        \* calls of its current batch that failed
    errs,        \* allErrors # nil
    rearm,       \* requeueAfter > 0
    queued,      \* the pool's key is in the workqueue
    timer,       \* a RequeueAfter is pending
    status,      \* status.replicas as persisted
    budget       \* disturbances left

store == <<replicas, template, hash, api>>
informer == <<cache, adds, dels>>
expectations == <<creations, deletions, expired>>
snapshot == <<view, tmpl, desired>>
counts == <<active, terminating, skipped>>
batch == <<left, togo, size, lost>>
wakeups == <<queued, timer, status>>
vars == <<store, informer, expectations, phase, snapshot, todo, counts, inflight,
          batch, errs, rearm, wakeups, budget>>

-----------------------------------------------------------------------------
(* A version of a Sandbox object: its controller and its life cycle.  The  *)
(* controller only moves orphan -> pool -> claim (unlabelled: controlled   *)
(* by the pool, launch-type label missing), never once deletion began.     *)
Controllers == {"orphan", "unlabelled", "pool", "claim"}
Stages == {"absent", "live", "deleting", "gone"}
Version == [owner : Controllers, stage : Stages]
Phases == {"idle", "filter", "grace", "create", "excess", "status"}

OwnerRank(o) == CASE o = "orphan" -> 0 [] o = "unlabelled" -> 1
                  [] o = "pool" -> 2 [] o = "claim" -> 3
StageRank(g) == CASE g = "absent" -> 0 [] g = "live" -> 1
                  [] g = "deleting" -> 2 [] g = "gone" -> 3

\* metav1.IsControlledBy / controllerRef.UID == warmPool.UID
ByPool(v) == v.owner \in {"unlabelled", "pool"}
Present(v) == v.stage \in {"live", "deleting"}

\* The version a watch delivers next, on the way from c to a: owners change while
\* the object is live, and an object without finalizers goes at once.
NextVersions(c, a) ==
    {v \in Version :
        \/ /\ c.stage = "absent" /\ a.stage # "absent"
           /\ v = [owner |-> "pool", stage |-> "live"]
        \/ /\ c.stage = "live" /\ v.stage = "live"
           /\ v.owner \in {"pool", "claim"}
           /\ OwnerRank(c.owner) < OwnerRank(v.owner)
           /\ OwnerRank(v.owner) <= OwnerRank(a.owner)
        \/ /\ c.stage # "absent" /\ c.owner = a.owner /\ v.owner = a.owner
           /\ StageRank(c.stage) < StageRank(v.stage)
           /\ StageRank(v.stage) <= StageRank(a.stage)}

Members == {s \in Sandboxes : ByPool(api[s]) /\ Present(api[s])}

\* Objects created whose add event the handler has not processed.
Unseen == {s \in Sandboxes : /\ api[s].stage # "absent"
                             /\ cache[s].stage = "absent" \/ s \in adds}

-----------------------------------------------------------------------------
(* warmPoolExpectations.  A record exists iff it expects something: every  *)
(* operation that empties one removes it.                                  *)
SetRecord(c, d, e) ==
    /\ creations' = c
    /\ deletions' = d
    /\ expired' = (e /\ ~(c = 0 /\ d = {}))

SatisfiedExpectations == (creations = 0 /\ deletions = {}) \/ expired

\* Faulty: records without looking at what is still outstanding.
TryExpectCreationsUngated(n) == n > 0 /\ SetRecord(n, {}, FALSE)

TryExpectCreations(n) == n > 0 /\ SatisfiedExpectations /\ SetRecord(n, {}, FALSE)

\* Faulty: the first observed add settles the whole batch.
LowerCreationsToZero(n) == n > 0 /\ SetRecord(0, deletions, expired)

LowerCreations(n) ==
    SetRecord(IF n < creations THEN creations - n ELSE 0, deletions, expired)

ExpectDeletion(s) == SetRecord(creations, deletions \cup {s}, FALSE)

\* Faulty: neither a delete event nor a failed delete clears the expectation.
DeletionObservedIgnored(s) == s \in Sandboxes /\ UNCHANGED expectations

DeletionObserved(s) == SetRecord(creations, deletions \ {s}, expired)

IsPendingDeletion(s) == s \in deletions /\ ~expired

-----------------------------------------------------------------------------
\* The locals of a pass, out of scope.
EndPass ==
    /\ phase' = "idle"
    /\ view' = [s \in Sandboxes |-> [owner |-> "pool", stage |-> "absent"]]
    /\ tmpl' = 0 /\ desired' = 0
    /\ todo' = {} /\ active' = {} /\ terminating' = {} /\ skipped' = {}
    /\ left' = 0 /\ togo' = 0 /\ size' = 0 /\ lost' = 0
    /\ errs' = FALSE /\ rearm' = FALSE

-----------------------------------------------------------------------------
(* The world around the controller.                                        *)
Disturb == budget > 0 /\ budget' = budget - 1

Scale(n) ==
    /\ n # replicas
    /\ Disturb
    /\ replicas' = n
    /\ queued' = TRUE
    /\ UNCHANGED <<template, hash, api, informer, expectations, phase, snapshot,
                   todo, counts, inflight, batch, errs, rearm, timer, status>>

\* A user edits, deletes or restores the SandboxTemplate;
\* findWarmPoolsForTemplate enqueues the pool.
UpdateTemplate(t) ==
    /\ t # template
    /\ Disturb
    /\ template' = t
    /\ queued' = TRUE
    /\ UNCHANGED <<replicas, hash, api, informer, expectations, phase, snapshot,
                   todo, counts, inflight, batch, errs, rearm, timer, status>>

\* A claim takes a member it found through the same cache; completeAdoption
\* patches the owner under an optimistic lock and retries on a fresh read.
Adopt(s) ==
    /\ ByPool(cache[s]) /\ cache[s].stage = "live"
    /\ ByPool(api[s]) /\ api[s].stage = "live"
    /\ Disturb
    /\ api' = [api EXCEPT ![s].owner = "claim"]
    /\ UNCHANGED <<replicas, template, hash, informer, expectations, phase,
                   snapshot, todo, counts, inflight, batch, errs, rearm, wakeups>>

\* Somebody else deletes a Sandbox.
ExternalDelete(s) ==
    /\ api[s].stage = "live"
    /\ Disturb
    /\ api' = [api EXCEPT ![s].stage = "deleting"]
    /\ UNCHANGED <<replicas, template, hash, informer, expectations, phase,
                   snapshot, todo, counts, inflight, batch, errs, rearm, wakeups>>

\* The API server drops an object whose deletion was requested.
Finalize(s) ==
    /\ api[s].stage = "deleting"
    /\ api' = [api EXCEPT ![s].stage = "gone"]
    /\ UNCHANGED <<replicas, template, hash, informer, expectations, phase,
                   snapshot, todo, counts, inflight, batch, errs, rearm, wakeups,
                   budget>>

\* The Sandbox controller writes the status of a member: the pool is enqueued.
MemberUpdated(s) ==
    /\ Present(cache[s]) /\ ByPool(cache[s])
    /\ ~queued
    /\ queued' = TRUE
    /\ UNCHANGED <<store, informer, expectations, phase, snapshot, todo, counts,
                   inflight, batch, errs, rearm, timer, status, budget>>

\* expectationsTimeout runs out.  It is far longer than a pass and than the
\* delay of a watch, so what the record waits for was delivered or never will.
Expire ==
    /\ ~(creations = 0 /\ deletions = {})
    /\ ~expired
    /\ phase = "idle"
    /\ Unseen = {}
    /\ \A s \in deletions : cache[s] = api[s] /\ s \notin dels
    /\ expired' = TRUE
    /\ UNCHANGED <<store, informer, creations, deletions, phase, snapshot, todo,
                   counts, inflight, batch, errs, rearm, wakeups, budget>>

TimerFires ==
    /\ timer
    /\ timer' = FALSE
    /\ queued' = TRUE
    /\ UNCHANGED <<store, informer, expectations, phase, snapshot, todo, counts,
                   inflight, batch, errs, rearm, status, budget>>

\* The process dies and a new one starts: memory is lost, the cache is filled
\* from a fresh list before the first pass, and every pool is enqueued.
Restart ==
    /\ Disturb
    /\ cache' = api
    /\ adds' = {}
    /\ dels' = {}
    /\ SetRecord(0, {}, FALSE)
    /\ inflight' = {}
    /\ EndPass
    /\ queued' = TRUE
    /\ timer' = FALSE
    /\ UNCHANGED <<store, status>>

-----------------------------------------------------------------------------
(* The informer and the watch handlers.                                    *)

\* The informer applies a version.  Adds and deletes are handed to
\* warmPoolSandboxEventHandler, which looks at the owner; updates only enqueue it.
Apply(s, v) ==
    /\ cache' = [cache EXCEPT ![s] = v]
    /\ adds' = IF cache[s].stage = "absent" /\ Present(v) /\ ByPool(v)
                 THEN adds \cup {s} ELSE adds
    /\ dels' = IF Present(cache[s]) /\ v.stage = "gone" /\ ByPool(cache[s])
                 THEN dels \cup {s} ELSE dels
    /\ queued' = (queued \/ (/\ Present(cache[s]) /\ Present(v)
                             /\ ByPool(cache[s]) \/ ByPool(v)))
    /\ UNCHANGED <<store, expectations, phase, snapshot, todo, counts, inflight,
                   batch, errs, rearm, timer, status>>

WatchEvent(s) ==
    /\ \E v \in NextVersions(cache[s], api[s]) : Apply(s, v)
    /\ budget' = budget

\* The watch broke: a list brings the current version, what lies between is
\* never delivered.
Relist(s) ==
    /\ cache[s] # api[s]
    /\ Disturb
    /\ Apply(s, api[s])

HandleCreate(s) ==
    /\ s \in adds
    /\ adds' = adds \ {s}
    /\ LowerCreations(1)
    /\ queued' = TRUE
    /\ UNCHANGED <<store, cache, dels, phase, snapshot, todo, counts, inflight,
                   batch, errs, rearm, timer, status, budget>>

HandleDelete(s) ==
    /\ s \in dels \ adds
    /\ dels' = dels \ {s}
    /\ DeletionObserved(s)
    /\ queued' = TRUE
    /\ UNCHANGED <<store, cache, adds, phase, snapshot, todo, counts, inflight,
                   batch, errs, rearm, timer, status, budget>>

-----------------------------------------------------------------------------
(* One reconcile pass.  Reads come from the cache at StartPass; every call  *)
(* to the API server is a step of its own.                                  *)

Listed == {s \in Sandboxes : Present(cache[s]) /\ cache[s].owner # "claim"}

StartPass ==
    /\ phase = "idle" /\ queued
    /\ queued' = FALSE
    /\ phase' = "filter"
    /\ view' = cache
    /\ tmpl' = template
    /\ desired' = replicas
    /\ todo' = Listed
    /\ active' = {} /\ terminating' = {} /\ skipped' = {}
    /\ errs' = FALSE /\ rearm' = FALSE
    /\ UNCHANGED <<store, informer, expectations, inflight, batch, timer, status,
                   budget>>

Terminating(s) ==
    view[s].stage = "deleting" \/ (ByPool(view[s]) /\ IsPendingDeletion(s))

isSandboxStale(s) ==
    /\ tmpl # 0
    /\ Recreate \/ view[s].owner = "orphan"
    /\ hash[s] # tmpl

Filtering(s) == phase = "filter" /\ inflight = {} /\ s \in todo

FilterTerminating(s) ==
    /\ Filtering(s)
    /\ Terminating(s)
    /\ todo' = todo \ {s}
    /\ terminating' = IF ByPool(view[s]) THEN terminating \cup {s} ELSE terminating
    /\ UNCHANGED <<store, informer, expectations, phase, snapshot, active, skipped,
                   inflight, batch, errs, rearm, wakeups, budget>>

FilterStale(s) ==
    /\ Filtering(s)
    /\ ~Terminating(s)
    /\ isSandboxStale(s)
    /\ todo' = todo \ {s}
    /\ inflight' = {s}
    /\ IF ByPool(view[s]) THEN ExpectDeletion(s) ELSE UNCHANGED expectations
    /\ UNCHANGED <<store, informer, phase, snapshot, counts, batch, errs, rearm,
                   wakeups, budget>>

\* Faulty: the write carries no resourceVersion.
UpdateUnlocked(s) == s \in Sandboxes

\* A fresh member needs no call; an orphan or an unlabelled one is written with
\* the resourceVersion of the list, so the Update lands only on that version.
UpdateAccepted(s) == view[s].owner # "pool" => api[s] = view[s]

FilterActive(s) ==
    /\ Filtering(s)
    /\ ~Terminating(s)
    /\ ~isSandboxStale(s)
    /\ UpdateAccepted(s)
    /\ todo' = todo \ {s}
    /\ active' = active \cup {s}
    /\ api' = IF view[s].owner = "pool" THEN api ELSE [api EXCEPT ![s].owner = "pool"]
    /\ UNCHANGED <<replicas, template, hash, informer, expectations, phase,
                   snapshot, terminating, skipped, inflight, batch, errs, rearm,
                   wakeups, budget>>

\* The Update conflicts, or fails for another reason: the member is dropped
\* from this pass.
FilterWriteFails(s) ==
    /\ Filtering(s)
    /\ ~Terminating(s)
    /\ ~isSandboxStale(s)
    /\ view[s].owner # "pool"
    /\ IF api[s] # view[s] THEN budget' = budget ELSE Disturb
    /\ todo' = todo \ {s}
    /\ skipped' = skipped \cup {s}
    /\ errs' = TRUE
    /\ UNCHANGED <<store, informer, expectations, phase, snapshot, active,
                   terminating, inflight, batch, rearm, wakeups>>

\* The loop over activeSandboxes.  Readiness is data: any set T of members may
\* have run out of its grace period and is deleted as stuck; if one of the
\* others is in grace or held (unschedulable, gated), the pass asks to be rerun.
EndFilter ==
    /\ phase = "filter" /\ todo = {} /\ inflight = {}
    /\ \E T \in SUBSET active :
          /\ IF T = {} THEN budget' = budget ELSE Disturb
          /\ todo' = T
          /\ rearm' \in {FALSE, active # T}
    /\ phase' = "grace"
    /\ UNCHANGED <<store, informer, expectations, snapshot, counts, inflight, batch,
                   errs, wakeups>>

DeleteStuck(s) ==
    /\ phase = "grace" /\ inflight = {} /\ s \in todo
    /\ todo' = todo \ {s}
    /\ inflight' = {s}
    /\ ExpectDeletion(s)
    /\ UNCHANGED <<store, informer, phase, snapshot, counts, batch, errs, rearm,
                   wakeups, budget>>

\* The calls in flight that raised an expectation: the filter loop raises none
\* for an orphan.
Expecting == {s \in inflight : phase = "filter" => ByPool(view[s])}

\* The answer to a DELETE.  The filter and grace loops count the member as
\* terminating (filter: only one it lists as its own); the excess loop has no
\* use for the count any more.
DeleteOK(s) ==
    /\ s \in inflight
    /\ Present(api[s])
    /\ api' = [api EXCEPT ![s].stage = "deleting"]
    /\ inflight' = inflight \ {s}
    /\ terminating' = IF phase = "grace" \/ (phase = "filter" /\ ByPool(view[s]))
                        THEN terminating \cup {s} ELSE terminating
    /\ skipped' = IF phase = "filter" /\ ~ByPool(view[s])
                    THEN skipped \cup {s} ELSE skipped
    /\ active' = IF phase = "grace" THEN active \ {s} ELSE active
    /\ UNCHANGED <<replicas, template, hash, informer, expectations, phase,
                   snapshot, todo, batch, errs, rearm, wakeups, budget>>

\* NotFound is an error in the filter and grace loops, not in the excess loop.
DeleteFails(s) ==
    /\ s \in inflight
    /\ IF Present(api[s]) THEN Disturb ELSE budget' = budget
    /\ inflight' = inflight \ {s}
    /\ IF s \in Expecting THEN DeletionObserved(s) ELSE UNCHANGED expectations
    /\ skipped' = IF phase = "filter" THEN skipped \cup {s} ELSE skipped
    /\ errs' = (errs \/ phase # "excess")
    /\ lost' = IF phase = "excess" /\ Present(api[s]) THEN lost + 1 ELSE lost
    /\ UNCHANGED <<store, informer, phase, snapshot, todo, active, terminating,
                   left, togo, size, rearm, wakeups>>

-----------------------------------------------------------------------------
currentReplicas == Cardinality(active)
totalReplicas == Cardinality(active) + Cardinality(terminating)
MinOf(a, b) == IF a <= b THEN a ELSE b
Deficit == MinOf(desired - totalReplicas, MaxBatchSize)
Counted == phase = "grace" /\ todo = {} /\ inflight = {}
Refill == totalReplicas < desired /\ tmpl # 0

\* slowStartBatch: n calls, the first batch is a single one.
StartBatch(n) == left' = n /\ togo' = MinOf(n, 1) /\ size' = 1 /\ lost' = 0

\* Creation passes the gate; takeRefillTokens may have cut the batch.
BeginCreates(n) ==
    /\ Counted
    /\ Refill
    /\ n <= Deficit /\ (~Paced => n = Deficit)
    /\ TryExpectCreations(n)
    /\ StartBatch(n)
    /\ phase' = "create"
    /\ UNCHANGED <<store, informer, snapshot, todo, counts, inflight, errs, rearm,
                   wakeups, budget>>

\* Creation is put off: the gate refuses, the bucket is empty, or the replenish
\* hold runs (which looks at the active members only).
DeferCreates ==
    /\ Counted
    /\ \/ Refill /\ (~SatisfiedExpectations \/ Paced)
       \/ Paced /\ currentReplicas < desired /\ tmpl # 0
    /\ rearm' = TRUE
    /\ phase' = "status"
    /\ UNCHANGED <<store, informer, expectations, snapshot, todo, counts, inflight,
                   batch, errs, wakeups, budget>>

\* Nothing to create or to delete; a missing template is looked for again.
NoChange ==
    /\ Counted
    /\ ~Refill
    /\ currentReplicas <= desired
    /\ rearm' = (rearm \/ totalReplicas < desired)
    /\ phase' = "status"
    /\ UNCHANGED <<store, informer, expectations, snapshot, todo, counts, inflight,
                   batch, errs, wakeups, budget>>

CreateOK(s) ==
    /\ phase = "create" /\ togo > 0
    /\ api[s].stage = "absent"
    /\ api' = [api EXCEPT ![s] = [owner |-> "pool", stage |-> "live"]]
    /\ hash' = [hash EXCEPT ![s] = tmpl]
    /\ left' = left - 1
    /\ togo' = togo - 1
    /\ UNCHANGED <<replicas, template, informer, expectations, phase, snapshot,
                   todo, counts, inflight, size, lost, errs, rearm, wakeups,
                   budget>>

\* The API server refuses the Create (always, once the bound on objects is hit).
CreateFails ==
    /\ phase = "create" /\ togo > 0
    /\ IF \E s \in Sandboxes : api[s].stage = "absent" THEN Disturb ELSE budget' = budget
    /\ left' = left - 1
    /\ togo' = togo - 1
    /\ lost' = lost + 1
    /\ UNCHANGED <<store, informer, expectations, phase, snapshot, todo, counts,
                   inflight, size, errs, rearm, wakeups>>

\* min(2*batchSize, remaining); faulty: without the minimum.
DoubleBatchUncapped == 2 * size
DoubleBatch == MinOf(2 * size, left)

\* A batch without a failure is followed by one of twice its size.
NextBatch ==
    /\ phase \in {"create", "excess"}
    /\ togo = 0 /\ inflight = {}
    /\ lost = 0 /\ left > 0
    /\ size' = DoubleBatch
    /\ togo' = size'
    /\ UNCHANGED <<store, informer, expectations, phase, snapshot, todo, counts,
                   inflight, left, lost, errs, rearm, wakeups, budget>>

\* Calls that failed or were never made will not be observed.
EndCreates ==
    /\ phase = "create" /\ togo = 0
    /\ lost > 0 \/ left = 0
    /\ IF lost + left > 0 THEN LowerCreations(lost + left) ELSE UNCHANGED expectations
    /\ left' = 0 /\ lost' = 0
    /\ errs' = (errs \/ lost > 0)
    /\ phase' = "status"
    /\ UNCHANGED <<store, informer, snapshot, todo, counts, inflight, togo, size,
                   rearm, wakeups, budget>>

\* SatisfiedExpectations drops an expired record.  The victims are the first in
\* an order by readiness and age, which is data: any set of the right size.
BeginExcess ==
    /\ Counted
    /\ currentReplicas > desired
    /\ SatisfiedExpectations
    /\ SetRecord(0, {}, FALSE)
    /\ \E V \in SUBSET active :
          /\ Cardinality(V) = MinOf(currentReplicas - desired, MaxBatchSize)
          /\ todo' = V
          /\ StartBatch(Cardinality(V))
    /\ phase' = "excess"
    /\ UNCHANGED <<store, informer, snapshot, counts, inflight, errs, rearm,
                   wakeups, budget>>

DeferExcess ==
    /\ Counted
    /\ currentReplicas > desired
    /\ ~SatisfiedExpectations
    /\ rearm' = TRUE
    /\ phase' = "status"
    /\ UNCHANGED <<store, informer, expectations, snapshot, todo, counts, inflight,
                   batch, errs, wakeups, budget>>

DeleteExcess(s) ==
    /\ phase = "excess" /\ togo > 0
    /\ s \in todo
    /\ todo' = todo \ {s}
    /\ inflight' = inflight \cup {s}
    /\ left' = left - 1
    /\ togo' = togo - 1
    /\ ExpectDeletion(s)
    /\ UNCHANGED <<store, informer, phase, snapshot, counts, size, lost, errs,
                   rearm, wakeups, budget>>

EndExcess ==
    /\ phase = "excess" /\ togo = 0 /\ inflight = {}
    /\ lost > 0 \/ left = 0
    /\ todo' = {}
    /\ left' = 0 /\ lost' = 0
    /\ errs' = (errs \/ lost > 0)
    /\ phase' = "status"
    /\ UNCHANGED <<store, informer, expectations, snapshot, counts, inflight, togo,
                   size, rearm, wakeups, budget>>

\* An error requeues the key, a changed status comes back as an event of the
\* pool; faulty: the error is logged and dropped.
WakeOnChangeOnly == queued \/ status # currentReplicas
Wake == queued \/ errs \/ status # currentReplicas

\* updateStatus, and what Reconcile returns: RequeueAfter holds without errors.
UpdateStatus ==
    /\ phase = "status"
    /\ status' = currentReplicas
    /\ queued' = Wake
    /\ timer' = (timer \/ (rearm /\ ~errs))
    /\ EndPass
    /\ UNCHANGED <<store, informer, expectations, inflight, budget>>

StatusFails ==
    /\ phase = "status"
    /\ status # currentReplicas
    /\ Disturb
    /\ EndPass
    /\ queued' = TRUE
    /\ UNCHANGED <<store, informer, expectations, inflight, timer, status>>

-----------------------------------------------------------------------------
InitVersion(s) ==
    CASE s \in Orphaned -> [owner |-> "orphan", stage |-> "live"]
      [] s \in Unlabelled -> [owner |-> "unlabelled", stage |-> "live"]
      [] OTHER -> [owner |-> "pool", stage |-> "absent"]

\* The process has just started: synced cache, empty memory, pool enqueued.
Init ==
    /\ replicas \in 0..MaxReplicas
    /\ template = 1
    /\ hash = [s \in Sandboxes |-> 1]
    /\ api = [s \in Sandboxes |-> InitVersion(s)]
    /\ cache = api
    /\ adds = {} /\ dels = {}
    /\ creations = 0 /\ deletions = {} /\ expired = FALSE
    /\ phase = "idle"
    /\ view = [s \in Sandboxes |-> [owner |-> "pool", stage |-> "absent"]]
    /\ tmpl = 0 /\ desired = 0
    /\ todo = {} /\ active = {} /\ terminating = {} /\ skipped = {}
    /\ inflight = {}
    /\ left = 0 /\ togo = 0 /\ size = 0 /\ lost = 0
    /\ errs = FALSE /\ rearm = FALSE
    /\ queued = TRUE /\ timer = FALSE
    /\ status = 0
    /\ budget = MaxDisturbances

World ==
    \/ \E n \in 0..MaxReplicas : Scale(n)
    \/ \E t \in 0..MaxTemplate : UpdateTemplate(t)
    \/ \E s \in Sandboxes :
          Adopt(s) \/ ExternalDelete(s) \/ Finalize(s) \/ MemberUpdated(s)
    \/ Expire \/ TimerFires \/ Restart

Watch ==
    \E s \in Sandboxes :
        WatchEvent(s) \/ Relist(s) \/ HandleCreate(s) \/ HandleDelete(s)

Pass ==
    \/ StartPass \/ EndFilter
    \/ \E s \in Sandboxes :
          \/ FilterTerminating(s) \/ FilterStale(s) \/ FilterActive(s)
          \/ FilterWriteFails(s) \/ DeleteStuck(s) \/ DeleteExcess(s)
          \/ DeleteOK(s) \/ DeleteFails(s) \/ CreateOK(s)
    \/ \E n \in 1..MaxReplicas : BeginCreates(n)
    \/ DeferCreates \/ NoChange \/ CreateFails \/ NextBatch \/ EndCreates
    \/ BeginExcess \/ DeferExcess \/ EndExcess
    \/ UpdateStatus \/ StatusFails

Next == World \/ Watch \/ Pass

Spec == Init /\ [][Next]_vars

\* Workers, informer, handlers, clocks and the API server keep running.
Fairness ==
    /\ WF_vars(Pass)
    /\ \A s \in Sandboxes : /\ WF_vars(WatchEvent(s))
                            /\ WF_vars(HandleCreate(s))
                            /\ WF_vars(HandleDelete(s))
                            /\ WF_vars(Finalize(s))
    /\ SF_vars(Expire)
    /\ WF_vars(TimerFires)

FairSpec == Spec /\ Fairness

-----------------------------------------------------------------------------
\* Every variable stays in its domain; the counters of slowStartBatch and of
\* the expectations record never go negative.
TypeOK ==
    /\ replicas \in 0..MaxReplicas
    /\ template \in 0..MaxTemplate
    /\ hash \in [Sandboxes -> 0..MaxTemplate]
    /\ api \in [Sandboxes -> Version]
    /\ cache \in [Sandboxes -> Version]
    /\ adds \subseteq Sandboxes
    /\ dels \subseteq Sandboxes
    /\ creations \in Nat
    /\ deletions \subseteq Sandboxes
    /\ expired \in BOOLEAN
    /\ phase \in Phases
    /\ view \in [Sandboxes -> Version]
    /\ tmpl \in 0..MaxTemplate
    /\ desired \in 0..MaxReplicas
    /\ todo \subseteq Sandboxes
    /\ active \subseteq Sandboxes
    /\ terminating \subseteq Sandboxes
    /\ skipped \subseteq Sandboxes
    /\ inflight \subseteq Sandboxes
    /\ left \in Nat
    /\ togo \in Nat
    /\ size \in Nat
    /\ lost \in Nat
    /\ errs \in BOOLEAN
    /\ rearm \in BOOLEAN
    /\ queued \in BOOLEAN
    /\ timer \in BOOLEAN
    /\ status \in Nat
    /\ budget \in Nat

\* Every create that the handler has not observed yet, and every create a
\* running slowStartBatch may still issue or must still lower, is covered by
\* pendingCreations (TryExpectCreations, CreationObserved, LowerCreations).
ExpectationsCoverWrites ==
    Cardinality(Unseen) + (IF phase = "create" THEN left + lost ELSE 0) <= creations

\* No runaway (#1215): while a pass creates, the members the list did not leave
\* uncounted, plus the creates to come, exceed the target by at most the one
\* batch whose adds arrived between the List and TryExpectCreations.
OvershootAtMostOneBatch ==
    phase = "create" => Cardinality(Members \ skipped) + left <= desired + MaxBatchSize

\* IsPendingDeletion never hides a healthy member: once the call returned, a
\* UID in pendingDeletions belongs to an object whose deletion really began
\* (failed deletes are rolled back by DeletionObserved).
PendingDeletionsReal ==
    \A s \in deletions \ Expecting : api[s].stage \in {"deleting", "gone"}

\* No deletion expectation waits for an event that cannot come (ExpectDeletion
\* before Delete, synthetic DeletionObserved on NotFound): the delete event is
\* with the handler or still ahead.  The exceptions are known: a claim took the
\* object, or it was an orphan when it was last cached.
DeletionsAwaited ==
    \A s \in deletions \ Expecting :
        s \in dels \/ Present(cache[s]) \/ s \in Orphaned \/ api[s].owner = "claim"

\* The pool never takes a Sandbox back from a claim: adoptSandbox and the label
\* update of filterActiveSandboxes write over the listed version only.
ClaimsKept ==
    [][\A s \in Sandboxes : api[s].owner = "claim" => api'[s].owner = "claim"]_vars

Live == {s \in Members : api[s].stage = "live"}

\* Once disturbances stop, the pool settles at spec.replicas live members and
\* reports them, under Recreate all of the current template: no lost wake-up
\* and no wedged expectation keeps Reconcile from getting there.
Converges ==
    <>[](template # 0 /\ (\E s \in Sandboxes : api[s].stage = "absent")
            => /\ Cardinality(Live) = replicas
               /\ status = replicas
               /\ Recreate => \A s \in Live : hash[s] = template)

-----------------------------------------------------------------------------
(* What comments of the code say and the code does not keep.               *)

\* "Hard invariant: never create while the existing population (active,
\* including non-Ready, plus terminating-still-present) already covers
\* spec.replicas."
HardInvariant ==
    phase = "create" /\ left > 0 => Cardinality(Members) < desired

\* Excess deletes are skipped while expectations are unsatisfied because "a
\* stale list could otherwise show a phantom surplus and delete healthy
\* sandboxes": with nobody else deleting, the target stays covered.
NoPhantomSurplus ==
    phase = "excess" => Cardinality(Live) >= desired

\* "Creates are gated on this so the population can never balloon past
\* spec.replicas while deletes lag": members in the pass's own list count.
ListedMembersCount ==
    phase = "create" =>
        Cardinality({s \in Members : ByPool(view[s]) /\ Present(view[s])}) + left <= desired

\* "Already-claimed sandboxes are never touched" by the pool's deletes.
ClaimedNeverTouched ==
    [][\A s \in Sandboxes : DeleteOK(s) => api[s].owner # "claim"]_vars

\* "A lost or badly delayed watch event can idle a pool for up to this long":
\* once the timeout is over, a pool short of members is reconciled again, with no
\* need of an unrelated event.
LostEventRecovers ==
    expired /\ template # 0 /\ Cardinality(Live) < replicas ~> phase # "idle" \/ ~expired
=============================================================================
