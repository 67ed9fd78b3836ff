-------------------------------- MODULE RunResources --------------------------------
(***************************************************************************)
(* What an RL run leaves in a cluster: the reaper that removes the objects  *)
(* of a run, and the namespaces a run makes for itself. They share no       *)
(* state; each has its own initial predicate and next-state relation.       *)
(***************************************************************************)
EXTENDS Integers, Sequences, FiniteSets

CONSTANTS
    Pools, Claims, Sandboxes, Runs,
    PoolRun,      \* the run whose label the pool and its template carry
    ClaimRun, ClaimPool,
    SandboxPool,  \* the pool that makes it
    Unlabelled,   \* pods from before POD_RUN_ID_LABEL
    Given,        \* reap(run_id): {that run}; reap_orphans: {}
    Alive,        \* alive_run_ids
    Young,        \* runs with an object younger than min_age_s
    Busy,         \* what goes on meanwhile: "claim", "bind", "replenish"
    Faults,       \* "list", "delete"
    NoClaim

CONSTANTS
    Clusters,    \* a sequence: the registry's order
    Planners,    \* threads that reach plan()
    Shared,      \* config.run_id is set: peers use the same namespaces
    Joined,      \* the teardown starts after the planning threads have returned
    NsFaults,      \* "create", "hook", "delete", "read" may fail
    MaxCalls, MaxCycles

VARIABLES
    claims, pools, templates, sandboxes, pods,   \* what exists; a template is named by its pool
    bound,      \* sandbox -> the claim that has it
    poolLabel,  \* pods that carry their pool's label
    pc,
    targets,    \* the runs being reaped
    inUse,      \* _in_use_elsewhere: [pools, pods by selector of a pool or a sandbox]
    links,      \* _sandbox_links: [poolSel, sandboxSel, names]
    used,       \* history: what other runs' claims used when the protection was taken
    removed     \* history: what the reaper deleted

VARIABLES
    ns,         \* cluster index -> "none" | "active" | "terminating"
    mine,       \* created by this fleet
    ready,      \* the hook has succeeded in it
    created,    \* _created_namespaces
    setUp,      \* _namespaces_set_up
    deleted,    \* _deleted_namespaces
    ensured,    \* _namespaces_ensured
    lock,       \* holder of _ns_lock, NoOne when free
    nsPc, at,     \* per planner: its step, and the cluster it is at
    createdNow, \* of the attempt under the lock
    torndown, sweep, sweepAt,   \* _torndown; the teardown's step and cluster
    calls, cycles,
    foreign     \* history: a namespace this fleet did not create was deleted

-----------------------------------------------------------------------------
(***************************************************************************)
(* The reaper of agent-sandbox-rl: it deletes the claims, pools, templates,*)
(* Sandboxes and pods of one run, or of every orphaned run, in a namespace *)
(* other runs keep working in.  What another run's claims still use is     *)
(* found first; how Sandboxes and pods are reached is recorded before the  *)
(* objects that lead to them are deleted.                                  *)
(*                                                                         *)
(* examples/agent-sandbox-rl/agent_sandbox_rl/reaper.py.                   *)
(***************************************************************************)
reapVars == <<claims, pools, templates, sandboxes, pods, bound, poolLabel, pc, targets, inUse, links,
              used, removed>>

NoLinks == [poolSel |-> {}, sandboxSel |-> {}, names |-> {}]
NoUse == [poolSel |-> {}, sandboxSel |-> {}]

ReapInit ==
    /\ claims \in SUBSET Claims /\ pools = Pools /\ templates = Pools
    /\ sandboxes \in SUBSET Sandboxes /\ pods = sandboxes
    /\ bound \in [Sandboxes -> Claims \cup {NoClaim}]
    /\ \A s \in Sandboxes : bound[s] # NoClaim =>
           /\ s \in sandboxes /\ bound[s] \in claims /\ ClaimPool[bound[s]] = SandboxPool[s]
           /\ \A t \in Sandboxes \ {s} : bound[t] # bound[s]
    /\ poolLabel = {s \in sandboxes : bound[s] = NoClaim}
    /\ pc = "start" /\ targets = {} /\ inUse = NoUse /\ links = NoLinks
    /\ used = {} /\ removed = {}

world == <<claims, pools, templates, sandboxes, pods, bound, poolLabel>>
reaper == <<pc, targets, inUse, links, used, removed>>

---------------------------------------------------------------------------
\* The rest of the namespace: other runs claim, the controllers bind, relabel and refill,
\* and the garbage collector follows owners when it gets to it.
Claim(c) ==
    /\ "claim" \in Busy /\ c \notin claims /\ ClaimRun[c] \notin targets \cup Given
    /\ claims' = claims \cup {c}
    /\ UNCHANGED <<pools, templates, sandboxes, pods, bound, poolLabel, reaper>>

Bind(c, s) ==
    /\ "bind" \in Busy /\ c \in claims /\ \A t \in Sandboxes : bound[t] # c
    /\ s \in sandboxes /\ s \in pods /\ bound[s] = NoClaim /\ SandboxPool[s] = ClaimPool[c]
    /\ bound' = [bound EXCEPT ![s] = c]
    /\ UNCHANGED <<claims, pools, templates, sandboxes, pods, poolLabel, reaper>>

Relabel(s) ==
    /\ s \in poolLabel /\ bound[s] # NoClaim
    /\ poolLabel' = poolLabel \ {s}
    /\ UNCHANGED <<claims, pools, templates, sandboxes, pods, bound, reaper>>

Replenish(s) ==
    /\ "replenish" \in Busy /\ s \notin sandboxes /\ s \notin pods
    /\ SandboxPool[s] \in pools /\ SandboxPool[s] \in templates
    /\ sandboxes' = sandboxes \cup {s} /\ pods' = pods \cup {s}
    /\ poolLabel' = poolLabel \cup {s} /\ bound' = [bound EXCEPT ![s] = NoClaim]
    /\ UNCHANGED <<claims, pools, templates, reaper>>

Collect(s) ==
    /\ \/ /\ s \in sandboxes
          /\ IF bound[s] = NoClaim THEN SandboxPool[s] \notin pools ELSE bound[s] \notin claims
          /\ sandboxes' = sandboxes \ {s} /\ UNCHANGED <<pods, poolLabel>>
       \/ /\ s \in pods /\ s \notin sandboxes
          /\ pods' = pods \ {s} /\ poolLabel' = poolLabel \ {s} /\ UNCHANGED sandboxes
    /\ UNCHANGED <<claims, pools, templates, bound, reaper>>

---------------------------------------------------------------------------
Seen(r) == \/ \E c \in claims : ClaimRun[c] = r
           \/ \E p \in pools \cup templates : PoolRun[p] = r

\* reap takes the run it is given; reap_orphans finds the runs nobody says are alive and
\* whose newest object is old enough.
Start ==
    /\ pc = "start"
    /\ targets' = IF Given # {} THEN Given ELSE {r \in Runs \ (Alive \cup Young) : Seen(r)}
    /\ pc' = IF targets' = {} THEN "done" ELSE "protect"
    /\ UNCHANGED <<world, inUse, links, used, removed>>

Foreign == {c \in claims : ClaimRun[c] \notin targets}
BoundTo(cs) == {s \in sandboxes : bound[s] \in cs}

\* Faulty: only claims that have a sandbox count.
InUseElsewhereBound ==
    LET cs == {c \in Foreign : \E s \in sandboxes : bound[s] = c}
    IN  [poolSel |-> {ClaimPool[c] : c \in cs} \cap pools, sandboxSel |-> BoundTo(cs)]

\* _in_use_elsewhere: the pools other claims point at, with the labels their pods carry.
InUseElsewhere ==
    [poolSel |-> {ClaimPool[c] : c \in Foreign} \cap pools, sandboxSel |-> BoundTo(Foreign)]

\* A list that fails ends the reap before anything is deleted.
Protect ==
    /\ pc = "protect"
    /\ \/ /\ inUse' = InUseElsewhere
          /\ used' = {<<"pool", p>> : p \in {ClaimPool[c] : c \in Foreign}}
                     \cup {<<"template", p>> : p \in {ClaimPool[c] : c \in Foreign} \cap pools}
                     \cup {<<"sandbox", s>> : s \in BoundTo(Foreign)}
                     \cup {<<"pod", s>> : s \in BoundTo(Foreign)}
                     \cup {<<"claim", c>> : c \in Foreign}
          /\ pc' = "links"
       \/ "list" \in Faults /\ pc' = "done" /\ UNCHANGED <<inUse, used>>
    /\ UNCHANGED <<world, targets, links, removed>>

OwnPools == {p \in pools : PoolRun[p] \in targets} \ inUse.poolSel
OwnClaims == {c \in claims : ClaimRun[c] \in targets}

SandboxLinks ==
    [poolSel |-> OwnPools, sandboxSel |-> BoundTo(OwnClaims),
     names |-> {s \in sandboxes : bound[s] = NoClaim /\ SandboxPool[s] \in OwnPools}
               \cup BoundTo(OwnClaims)]

\* _sandbox_links: best effort, a list that fails contributes nothing.
Links ==
    /\ pc = "links"
    /\ links' \in {SandboxLinks} \cup (IF "list" \in Faults THEN {NoLinks} ELSE {})
    /\ pc' = "claims"
    /\ UNCHANGED <<world, targets, inUse, used, removed>>

\* A sweep deletes what it lists; a delete that fails is logged.
Deleted(set) == IF "delete" \in Faults THEN SUBSET set ELSE {set}

SweepClaims ==
    /\ pc = "claims" /\ pc' = "pools"
    /\ \E gone \in Deleted(OwnClaims) :
          /\ claims' = claims \ gone
          /\ removed' = removed \cup {<<"claim", c>> : c \in gone}
    /\ UNCHANGED <<pools, templates, sandboxes, pods, bound, poolLabel, targets, inUse, links, used>>

SweepPools ==
    /\ pc = "pools" /\ pc' = "sandboxes"
    /\ \E gone \in Deleted(OwnPools) :
          /\ pools' = pools \ gone
          /\ removed' = removed \cup {<<"pool", p>> : p \in gone}
    /\ UNCHANGED <<claims, templates, sandboxes, pods, bound, poolLabel, targets, inUse, links, used>>

SweepSandboxes ==
    /\ pc = "sandboxes" /\ pc' = "templates"
    /\ \E gone \in Deleted(links.names) :
          /\ sandboxes' = sandboxes \ gone
          /\ removed' = removed \cup {<<"sandbox", s>> : s \in gone \cap sandboxes}
    /\ UNCHANGED <<claims, pools, templates, pods, bound, poolLabel, targets, inUse, links, used>>

SweepTemplates ==
    /\ pc = "templates" /\ pc' = "pods"
    /\ \E gone \in Deleted({p \in templates : PoolRun[p] \in targets} \ inUse.poolSel) :
          /\ templates' = templates \ gone
          /\ removed' = removed \cup {<<"template", p>> : p \in gone}
    /\ UNCHANGED <<claims, pools, sandboxes, pods, bound, poolLabel, targets, inUse, links, used>>

\* The run's pods except those that carry a protected label, and what the links select.
DoomedPods ==
    {s \in pods : \/ /\ PoolRun[SandboxPool[s]] \in targets /\ s \notin Unlabelled
                     /\ ~(s \in poolLabel /\ SandboxPool[s] \in inUse.poolSel)
                     /\ s \notin inUse.sandboxSel
                  \/ s \in poolLabel /\ SandboxPool[s] \in links.poolSel
                  \/ s \in links.sandboxSel}

SweepPods ==
    /\ pc = "pods" /\ pc' = "done"
    /\ \E gone \in Deleted(DoomedPods) :
          /\ pods' = pods \ gone /\ poolLabel' = poolLabel \ gone
          /\ removed' = removed \cup {<<"pod", s>> : s \in gone}
    /\ UNCHANGED <<claims, pools, templates, sandboxes, bound, targets, inUse, links, used>>

World == \/ \E c \in Claims : Claim(c) \/ \E s \in Sandboxes : Bind(c, s)
         \/ \E s \in Sandboxes : Relabel(s) \/ Replenish(s) \/ Collect(s)
Reap == \/ Start \/ Protect \/ Links \/ SweepClaims \/ SweepPools \/ SweepSandboxes
        \/ SweepTemplates \/ SweepPods
ReapNext == World \/ Reap
ReapSpec == ReapInit /\ [][ReapNext]_reapVars

---------------------------------------------------------------------------

\* What another run's claims used when the reaper looked is not deleted: their pools, the
\* templates, Sandboxes and pods, "even if they carry run_id" (_reap_with_cluster).
InUseStands == removed \cap used = {}

Spared == IF Given # {} THEN Runs \ Given ELSE Alive \cup Young

\* A run that was not named, that somebody says is alive, or that has just started loses
\* nothing of its own (reap, find_orphan_runs).
LiveRunStands ==
    \A x \in removed : CASE x[1] = "claim" -> ClaimRun[x[2]] \notin Spared
                         [] x[1] \in {"pool", "template"} -> PoolRun[x[2]] \notin Spared
                         [] OTHER -> TRUE

\* When every call works, a reap leaves no claim, pool or template of its runs but the ones
\* in use elsewhere, and no pod of its pools or claims, however slowly the owner cascade
\* follows ("a cascade that stalls still ends with the pods gone", the module's docstring).
NothingOfTheRunLeft ==
    pc = "done" =>
        /\ OwnClaims = {} /\ OwnPools = {}
        /\ {p \in templates : PoolRun[p] \in targets} \subseteq inUse.poolSel
        /\ \A s \in pods : PoolRun[SandboxPool[s]] \in targets =>
               SandboxPool[s] \in inUse.poolSel \/ s \in inUse.sandboxSel

-----------------------------------------------------------------------------
(***************************************************************************)
(* The per-run namespaces of a fleet (run_isolation="namespace"): created  *)
(* on first use by whichever thread plans first, set up by a hook, rolled  *)
(* back when an attempt fails, deleted by the teardown that ends a cycle.  *)
(* Other processes may have made a namespace before, or, with a shared run *)
(* id, make it at any time.                                                *)
(*                                                                         *)
(* examples/agent-sandbox-rl/agent_sandbox_rl/fleet.py and resources.py.   *)
(***************************************************************************)
Idx == 1..Len(Clusters)

nsVars == <<ns, mine, ready, created, setUp, deleted, ensured, lock, nsPc, at, createdNow,
            torndown, sweep, sweepAt, calls, cycles, foreign>>

nsWorld == <<ns, mine, ready>>
books == <<created, setUp, deleted>>
owner == <<torndown, sweep, sweepAt, cycles>>

NoOne == "none"

NsInit ==
    /\ ns \in [Idx -> {"none", "active"}]
    /\ mine = [c \in Idx |-> FALSE] /\ ready \in [Idx -> BOOLEAN]
    /\ \A c \in Idx : ready[c] => ns[c] = "active"
    /\ created = {} /\ setUp = {} /\ deleted = {} /\ ensured = FALSE
    /\ lock = NoOne /\ nsPc = [t \in Planners |-> "idle"] /\ at = [t \in Planners |-> 1]
    /\ createdNow = <<>>
    /\ torndown = FALSE /\ sweep = "idle" /\ sweepAt = 1
    /\ calls = 0 /\ cycles = 0 /\ foreign = FALSE

Goto(t, step) == nsPc' = [nsPc EXCEPT ![t] = step]
Move(t, step, c) == Goto(t, step) /\ at' = [at EXCEPT ![t] = c]

---------------------------------------------------------------------------
\* The API server: a deleted namespace is Terminating until it is gone.
Remove(c) ==
    /\ ns' = [ns EXCEPT ![c] = IF @ = "active" THEN "terminating" ELSE @]
    /\ foreign' = (foreign \/ (ns[c] = "active" /\ ~mine[c]))
    /\ UNCHANGED <<mine, ready>>

Gone ==
    /\ \E c \in Idx : /\ ns[c] = "terminating"
                      /\ ns' = [ns EXCEPT ![c] = "none"]
                      /\ mine' = [mine EXCEPT ![c] = FALSE]
                      /\ ready' = [ready EXCEPT ![c] = FALSE]
    /\ UNCHANGED <<books, ensured, lock, nsPc, at, createdNow, owner, calls, foreign>>

\* A process with the same run id makes a namespace first.
PeerCreates ==
    /\ Shared
    /\ \E c \in Idx : /\ ns[c] = "none"
                      /\ ns' = [ns EXCEPT ![c] = "active"]
    /\ UNCHANGED <<mine, ready, books, ensured, lock, nsPc, at, createdNow, owner, calls, foreign>>

---------------------------------------------------------------------------
\* _ensure_run_namespaces: the flag is read, the lock is taken, the flag is read again.
Call(t) ==
    /\ nsPc[t] = "idle" /\ ~ensured
    /\ Joined => sweep = "idle" /\ ~torndown
    /\ calls < MaxCalls /\ calls' = calls + 1
    /\ Goto(t, "lock")
    /\ UNCHANGED <<nsWorld, books, ensured, lock, at, createdNow, owner, foreign>>

Lock(t) ==
    /\ nsPc[t] = "lock" /\ lock = NoOne
    /\ IF ensured
       THEN Goto(t, "idle") /\ UNCHANGED <<lock, createdNow, at>>
       ELSE lock' = t /\ createdNow' = <<>> /\ Move(t, "create", 1)
    /\ UNCHANGED <<nsWorld, books, ensured, owner, calls, foreign>>

\* The next cluster, or the end of the attempt.
Advance(t) ==
    IF at[t] < Len(Clusters)
    THEN Move(t, "create", at[t] + 1) /\ UNCHANGED <<ensured, lock>>
    ELSE Goto(t, "idle") /\ ensured' = TRUE /\ lock' = NoOne /\ UNCHANGED at

\* The hook is for a namespace this run owns and has not set up yet.
NeedsHook(c, own) == (c \in own \/ Shared) /\ c \notin setUp

\* ensure_namespace: created, there already, still terminating (when the read says so), or
\* refused; then the hook if it is due.
Create(t) ==
    LET c == at[t]
    IN  /\ nsPc[t] = "create"
        /\ \/ /\ ns[c] = "none"
              /\ ns' = [ns EXCEPT ![c] = "active"] /\ mine' = [mine EXCEPT ![c] = TRUE]
              /\ ready' = ready
              /\ createdNow' = Append(createdNow, c) /\ created' = created \cup {c}
              /\ IF NeedsHook(c, created') THEN Goto(t, "hook") /\ UNCHANGED <<at, ensured, lock>>
                 ELSE Advance(t)
           \/ /\ ns[c] = "active" \/ (ns[c] = "terminating" /\ "read" \in NsFaults)
              /\ UNCHANGED <<nsWorld, createdNow, created>>
              /\ IF NeedsHook(c, created) THEN Goto(t, "hook") /\ UNCHANGED <<at, ensured, lock>>
                 ELSE Advance(t)
           \/ /\ ns[c] = "terminating" \/ "create" \in NsFaults
              /\ Goto(t, "rollback")
              /\ UNCHANGED <<nsWorld, createdNow, created, at, ensured, lock>>
        /\ UNCHANGED <<setUp, deleted, owner, calls, foreign>>

\* run_namespace_setup.
Hook(t) ==
    LET c == at[t]
    IN  /\ nsPc[t] = "hook"
        /\ \/ /\ ns[c] = "active"
              /\ ready' = [ready EXCEPT ![c] = TRUE] /\ setUp' = setUp \cup {c}
              /\ Advance(t)
           \/ /\ "hook" \in NsFaults \/ ns[c] # "active"
              /\ Goto(t, "rollback") /\ UNCHANGED <<ready, setUp, at, ensured, lock>>
        /\ UNCHANGED <<ns, mine, created, deleted, createdNow, owner, calls, foreign>>

\* What the failed attempt created is deleted again, unless the run id is shared; a failed
\* delete keeps the record.
Rollback(t) ==
    /\ nsPc[t] = "rollback"
    /\ IF Shared \/ createdNow = <<>>
       THEN /\ Goto(t, "idle") /\ lock' = NoOne
            /\ UNCHANGED <<nsWorld, foreign, created, setUp, createdNow>>
       ELSE LET c == Head(createdNow)
            IN  /\ createdNow' = Tail(createdNow)
                /\ \/ Remove(c) /\ created' = created \ {c} /\ setUp' = setUp \ {c}
                   \/ "delete" \in NsFaults /\ UNCHANGED <<nsWorld, foreign, created, setUp>>
                /\ UNCHANGED <<nsPc, lock>>
    /\ UNCHANGED <<deleted, ensured, at, owner, calls>>

---------------------------------------------------------------------------
\* teardown: once per cycle, cluster by cluster, without _ns_lock.
Teardown ==
    /\ sweep = "idle" /\ ~torndown
    /\ Joined => \A t \in Planners : nsPc[t] = "idle"
    /\ torndown' = TRUE /\ sweep' = "sweep" /\ sweepAt' = 1
    /\ UNCHANGED <<nsWorld, books, ensured, lock, nsPc, at, createdNow, calls, cycles, foreign>>

Onward ==
    IF sweepAt < Len(Clusters)
    THEN sweepAt' = sweepAt + 1 /\ UNCHANGED <<sweep, ensured>>
    ELSE sweep' = "idle" /\ ensured' = FALSE /\ UNCHANGED sweepAt

Sweep ==
    /\ sweep = "sweep"
    /\ LET c == sweepAt
       IN  IF c \in created /\ ~Shared
           THEN \/ /\ Remove(c)
                   /\ created' = created \ {c} /\ setUp' = setUp \ {c}
                   /\ deleted' = deleted \cup {c}
                \/ "delete" \in NsFaults /\ UNCHANGED <<nsWorld, foreign, books>>
           ELSE UNCHANGED <<nsWorld, foreign, books>>
    /\ Onward
    /\ UNCHANGED <<lock, nsPc, at, createdNow, torndown, calls, cycles>>

\* setup opens the next cycle.
Setup ==
    /\ sweep = "idle" /\ torndown /\ cycles < MaxCycles
    /\ torndown' = FALSE /\ deleted' = {} /\ cycles' = cycles + 1
    /\ UNCHANGED <<nsWorld, created, setUp, ensured, lock, nsPc, at, createdNow, sweep, sweepAt,
                   calls, foreign>>

Step(t) == Lock(t) \/ Create(t) \/ Hook(t) \/ Rollback(t)
NsNext == \/ \E t \in Planners : Call(t) \/ Step(t)
          \/ Teardown \/ Sweep \/ Setup \/ Gone \/ PeerCreates
NsSpec == NsInit /\ [][NsNext]_nsVars

---------------------------------------------------------------------------

Quiet == sweep = "idle" /\ \A t \in Planners : nsPc[t] = "idle"

\* Only a namespace this run created is deleted: "a namespace that already existed is used
\* but not owned, so teardown leaves it standing", and a shared one "may hold peers' pools
\* already: never roll it back" (_ensure_run_namespaces, _teardown).
ForeignStands == ~foreign

\* At rest the run knows every namespace it still has: each one it created and that is not
\* going away is in _created_namespaces, also after a rollback or a delete that failed.
OwnedIsKnown == Quiet => \A c \in Idx : (mine[c] /\ ns[c] = "active") => c \in created

\* With deletes that work, an attempt that failed and a teardown that ended leave no
\* namespace of this run behind ("All-or-nothing per attempt", _ensure_run_namespaces_locked).
NothingLeftBehind ==
    Quiet /\ (torndown \/ ~ensured) => \A c \in Idx : mine[c] => ns[c] = "terminating"

=============================================================================
