-------------------------------- MODULE FleetMember --------------------------------
(***************************************************************************)
(* The member of a multi-cluster fleet: the reconciliation of its warm      *)
(* pools with the published plan, and the lease by which one of its         *)
(* replicas leads. They share no state; each has its own initial predicate  *)
(* and next-state relation.                                                 *)
(***************************************************************************)
EXTENDS Integers, FiniteSets

CONSTANTS
    Pools,      \* warm pools the plan may name for this cluster
    Sinks,      \* where capacity goes: the bucket, and the hub when configured
    Reads,      \* the sink the planner takes its inventory from
    Forms,      \* payloads that occur: "entry", "drain", "other", "schema", "broken", "none"
    Faults,     \* "fetch", "template", "ensure", "list", "delete", "restart"
    MaxFaults, MaxWrites, \* bounds
    MaxTicks

CONSTANTS
    Replicas,
    Nobody,
    LeaseDuration, RenewDeadline, \* in ticks
    Denied,       \* verbs the ServiceAccount lacks: "get", "create", "update"
    LeaseFaults,       \* "transport", "hang", "signal", "crash"
    LeaseMaxFaults     \* bound

VARIABLES
    plan,       \* assignments.json: what it says of this cluster
    writes,     \* the store generation
    templates,  \* SandboxTemplates the operator has applied
    have,       \* per pool, the generation it was last written with; 0: no such pool
    etag, last, retry, \* _last_etag (0: none), _last_assignment, _retry_pending
    ok,         \* age of _capacity_ok_at
    since,      \* per sink, age of the report: 0 fresh, 1 past 90 s, 2 past the teardown window
    pc, todo, skipped, \* the reconcile pass
    kept,       \* history: pools that every order so far has included
    ticks, faults

VARIABLES
    lease,   \* holder_identity, or Nobody: there is no Lease
    st,      \* "standby", "leading", or the exit: "stopped", "lost", "failed"
    at,      \* the election thread: "rest", "read", "hung"
    news,    \* the record changed since this replica observed it
    dirty,   \* the Lease changed since this replica read it: update() gets a 409
    age,     \* ticks since the observed record last changed
    renew,   \* ticks since this leader last renewed
    leaseFaults

-----------------------------------------------------------------------------
(***************************************************************************)
(* One cluster of a multi-cluster fleet: the planner publishes the plan    *)
(* object, the fleet-member polls it and applies its own entry with one    *)
(* request at a time, and the capacity loop reports to one sink or to two. *)
(*                                                                         *)
(* examples/multi-cluster-fleet/python/agent_sandbox_fleet/                *)
(* fleet_member.py (FleetMember), planner.py (apply, plan), objectstore.py.*)
(***************************************************************************)
member == <<etag, last, retry>>
pass == <<pc, todo, skipped>>
memberVars == <<plan, writes, templates, have, member, ok, since, pass, kept, ticks, faults>>

Unset == [form |-> "none", pools |-> {}, gen |-> 0, why |-> "none", sg |-> 0]
Orders == {"entry", "drain"}
Managed == {p \in Pools : have[p] # 0}

\* A member starts, or starts again, beside the pools of an earlier one.
MemberInit ==
    /\ \E ps \in SUBSET Pools :
          /\ plan = [form |-> "entry", pools |-> ps, gen |-> 1, why |-> "ordered", sg |-> 1]
          /\ have = [p \in Pools |-> IF p \in ps THEN 1 ELSE 0] /\ kept = ps
    /\ writes = 1 /\ templates \in SUBSET Pools
    /\ etag = 0 /\ last = Unset /\ retry = FALSE /\ ok = "never"
    /\ since = [s \in Sinks |-> 0] /\ pc = "idle" /\ todo = {} /\ skipped = FALSE
    /\ ticks = 0 /\ faults = 0

Fault(f) == f \in Faults /\ faults < MaxFaults /\ faults' = faults + 1
NoFault == UNCHANGED faults

----------------------------------------------------------------------------
(* The planner and the operator                                            *)

Write(p) ==
    /\ writes < MaxWrites /\ writes' = writes + 1
    /\ plan' = [p EXCEPT !.sg = IF p.form = "none" THEN 0 ELSE writes']
    /\ kept' = IF p.form \in Orders THEN kept \cap p.pools ELSE kept
    /\ UNCHANGED <<templates, have, member, ok, since, pass, ticks, faults>>

\* fleetctl apply: a fresh cluster is planned for, a stale one frozen, one that was silent
\* for longer than stale_teardown_after_s emptied.  The store generation is compared and set.
Apply ==
    \E ps \in SUBSET Pools :
       /\ plan.form \in Orders \cup {"other", "none"} /\ "entry" \in Forms
       /\ since[Reads] = 1 => ps = plan.pools
       /\ since[Reads] = 2 => ps = {}
       /\ Write([form |-> "entry", pools |-> ps, gen |-> plan.gen + 1, sg |-> 0,
                 why |-> IF since[Reads] = 2 THEN "silence"
                         ELSE IF since[Reads] = 1 THEN plan.why ELSE "ordered"])

\* An empty registry, a bucket of another fleet, a newer planner, a truncated object, a wiped bucket.
Odd(f) ==
    /\ f \in Forms \ {"entry"} /\ plan.form # f
    /\ Write([form |-> f, pools |-> {}, gen |-> IF f = "none" THEN 0 ELSE plan.gen + 1,
              why |-> IF f = "drain" THEN "ordered" ELSE "none", sg |-> 0])

ApplyTemplate ==
    /\ templates # Pools /\ templates' = Pools
    /\ UNCHANGED <<plan, writes, have, member, ok, since, pass, kept, ticks, faults>>

----------------------------------------------------------------------------
(* The capacity loop                                                       *)

\* _capacity_once: each sink on its own; one that got the report sets the stamp.
CapacityOnce(S) ==
    /\ since' = [s \in Sinks |-> IF s \in S THEN 0 ELSE since[s]]
    /\ ok' = IF S # {} THEN "recent" ELSE ok
    /\ UNCHANGED <<plan, writes, templates, have, member, pass, kept, ticks, faults>>

\* More than 90 s pass.
Tick ==
    /\ ticks < MaxTicks /\ ticks' = ticks + 1
    /\ since' = [s \in Sinks |-> IF since[s] = 2 THEN 2 ELSE since[s] + 1]
    /\ ok' = IF ok = "never" THEN ok ELSE "old"
    /\ UNCHANGED <<plan, writes, templates, have, member, pass, kept, faults>>

----------------------------------------------------------------------------
(* The reconcile loop                                                      *)

\* _fetch_assignments: the plan to act on, whether it is new, and the etag to keep.
Fetched ==
    CASE plan.form = "none" -> [a |-> last, changed |-> FALSE, etag |-> 0]
      [] plan.form # "none" /\ plan.sg = etag -> [a |-> last, changed |-> FALSE, etag |-> etag]
      [] plan.form = "schema" -> [a |-> last, changed |-> FALSE, etag |-> etag]
      [] OTHER -> [a |-> plan, changed |-> TRUE, etag |-> plan.sg]

Outside == <<plan, writes, templates, ok, since, kept, ticks>>
EndPass == pc' = "idle" /\ todo' = {} /\ skipped' = FALSE

\* A payload that does not parse, and a read that fails, raise before anything is kept.
FetchFails ==
    /\ pc = "idle" /\ (plan.form = "broken" \/ "fetch" \in Faults)
    /\ IF plan.form = "broken" THEN NoFault ELSE Fault("fetch")
    /\ EndPass /\ UNCHANGED <<have, member, Outside>>

\* An empty entry is refused while this member's own reports do not arrive.
Refused(a) == a.form = "entry" /\ a.pools = {} /\ ok # "recent"

\* _reconcile_once up to the first pool: hold, or arm the retry and go through the entry.
Start ==
    /\ pc = "idle" /\ plan.form # "broken"
    /\ LET f == Fetched
           due == f.changed \/ last = Unset \/ retry
           hold == f.a.form = "other" \/ Refused(f.a)
           go == f.a # Unset /\ due /\ ~hold
       IN  /\ etag' = IF f.a # Unset /\ due /\ hold THEN 0 ELSE f.etag
           /\ last' = IF go THEN f.a ELSE last
           /\ retry' = IF go THEN TRUE ELSE retry
           /\ IF go THEN pc' = "pools" /\ todo' = f.a.pools /\ skipped' = FALSE ELSE EndPass
    /\ NoFault /\ UNCHANGED <<have, Outside>>

\* One pool: its template is looked up, and the pool created or replaced.
Ensure(p) ==
    /\ pc = "pools" /\ p \in todo /\ todo' = todo \ {p} /\ pc' = pc
    /\ \/ /\ p \in templates /\ NoFault
          /\ have' = [have EXCEPT ![p] = last.gen] /\ UNCHANGED skipped
       \/ /\ IF p \in templates THEN Fault("ensure") ELSE NoFault
          /\ skipped' = TRUE /\ UNCHANGED have
    /\ UNCHANGED <<member, Outside>>

\* Any answer but 200 and 404 to the template read, and a failed list, end the pass.
PassFails ==
    /\ \/ pc = "pools" /\ todo # {} /\ Fault("template")
       \/ pc = "pools" /\ todo = {} /\ Fault("list")
    /\ EndPass /\ UNCHANGED <<have, member, Outside>>

\* _list_managed_pool_names, whole before the first delete.
ListManaged ==
    /\ pc = "pools" /\ todo = {} /\ pc' = "delete" /\ todo' = Managed \ last.pools
    /\ NoFault /\ UNCHANGED <<have, skipped, member, Outside>>

\* An orphan goes; a delete that fails is logged.
Delete(p) ==
    /\ pc = "delete" /\ p \in todo /\ todo' = todo \ {p}
    /\ \/ have' = [have EXCEPT ![p] = 0] /\ NoFault
       \/ Fault("delete") /\ UNCHANGED have
    /\ UNCHANGED <<pc, skipped, member, Outside>>

Finish ==
    /\ pc = "delete" /\ todo = {} /\ EndPass /\ retry' = skipped
    /\ NoFault /\ UNCHANGED <<have, etag, last, Outside>>

\* The process dies, or another replica takes over; _start_loops forgets the stamp.
Restart ==
    /\ Fault("restart") /\ EndPass
    /\ etag' = 0 /\ last' = Unset /\ retry' = FALSE /\ ok' = "never"
    /\ UNCHANGED <<plan, writes, templates, since, kept, ticks, have>>

Reconcile == Start \/ ListManaged \/ Finish \/ \E p \in Pools : Ensure(p) \/ Delete(p)

MemberNext ==
    \/ Apply \/ \E f \in Forms : Odd(f)
    \/ ApplyTemplate \/ Tick \/ \E S \in SUBSET Sinks : CapacityOnce(S)
    \/ FetchFails \/ Reconcile \/ PassFails \/ Restart

MemberSpec == MemberInit /\ [][MemberNext]_memberVars

----------------------------------------------------------------------------
(* Properties                                                              *)

\* A pool that every order so far has included stands, through payloads that are missing,
\* refused, malformed or about other clusters, and through restarts ("Absence is not an
\* instruction", _fetch_assignments).
NothingLostUnordered == kept \subseteq Managed

-----------------------------------------------------------------------------
(***************************************************************************)
(* Leader election among the replicas of a fleet-member: the Lease lock,   *)
(* the election loop of the kubernetes client that drives it, and what the *)
(* member does when it starts or stops leading.  A read and a write are    *)
(* steps of their own; the record is known by who wrote it and by whether  *)
(* it changed since a replica last looked.                                 *)
(*                                                                         *)
(* examples/multi-cluster-fleet/python/agent_sandbox_fleet/leaselock.py,   *)
(* fleet_member.py (run, _run_election).                                   *)
(***************************************************************************)
leaseVars == <<lease, st, at, news, dirty, age, renew, leaseFaults>>

Alive(m) == st[m] \in {"standby", "leading"}

LeaseInit ==
    /\ lease = Nobody /\ st = [m \in Replicas |-> "standby"] /\ at = [m \in Replicas |-> "rest"]
    /\ news = [m \in Replicas |-> TRUE] /\ dirty = [m \in Replicas |-> FALSE]
    /\ age = [m \in Replicas |-> 0] /\ renew = [m \in Replicas |-> 0] /\ leaseFaults = 0

LeaseFault(f) == f \in LeaseFaults /\ leaseFaults < LeaseMaxFaults /\ leaseFaults' = leaseFaults + 1

\* _run_election catches what the lock raises and ends the process with code 2.
Exit(m, code) ==
    /\ st' = [st EXCEPT ![m] = code] /\ at' = [at EXCEPT ![m] = "rest"]

\* The record is written by m: the others see a change, and m leads (onstarted_leading).
Written(m) ==
    /\ lease' = m
    /\ news' = [r \in Replicas |-> r # m] /\ dirty' = [r \in Replicas |-> r # m]
    /\ age' = [age EXCEPT ![m] = 0] /\ renew' = [renew EXCEPT ![m] = 0]
    /\ st' = [st EXCEPT ![m] = "leading"] /\ at' = [at EXCEPT ![m] = "rest"]

\* Faulty: a record that does not survive the conversion looks new, and another's, at every read.
ReadAlwaysNew(m) ==
    /\ Alive(m) /\ at[m] = "rest" /\ "get" \notin Denied
    /\ dirty' = [dirty EXCEPT ![m] = FALSE] /\ news' = [news EXCEPT ![m] = FALSE]
    /\ age' = [age EXCEPT ![m] = 0]
    /\ at' = [at EXCEPT ![m] = IF lease = Nobody THEN "read" ELSE "rest"]
    /\ UNCHANGED <<lease, st, renew, leaseFaults>>

\* get(), and the check that follows it: another's record stands for a lease duration after
\* this replica saw it change.
Read(m) ==
    /\ Alive(m) /\ at[m] = "rest"
    /\ \/ /\ "get" \in Denied /\ Exit(m, "failed") /\ UNCHANGED <<dirty, news, age>>
       \/ /\ "get" \notin Denied
          /\ LET seen == IF news[m] /\ lease # Nobody THEN 0 ELSE age[m]
                 mine == lease \in {m, Nobody} \/ seen >= LeaseDuration
             IN  /\ age' = [age EXCEPT ![m] = seen]
                 /\ dirty' = [dirty EXCEPT ![m] = FALSE] /\ news' = [news EXCEPT ![m] = FALSE]
                 /\ at' = [at EXCEPT ![m] = IF mine THEN "read" ELSE "rest"]
                 /\ UNCHANGED st
    /\ UNCHANGED <<lease, renew, leaseFaults>>

\* Faulty: the Lease is replaced whatever became of it since the read.
UpdateUnlocked(m) ==
    /\ Alive(m) /\ at[m] = "read" /\ lease # Nobody
    /\ Written(m) /\ UNCHANGED leaseFaults

\* create() of a Lease that was not there; a 409 is a failed attempt, a 403 raises.
Create(m) ==
    /\ Alive(m) /\ at[m] = "read" /\ lease = Nobody
    /\ \/ "create" \notin Denied /\ Written(m)
       \/ "create" \in Denied /\ Exit(m, "failed") /\ UNCHANGED <<lease, news, dirty, age, renew>>
    /\ UNCHANGED leaseFaults

\* update() on the resourceVersion that was read; a 409 and a 403 are failed attempts alike.
Update(m) ==
    /\ Alive(m) /\ at[m] = "read" /\ lease # Nobody
    /\ \/ ~dirty[m] /\ "update" \notin Denied /\ Written(m)
       \/ /\ dirty[m] \/ "update" \in Denied
          /\ at' = [at EXCEPT ![m] = "rest"] /\ UNCHANGED <<lease, st, news, dirty, age, renew>>
    /\ UNCHANGED leaseFaults

\* A transport error costs an attempt.
Transport(m) ==
    /\ Alive(m) /\ LeaseFault("transport") /\ at' = [at EXCEPT ![m] = "rest"]
    /\ UNCHANGED <<lease, st, news, dirty, age, renew>>

\* A request without a timeout is not answered for a while; then it fails.
Hang(m) ==
    /\ Alive(m) /\ LeaseFault("hang") /\ at' = [at EXCEPT ![m] = "hung"]
    /\ UNCHANGED <<lease, st, news, dirty, age, renew>>
Unhang(m) ==
    /\ Alive(m) /\ at[m] = "hung" /\ at' = [at EXCEPT ![m] = "rest"]
    /\ UNCHANGED <<lease, st, news, dirty, age, renew, leaseFaults>>

\* renew_loop gives up at its deadline, onstopped_leading ends the process with code 1.
StopLeading(m) ==
    /\ st[m] = "leading" /\ at[m] # "hung" /\ renew[m] >= RenewDeadline
    /\ Exit(m, "lost") /\ UNCHANGED <<lease, news, dirty, age, renew, leaseFaults>>

\* SIGTERM stops the member, a node takes it away; the Lease keeps its name.
Leave(m) ==
    /\ Alive(m)
    /\ \/ LeaseFault("signal") /\ Exit(m, "stopped")
       \/ LeaseFault("crash") /\ Exit(m, "lost")
    /\ UNCHANGED <<lease, news, dirty, age, renew>>

\* The container starts again and follows; it knows no record.
Rejoin(m) ==
    /\ ~Alive(m) /\ Exit(m, "standby")
    /\ news' = [news EXCEPT ![m] = TRUE] /\ dirty' = [dirty EXCEPT ![m] = FALSE]
    /\ age' = [age EXCEPT ![m] = 0] /\ renew' = [renew EXCEPT ![m] = 0]
    /\ UNCHANGED <<lease, leaseFaults>>

\* Ages are counted up to the lease duration.
Older(f, m) == IF f[m] < LeaseDuration THEN f[m] + 1 ELSE f[m]

\* A retry period passes.  Requests that do not hang are answered within one, and a leader
\* past its deadline stops before the next.
LeaseTick ==
    /\ \A m \in Replicas : Alive(m) =>
          at[m] # "read" /\ ~(st[m] = "leading" /\ at[m] # "hung" /\ renew[m] >= RenewDeadline)
    /\ age' = [m \in Replicas |-> Older(age, m)]
    /\ renew' = [m \in Replicas |-> IF st[m] = "leading" THEN Older(renew, m) ELSE 0]
    /\ UNCHANGED <<lease, st, at, news, dirty, leaseFaults>>

Elect(m) == Read(m) \/ Create(m) \/ Update(m) \/ StopLeading(m)

LeaseNext ==
    \/ LeaseTick
    \/ \E m \in Replicas : Elect(m) \/ Transport(m) \/ Hang(m) \/ Unhang(m) \/ Leave(m) \/ Rejoin(m)

LeaseSpec == LeaseInit /\ [][LeaseNext]_leaseVars

----------------------------------------------------------------------------
(* Properties                                                              *)

\* Only one replica drives the loops: a leader that cannot renew is gone "before anyone else
\* can legitimately hold the Lease".
OneDriver == Cardinality({m \in Replicas : st[m] = "leading"}) <= 1

Led == \E m \in Replicas : st[m] = "leading"

=============================================================================
