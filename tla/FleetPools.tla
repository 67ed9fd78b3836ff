---------------------------- MODULE FleetPools -----------------------------
(***************************************************************************)
(* One pool name and its template, as several fleets see them: processes   *)
(* of different runs whose image-derived names collide, or processes of    *)
(* one job that share a run id.  Every request to the API server is a step *)
(* of its own, and every write carries the precondition the code sends.    *)
(*                                                                         *)
(* examples/agent-sandbox-rl/agent_sandbox_rl/fleet.py, resources.py,      *)
(* cluster.py.                                                             *)
(***************************************************************************)
EXTENDS Integers, FiniteSets

CONSTANTS
    Procs,       \* fleets, each in a process of its own
    Run,         \* the run id of each
    Nobody,      \* no run-id label
    Shared,      \* FleetConfig.run_id is set: the id is shared on purpose
    Absent,      \* no object, no record
    MaxReplicas,
    MaxVersion,  \* bound on the resource versions handed out
    Attempts,    \* _RECONCILE_ATTEMPTS
    Leftovers,   \* objects without a label may exist at the start
    Reaps,       \* somebody else may delete the pool (the reaper, an operator)
    CallsFail    \* reads and deletes may fail

VARIABLES
    pool, tmpl,   \* the objects on the server
    version,      \* the last resource version
    warmed,       \* _warmed[image], or Absent
    ondemand,     \* the image is in _ondemand
    replicas,     \* Cluster.active_replicas
    pc, op, want, \* next step, operation and its replicas
    had,          \* what a call read or popped from _warmed
    seen, tries,  \* the object a step inspected; attempts made
    made,         \* this acquire recorded the on-demand pool
    adrift        \* history: counters the code leaves to teardown

server == <<pool, tmpl, version>>
books == <<warmed, ondemand, replicas, adrift>>
call == <<op, want, had, made>>
vars == <<server, books, call, pc, seen, tries>>

New(owner, reps, marked) ==
    [uid |-> version + 1, rv |-> version + 1, owner |-> owner, reps |-> reps,
     marked |-> marked]

Init ==
    /\ LET left == [uid |-> 0, rv |-> 0, owner |-> Nobody, reps |-> 1, marked |-> FALSE]
       IN  /\ pool \in {Absent} \cup (IF Leftovers THEN {left} ELSE {})
           /\ tmpl \in {Absent} \cup (IF Leftovers THEN {left} ELSE {})
    /\ version = 0
    /\ warmed = [p \in Procs |-> Absent] /\ ondemand = [p \in Procs |-> FALSE]
    /\ replicas = [p \in Procs |-> 0]
    /\ pc = [p \in Procs |-> "idle"] /\ op = [p \in Procs |-> "none"]
    /\ want = [p \in Procs |-> 0] /\ had = [p \in Procs |-> 0]
    /\ seen = [p \in Procs |-> Absent] /\ tries = [p \in Procs |-> 0]
    /\ made = [p \in Procs |-> FALSE] /\ adrift = [p \in Procs |-> FALSE]

Goto(p, step) == pc' = [pc EXCEPT ![p] = step]
See(p, obj) == seen' = [seen EXCEPT ![p] = obj]
Foreign(p, obj) == obj # Absent /\ obj.owner \notin {Nobody, Run[p]}
Recorded(p) == IF warmed[p] = Absent THEN 0 ELSE warmed[p]
Write == version < MaxVersion /\ version' = version + 1

\* reserve_replicas, release_replicas
AddReplicas(p, n) ==
    replicas' = [replicas EXCEPT ![p] = IF @ + n < 0 THEN 0 ELSE @ + n]

Begin(p, o, n) ==
    /\ pc[p] = "idle"
    /\ op' = [op EXCEPT ![p] = o]
    /\ want' = [want EXCEPT ![p] = n]
    /\ tries' = [tries EXCEPT ![p] = 1]
    /\ made' = [made EXCEPT ![p] = FALSE]

-----------------------------------------------------------------------------
(* ensure_template, create_warmpool and warm_shared_pool                   *)

\* _warm_entry: a pool that is recorded at the depth asked for is reused.
Warm(p, n) ==
    /\ Begin(p, "warm", n)
    /\ Recorded(p) < n
    /\ had' = [had EXCEPT ![p] = Recorded(p)]
    /\ Goto(p, "getTemplate")
    /\ UNCHANGED <<server, books, seen>>

\* set_pool_replicas: under a shared id only a pool this fleet warmed.
Scale(p, n) ==
    /\ Begin(p, "scale", n)
    /\ Shared => warmed[p] # Absent
    /\ Goto(p, "createPool")
    /\ UNCHANGED <<server, books, had, seen>>

\* _acquire_reserved for an image that is not in the plan.
AcquireOnDemand(p) ==
    /\ Begin(p, "ondemand", 1)
    /\ Goto(p, "getTemplate")
    /\ UNCHANGED <<server, books, had, seen>>

\* Faulty: every template that exists is relabelled.
GetTemplateUnowned(p) ==
    /\ pc[p] = "getTemplate"
    /\ See(p, tmpl)
    /\ \/ tmpl = Absent /\ Goto(p, "createTemplate")
       \/ /\ tmpl # Absent
          /\ Goto(p, IF tmpl.owner = Run[p] THEN "createPool" ELSE "labelTemplate")
    /\ UNCHANGED <<server, books, call, tries>>

\* An on-demand pool is built on another run's template, a warm pool is not.
GetTemplate(p) ==
    /\ pc[p] = "getTemplate"
    /\ See(p, tmpl)
    /\ \/ tmpl = Absent /\ Goto(p, "createTemplate")
       \/ Foreign(p, tmpl) /\ Goto(p, IF op[p] = "ondemand" THEN "createPool" ELSE "idle")
       \/ /\ tmpl # Absent /\ ~Foreign(p, tmpl)
          /\ Goto(p, IF tmpl.owner = Run[p] THEN "createPool" ELSE "labelTemplate")
    /\ UNCHANGED <<server, books, call, tries>>

\* _reconcile_template_labels, conditioned on the version read; of two conflicts
\* the second leaves the template as it is, and so does any other error.
LabelTemplate(p) ==
    /\ pc[p] = "labelTemplate"
    /\ \/ /\ tmpl # Absent /\ tmpl.rv = seen[p].rv
          /\ Write
          /\ tmpl' = [tmpl EXCEPT !.owner = Run[p], !.rv = version + 1]
          /\ Goto(p, "createPool")
          /\ UNCHANGED tries
       \/ /\ tmpl # Absent /\ tmpl.rv # seen[p].rv
          /\ Goto(p, IF tries[p] = 2 THEN "createPool" ELSE "getTemplate")
          /\ tries' = [tries EXCEPT ![p] = @ + 1]
          /\ UNCHANGED <<tmpl, version>>
       \/ /\ tmpl = Absent
          /\ Goto(p, "createPool")
          /\ UNCHANGED <<tmpl, version, tries>>
    /\ UNCHANGED <<pool, books, call, seen>>

CreateTemplate(p) ==
    /\ pc[p] = "createTemplate"
    /\ \/ /\ tmpl = Absent
          /\ Write
          /\ tmpl' = New(Run[p], 0, FALSE)
          /\ Goto(p, "createPool")
       \/ /\ tmpl # Absent
          /\ Goto(p, IF op[p] = "ondemand" THEN "createPool" ELSE "checkTemplate")
          /\ UNCHANGED <<tmpl, version>>
    /\ UNCHANGED <<pool, books, call, seen, tries>>

\* Created by somebody between the read and the create: the same owner check.
CheckTemplate(p) ==
    /\ pc[p] = "checkTemplate"
    /\ Goto(p, IF Foreign(p, tmpl) THEN "idle" ELSE "createPool")
    /\ UNCHANGED <<server, books, call, seen, tries>>

Mark(p) == op[p] = "ondemand" /\ Shared

\* The create; a 409 is reused by an on-demand acquire and inspected by the others.
CreatePool(p) ==
    /\ pc[p] = "createPool"
    /\ \/ /\ pool = Absent
          /\ Write
          /\ pool' = New(Run[p], want[p], Mark(p))
          /\ Goto(p, "record")
       \/ /\ pool # Absent
          /\ Goto(p, IF op[p] = "ondemand" THEN "record" ELSE "getPool")
          /\ UNCHANGED <<pool, version>>
    /\ tries' = [tries EXCEPT ![p] = 1]
    /\ UNCHANGED <<tmpl, books, call, seen>>

\* warm_shared_pool, as opposed to create_warmpool.
Sharing(p) == Shared /\ op[p] = "warm" /\ had[p] = 0

Retry(p) ==
    /\ tries' = [tries EXCEPT ![p] = @ + 1]
    /\ Goto(p, IF tries[p] < Attempts THEN "getPool" ELSE "idle")

\* Another run's pool is left alone, another process's is borrowed.
GetPool(p) ==
    /\ pc[p] = "getPool"
    /\ See(p, pool)
    /\ \/ pool = Absent /\ Goto(p, "recreatePool")
       \/ Foreign(p, pool) /\ Goto(p, "idle")
       \/ /\ pool # Absent /\ ~Foreign(p, pool)
          /\ Goto(p, IF Sharing(p) /\ ~pool.marked THEN "idle" ELSE "patchPool")
    /\ UNCHANGED <<server, books, call, tries>>

RecreatePool(p) ==
    /\ pc[p] = "recreatePool"
    /\ \/ /\ pool = Absent
          /\ Write
          /\ pool' = New(Run[p], want[p], FALSE)
          /\ Goto(p, "record")
          /\ UNCHANGED tries
       \/ pool # Absent /\ Retry(p) /\ UNCHANGED <<pool, version>>
    /\ UNCHANGED <<tmpl, books, call, seen>>

\* The patch carries the version inspected; the takeover also clears the mark.
PatchPool(p) ==
    /\ pc[p] = "patchPool"
    /\ \/ /\ pool # Absent /\ pool.rv = seen[p].rv
          /\ Write
          /\ pool' = [pool EXCEPT !.reps = want[p], !.rv = version + 1,
                                  !.marked = @ /\ ~Sharing(p)]
          /\ Goto(p, "record")
          /\ UNCHANGED tries
       \/ pool # Absent /\ pool.rv # seen[p].rv /\ Retry(p) /\ UNCHANGED <<pool, version>>
       \/ pool = Absent /\ Goto(p, "idle") /\ UNCHANGED <<pool, version, tries>>
    /\ UNCHANGED <<tmpl, books, call, seen>>

-----------------------------------------------------------------------------
(* What the fleet records                                                  *)

\* Only the difference is reserved when a pool grows.
RecordWarm(p) ==
    /\ warmed' = [warmed EXCEPT ![p] = want[p]]
    /\ AddReplicas(p, want[p] - had[p])
    /\ Goto(p, "idle")
    /\ UNCHANGED <<ondemand, adrift, made>>

\* An image that is not recorded counts as planned at full depth.
RecordScale(p) ==
    /\ warmed' = [warmed EXCEPT ![p] = want[p]]
    /\ AddReplicas(p, want[p] - (IF warmed[p] = Absent THEN MaxReplicas ELSE warmed[p]))
    /\ adrift' = [adrift EXCEPT ![p] = @ \/ warmed[p] = Absent]
    /\ Goto(p, "idle")
    /\ UNCHANGED <<ondemand, made>>

RecordOnDemand(p) ==
    /\ made' = [made EXCEPT ![p] = ~ondemand[p]]
    /\ ondemand' = [ondemand EXCEPT ![p] = TRUE]
    /\ AddReplicas(p, IF ondemand[p] THEN 0 ELSE 1)
    /\ Goto(p, "claim")
    /\ UNCHANGED <<warmed, adrift>>

Record(p) ==
    /\ pc[p] = "record"
    /\ \/ op[p] = "warm" /\ RecordWarm(p)
       \/ op[p] = "scale" /\ RecordScale(p)
       \/ op[p] = "ondemand" /\ RecordOnDemand(p)
    /\ UNCHANGED <<server, op, want, had, seen, tries>>

\* The claim on the on-demand pool; a failure undoes the pool this call recorded,
\* under a shared id only its record.
Claim(p) ==
    /\ pc[p] = "claim"
    /\ \/ Goto(p, "idle") /\ UNCHANGED <<ondemand, replicas>>
       \/ /\ made[p] /\ ~Shared
          /\ Goto(p, "undoRead") /\ UNCHANGED <<ondemand, replicas>>
       \/ /\ made[p] /\ Shared
          /\ Goto(p, "idle")
          /\ ondemand' = [ondemand EXCEPT ![p] = FALSE]
          /\ AddReplicas(p, -1)
    /\ UNCHANGED <<server, warmed, adrift, call, seen, tries>>

\* _pool_ownership: what the delete is conditioned on.
UndoRead(p) ==
    /\ pc[p] = "undoRead"
    /\ See(p, pool)
    /\ \/ Goto(p, IF pool = Absent \/ Foreign(p, pool) THEN "readTemplate" ELSE "undoDelete")
       \/ CallsFail /\ Goto(p, "forget")
    /\ UNCHANGED <<server, books, call, tries>>

\* delete_warmpool with the uid inspected; a 404 and a 409 are tolerated.
DeletePool(p) ==
    /\ pool' = IF pool # Absent /\ pool.uid = seen[p].uid THEN Absent ELSE pool
    /\ UNCHANGED <<tmpl, version>>

UndoDelete(p) ==
    /\ pc[p] = "undoDelete"
    /\ \/ DeletePool(p) /\ Goto(p, "readTemplate")
       \/ CallsFail /\ Goto(p, "forget") /\ UNCHANGED server
    /\ UNCHANGED <<books, call, seen, tries>>

Forget(p) ==
    /\ pc[p] = "forget"
    /\ ondemand' = [ondemand EXCEPT ![p] = FALSE]
    /\ AddReplicas(p, -1)
    /\ Goto(p, "idle")
    /\ UNCHANGED <<server, warmed, adrift, call, seen, tries>>

-----------------------------------------------------------------------------
(* _unwarm_entry, teardown and the others                                  *)

\* The record is popped under the lock: a second unwarm returns.
Unwarm(p) ==
    /\ Begin(p, "unwarm", 0)
    /\ warmed[p] # Absent
    /\ had' = [had EXCEPT ![p] = warmed[p]]
    /\ warmed' = [warmed EXCEPT ![p] = Absent]
    /\ Goto(p, "unwarmRead")
    /\ UNCHANGED <<server, ondemand, replicas, adrift, seen>>

Restore(p) == warmed' = [warmed EXCEPT ![p] = had[p]]

\* A read error restores the record; another run's pool is retired from it, the
\* reservation kept until teardown; a pool that is gone is released.
UnwarmRead(p) ==
    /\ pc[p] = "unwarmRead"
    /\ See(p, pool)
    /\ \/ CallsFail /\ Restore(p) /\ Goto(p, "idle") /\ UNCHANGED <<replicas, adrift>>
       \/ /\ Foreign(p, pool)
          /\ adrift' = [adrift EXCEPT ![p] = TRUE]
          /\ Goto(p, "idle") /\ UNCHANGED <<warmed, replicas>>
       \/ /\ pool = Absent
          /\ AddReplicas(p, -had[p])
          /\ Goto(p, "readTemplate") /\ UNCHANGED <<warmed, adrift>>
       \/ /\ pool # Absent /\ ~Foreign(p, pool)
          /\ Goto(p, "unwarmDelete") /\ UNCHANGED <<warmed, replicas, adrift>>
    /\ UNCHANGED <<server, ondemand, call, tries>>

\* Faulty: a delete that fails loses the record and keeps the reservation.
KeepNothing(p) == UNCHANGED warmed

\* A failed delete keeps the record, so that a retry releases exactly once.
KeepRecord(p) == Restore(p)

UnwarmDelete(p) ==
    /\ pc[p] = "unwarmDelete"
    /\ \/ DeletePool(p) /\ AddReplicas(p, -had[p]) /\ UNCHANGED warmed
       \/ CallsFail /\ KeepRecord(p) /\ UNCHANGED <<server, replicas>>
    /\ Goto(p, "readTemplate")
    /\ UNCHANGED <<ondemand, adrift, call, seen, tries>>

\* _delete_template_if_owned
ReadTemplate(p) ==
    /\ pc[p] = "readTemplate"
    /\ See(p, tmpl)
    /\ Goto(p, IF tmpl = Absent \/ Foreign(p, tmpl)
               THEN IF op[p] = "ondemand" THEN "forget" ELSE "idle"
               ELSE "deleteTemplate")
    /\ UNCHANGED <<server, books, call, tries>>

DeleteTemplate(p) ==
    /\ pc[p] = "deleteTemplate"
    /\ tmpl' = IF tmpl # Absent /\ tmpl.uid = seen[p].uid THEN Absent ELSE tmpl
    /\ Goto(p, IF op[p] = "ondemand" THEN "forget" ELSE "idle")
    /\ UNCHANGED <<pool, version, books, call, seen, tries>>

\* _teardown under an id of its own: the names with the run's label are listed ...
ListRun(p) ==
    /\ pc[p] = "idle" /\ ~Shared
    /\ op' = [op EXCEPT ![p] = "teardown"]
    /\ See(p, pool)
    /\ made' = [made EXCEPT ![p] = tmpl # Absent /\ tmpl.owner = Run[p]]
    /\ Goto(p, IF pool # Absent /\ pool.owner = Run[p] THEN "sweepPool" ELSE "sweepTemplate")
    /\ UNCHANGED <<server, books, want, had, tries>>

\* ... and deleted by name; a delete that fails is logged.
SweepPool(p) ==
    /\ pc[p] = "sweepPool"
    /\ \/ pool' = Absent
       \/ CallsFail /\ UNCHANGED pool
    /\ Goto(p, "sweepTemplate")
    /\ UNCHANGED <<tmpl, version, books, call, seen, tries>>

SweepTemplate(p) ==
    /\ pc[p] = "sweepTemplate"
    /\ \/ tmpl' = IF made[p] THEN Absent ELSE tmpl
       \/ CallsFail /\ UNCHANGED tmpl
    /\ Goto(p, "reset")
    /\ UNCHANGED <<pool, version, books, call, seen, tries>>

ResetCounts(p) ==
    /\ pc[p] = "reset"
    /\ replicas' = [replicas EXCEPT ![p] = 0]
    /\ warmed' = [warmed EXCEPT ![p] = Absent]
    /\ ondemand' = [ondemand EXCEPT ![p] = FALSE]
    /\ adrift' = [adrift EXCEPT ![p] = FALSE]
    /\ Goto(p, "idle")
    /\ UNCHANGED <<server, call, seen, tries>>

\* The controller writes the pool's status.
Status ==
    /\ pool # Absent /\ Write
    /\ pool' = [pool EXCEPT !.rv = version + 1]
    /\ UNCHANGED <<tmpl, books, call, pc, seen, tries>>

\* reap(run_id) or an operator deletes the pool.
Reap ==
    /\ Reaps /\ pool # Absent
    /\ pool' = Absent
    /\ UNCHANGED <<tmpl, version, books, call, pc, seen, tries>>

-----------------------------------------------------------------------------
Requests(p) ==
    \/ GetTemplate(p) \/ LabelTemplate(p) \/ CreateTemplate(p) \/ CheckTemplate(p)
    \/ CreatePool(p) \/ GetPool(p) \/ RecreatePool(p) \/ PatchPool(p)
    \/ Record(p) \/ Claim(p) \/ UndoRead(p) \/ UndoDelete(p) \/ Forget(p)
    \/ UnwarmRead(p) \/ UnwarmDelete(p) \/ ReadTemplate(p) \/ DeleteTemplate(p)
    \/ SweepPool(p) \/ SweepTemplate(p) \/ ResetCounts(p)

Next ==
    \/ \E p \in Procs : Requests(p) \/ AcquireOnDemand(p) \/ Unwarm(p) \/ ListRun(p)
    \/ \E p \in Procs, n \in 1..MaxReplicas : Warm(p, n)
    \/ \E p \in Procs, n \in 0..MaxReplicas : Scale(p, n)
    \/ Status \/ Reap

Spec == Init /\ [][Next]_vars
-----------------------------------------------------------------------------

\* No fleet ever writes to, resizes or deletes a pool or a template that carries
\* another run's label, whatever happens between its read and its write.
ForeignUntouched ==
    \A p \in Procs : pc'[p] # pc[p] =>
       /\ Foreign(p, pool) => pool' = pool
       /\ Foreign(p, tmpl) => tmpl' = tmpl

\* Of the processes of one job at most one has the pool in its books, so that one
\* process resizes and deletes it: a takeover has one winner, the others borrow.
OneOwner ==
    \A p, q \in Procs : Run[p] = Run[q] /\ warmed[p] # Absent /\ warmed[q] # Absent => p = q

\* Between calls active_replicas is the depth recorded plus the on-demand replica:
\* nothing is reserved or released twice.
ReplicasExact ==
    \A p \in Procs : pc[p] = "idle" /\ ~adrift[p]
        => replicas[p] = Recorded(p) + (IF ondemand[p] THEN 1 ELSE 0)

=============================================================================
