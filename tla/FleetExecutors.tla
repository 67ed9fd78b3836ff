------------------------------- MODULE FleetExecutors -------------------------------
(***************************************************************************)
(* Two executors of the RL fleet: the recycling shards of run_recycled, and *)
(* the lookahead warmer that keeps the pools of the next batches warm. They *)
(* share no state; each has its own initial predicate and next-state        *)
(* relation.                                                                *)
(***************************************************************************)
EXTENDS Integers, FiniteSets, Sequences, FiniteSetsExt, SequencesExt

CONSTANTS
    Shards,
    Tasks,            \* tasks of each shard
    MaxReuses,        \* max_reuses
    Concurrency,      \* permits of sem
    ClaimConcurrency, \* permits of claim_sem
    Faults            \* "acquire", "release", "scale": the calls that may raise

CONSTANTS
    Images, Batches, Callers,
    Mixes,           \* the counts (image -> claims) a batch may have
    Cap, KeepFinished,
    MaxCalls,        \* calls that are made
    LookFaults           \* "create", "scale", "remove": the fleet's calls that may raise

VARIABLES
    pc, pos,         \* next step and task of each shard
    handle,          \* the shard's handle is set
    recyclable,      \* "unknown", "yes", "no"
    uses,
    sandbox,         \* what the shard's sandbox is like: "none", "clean", "dirty"
    active, held,    \* the reference counts of the image
    pool,            \* spec.replicas as last patched
    results          \* "unset", "done", "error"

VARIABLES
    live,        \* _live: batch -> counts
    finished,    \* _finished
    lookActive,      \* _active; 0 is an image that is not in it
    pools,       \* replicas the fleet holds
    executor,    \* number of the current executor, 0 when there is none
    closedTo,    \* executors up to this number are shut down
    queue,       \* reconciles waiting for the worker
    lookPc, mine,    \* per thread: next step, and the executor it works with
    jobs,        \* per thread: calls of its reconcile still to be made
    lock,        \* _reconcile_lock
    calls,
    asked,       \* history: images of the batches that were added and not finished
    kept,        \* history: images asked for ever since the thread changed the tables
    lookFailed,      \* history: images whose last call raised
    closing      \* history: the caller whose close was the last change, or "none"

-----------------------------------------------------------------------------
(***************************************************************************)
(* reuse_git_restore_sandbox_async: the shards of one image, each a        *)
(* coroutine that holds one sandbox and resets it between its tasks, and   *)
(* the warm pool that is kept at active - held.  A shard's tasks are       *)
(* numbered 1..Tasks; whether an image can be git-restored is decided by   *)
(* the first prime.                                                        *)
(*                                                                         *)
(* examples/agent-sandbox-rl/agent_sandbox_rl/recycle.py.                  *)
(***************************************************************************)
shardVars == <<pc, pos, handle, recyclable, uses, sandbox, active, held, pool, results>>
counts == <<active, held, pool>>

ShardInit ==
    /\ pc = [s \in Shards |-> "start"] /\ pos = [s \in Shards |-> 1]
    /\ handle = [s \in Shards |-> FALSE]
    /\ recyclable = [s \in Shards |-> "unknown"]
    /\ uses = [s \in Shards |-> 0]
    /\ sandbox = [s \in Shards |-> "none"]
    /\ active = Cardinality(Shards) /\ held = 0 /\ pool = Cardinality(Shards)
    /\ results = [s \in Shards |-> [i \in 1..Tasks |-> "unset"]]

Goto(s, step) == pc' = [pc EXCEPT ![s] = step]
Running == {s \in Shards : pc[s] \notin {"start", "done"}}

\* Groups that hold a permit of claim_sem.
Claiming == {s \in Shards : pc[s] \in {"primed", "hold"}}

\* async with sem
Start(s) ==
    /\ pc[s] = "start" /\ Cardinality(Running) < Concurrency
    /\ Goto(s, "claim")
    /\ UNCHANGED <<pos, handle, recyclable, uses, sandbox, counts, results>>

\* async with claim_sem: acquire, or an error that ends the group.
Claim(s) ==
    /\ pc[s] = "claim" /\ Cardinality(Claiming) < ClaimConcurrency
    /\ \/ /\ handle' = [handle EXCEPT ![s] = TRUE]
          /\ sandbox' = [sandbox EXCEPT ![s] = "clean"]
          /\ Goto(s, "primed")
       \/ "acquire" \in Faults /\ Goto(s, "failed") /\ UNCHANGED <<handle, sandbox>>
    /\ UNCHANGED <<pos, recyclable, uses, counts, results>>

\* The first prime decides; it never raises.
Prime(s) ==
    /\ pc[s] = "primed"
    /\ IF recyclable[s] = "unknown"
       THEN \E r \in {"yes", "no"} : recyclable' = [recyclable EXCEPT ![s] = r]
       ELSE UNCHANGED recyclable
    /\ uses' = [uses EXCEPT ![s] = 0]
    /\ Goto(s, IF recyclable'[s] = "yes" THEN "hold" ELSE "process")
    /\ UNCHANGED <<pos, handle, sandbox, counts, results>>

\* _rescale, under the image's lock: the counts are changed and the pool patched.
Rescale(s, a, h, ok, failed) ==
    /\ active' = a /\ held' = h
    /\ \/ pool' = (IF a - h < 0 THEN 0 ELSE a - h) /\ Goto(s, ok)
       \/ "scale" \in Faults /\ UNCHANGED pool /\ Goto(s, failed)

Hold(s) ==
    /\ pc[s] = "hold"
    /\ Rescale(s, active, held + 1, "process", "failed")
    /\ UNCHANGED <<pos, handle, recyclable, uses, sandbox, results>>

\* process_fn's own error is a result; the rollout leaves the sandbox dirty.
Process(s) ==
    /\ pc[s] = "process"
    /\ \E r \in {"done", "error"} : results' = [results EXCEPT ![s][pos[s]] = r]
    /\ sandbox' = [sandbox EXCEPT ![s] = "dirty"]
    /\ Goto(s, IF pos[s] = Tasks THEN "cleanup" ELSE "next")
    /\ UNCHANGED <<pos, handle, recyclable, uses, counts>>

\* A fresh claim, a planned rotation, or a reset.
AfterTask(s) ==
    /\ pc[s] = "next"
    /\ pos' = [pos EXCEPT ![s] = @ + 1]
    /\ IF recyclable[s] = "no"
       THEN Goto(s, "rotate") /\ UNCHANGED uses
       ELSE /\ uses' = [uses EXCEPT ![s] = @ + 1]
            /\ Goto(s, IF uses[s] + 1 >= MaxReuses THEN "rotate" ELSE "reset")
    /\ UNCHANGED <<handle, recyclable, sandbox, counts, results>>

\* reset() and _first_failure: what is not verified clean is quarantined, and so is
\* what is clean but too slow.
Reset(s) ==
    /\ pc[s] = "reset"
    /\ \E left \in {"clean", "dirty"} :
          /\ sandbox' = [sandbox EXCEPT ![s] = left]
          /\ \/ left = "clean" /\ Goto(s, "process")
             \/ Goto(s, "rotate")
    /\ UNCHANGED <<pos, handle, recyclable, uses, counts, results>>

\* release of a rotated, quarantined or not recyclable sandbox.
Rotate(s) ==
    /\ pc[s] = "rotate"
    /\ \/ /\ sandbox' = [sandbox EXCEPT ![s] = "none"]
          /\ IF recyclable[s] = "yes"
             THEN Goto(s, "unhold") /\ UNCHANGED handle
             ELSE Goto(s, "claim") /\ handle' = [handle EXCEPT ![s] = FALSE]
       \/ "release" \in Faults /\ Goto(s, "failed") /\ UNCHANGED <<handle, sandbox>>
    /\ UNCHANGED <<pos, recyclable, uses, counts, results>>

\* held - 1, and a warm sandbox for the next claim; handle = None comes after.
Unhold(s) ==
    /\ pc[s] = "unhold"
    /\ Rescale(s, active, held - 1, "claim", "failed")
    /\ handle' = [handle EXCEPT ![s] = pc'[s] # "claim"]
    /\ UNCHANGED <<pos, recyclable, uses, sandbox, results>>

\* The handler: the tasks not processed get the error.
Fail(s) ==
    /\ pc[s] = "failed"
    /\ results' = [results EXCEPT ![s] =
          [i \in 1..Tasks |-> IF @[i] = "unset" THEN "error" ELSE @[i]]]
    /\ Goto(s, "cleanup")
    /\ UNCHANGED <<pos, handle, recyclable, uses, sandbox, counts>>

\* finally: a handle still set is released; a failure is logged.
Cleanup(s) ==
    /\ pc[s] = "cleanup"
    /\ \/ sandbox' = [sandbox EXCEPT ![s] = "none"]
       \/ handle[s] /\ "release" \in Faults /\ UNCHANGED sandbox
    /\ Goto(s, "leave")
    /\ UNCHANGED <<pos, handle, recyclable, uses, counts, results>>

\* active - 1 whatever happened; held - 1 and the patch only if it was counted.
Leave(s) ==
    /\ pc[s] = "leave"
    /\ IF recyclable[s] = "yes"
       THEN Rescale(s, active - 1, IF handle[s] THEN held - 1 ELSE held, "done", "done")
       ELSE Goto(s, "done") /\ active' = active - 1 /\ UNCHANGED <<held, pool>>
    /\ UNCHANGED <<pos, handle, recyclable, uses, sandbox, results>>

Step(s) ==
    \/ Start(s) \/ Claim(s) \/ Prime(s) \/ Hold(s) \/ Process(s) \/ AfterTask(s)
    \/ Reset(s) \/ Rotate(s) \/ Unhold(s) \/ Fail(s) \/ Cleanup(s) \/ Leave(s)

AllDone == \A s \in Shards : pc[s] = "done"

ShardNext == \E s \in Shards : Step(s)

\* The event loop runs every coroutine that can go on; the semaphores are fair.
ShardSpec == ShardInit /\ [][ShardNext]_shardVars /\ \A s \in Shards : SF_shardVars(Step(s))
-----------------------------------------------------------------------------

\* A rollout never starts in a sandbox that is not fresh or verified clean.
NoContamination == \A s \in Shards : pc[s] = "process" => sandbox[s] = "clean"

\* When all shards are done every task has its result.
ResultsComplete ==
    AllDone => \A s \in Shards, i \in 1..Tasks : results[s][i] # "unset"

\* Shards that hold a sandbox, from the count of its claim to that of its release.
Counted == {s \in Shards :
    /\ recyclable[s] = "yes" /\ pc[s] \notin {"primed", "hold", "done"}
    /\ sandbox[s] # "none" \/ pc[s] = "unhold" \/ (pc[s] = "leave" /\ handle[s])}

\* desired = active - held: held counts the shards that hold a sandbox, and active
\* those not done, so that held + warm is the number of active shards throughout.
PoolCountsExact ==
    /\ held = Cardinality(Counted)
    /\ active = Cardinality({s \in Shards : pc[s] # "done"})

-----------------------------------------------------------------------------
(***************************************************************************)
(* LookaheadWarmer: the batches a trainer has in flight, and the reconcile *)
(* that brings the fleet's pools to what they need.  Callers run add,      *)
(* add_async, finish and close from any thread; add_async hands its        *)
(* reconcile to a single worker.                                           *)
(*                                                                         *)
(* examples/agent-sandbox-rl/agent_sandbox_rl/lookahead.py.                *)
(***************************************************************************)
Worker == "worker"
Threads == Callers \cup {Worker}
None == [i \in Images |-> 0]

tables == <<live, finished>>
exec == <<executor, closedTo, queue>>
history == <<asked, kept, lookFailed, closing>>
lookVars == <<tables, lookActive, pools, exec, lookPc, mine, jobs, lock, calls, history>>

LookInit ==
    /\ live = [b \in {} |-> None] /\ finished = <<>>
    /\ lookActive = None /\ pools = None
    /\ executor = 0 /\ closedTo = 0 /\ queue = 0
    /\ lookPc = [t \in Threads |-> "idle"] /\ mine = [t \in Threads |-> 0]
    /\ jobs = [t \in Threads |-> {}] /\ lock = "free" /\ calls = 0
    /\ asked = [b \in {} |-> None] /\ kept = [t \in Threads |-> {}] /\ lookFailed = {} /\ closing = "none"

LookGoto(t, step) == lookPc' = [lookPc EXCEPT ![t] = step]
Without(f, b) == [x \in DOMAIN f \ {b} |-> f[x]]
With(f, b, v) == [x \in DOMAIN f \cup {b} |-> IF x = b THEN v ELSE f[x]]

\* desired(): the sum over finished and live batches, capped.
Desired ==
    [i \in Images |->
       LET total == MapThenSumSet(LAMBDA b : live[b][i], DOMAIN live)
                    + FoldSeq(LAMBDA c, n : c[i] + n, 0, finished)
       IN IF total > Cap THEN Cap ELSE total]

Wanted(table) == {i \in Images : \E b \in DOMAIN table : table[b][i] > 0}

\* The history of a change of the tables by t.
Track(t, table, who) ==
    /\ asked' = table
    /\ kept' = [u \in Threads |-> (IF u = t THEN Images ELSE kept[u]) \cap Wanted(table)]
    /\ closing' = who
    /\ UNCHANGED lookFailed

---------------------------------------------------------------------------
\* The calls.

Add(c, b, mix) ==
    /\ lookPc[c] = "idle" /\ calls < MaxCalls /\ calls' = calls + 1
    /\ live' = With(live, b, mix)                       \* _register_batch
    /\ Track(c, With(asked, b, mix), "none")
    /\ LookGoto(c, "reconcile")
    /\ UNCHANGED <<finished, lookActive, pools, exec, mine, jobs, lock>>

\* Faulty: the batch is registered when the worker runs.
AddAsyncLate(c, b, mix) ==
    /\ lookPc[c] = "idle" /\ calls < MaxCalls /\ calls' = calls + 1
    /\ Track(c, With(asked, b, mix), "none")
    /\ LookGoto(c, "executor")
    /\ UNCHANGED <<tables, lookActive, pools, exec, mine, jobs, lock>>

\* add_async: the batch is registered now, the reconcile is the worker's.
AddAsync(c, b, mix) ==
    /\ lookPc[c] = "idle" /\ calls < MaxCalls /\ calls' = calls + 1
    /\ live' = With(live, b, mix)
    /\ Track(c, With(asked, b, mix), "none")
    /\ LookGoto(c, "executor")
    /\ UNCHANGED <<finished, lookActive, pools, exec, mine, jobs, lock>>

GetExecutor(c) ==
    /\ lookPc[c] = "executor"
    /\ executor' = (IF executor = 0 THEN closedTo + 1 ELSE executor)
    /\ mine' = [mine EXCEPT ![c] = executor']
    /\ LookGoto(c, "submit")
    /\ UNCHANGED <<tables, lookActive, pools, closedTo, queue, jobs, lock, calls, history>>

\* ex.submit raises on an executor that was shut down.
Submit(c) ==
    /\ lookPc[c] = "submit"
    /\ queue' = IF mine[c] > closedTo THEN queue + 1 ELSE queue
    /\ LookGoto(c, "idle")
    /\ UNCHANGED <<tables, lookActive, pools, executor, closedTo, mine, jobs, lock, calls, history>>

WorkerTakes ==
    /\ queue > 0 /\ lookPc[Worker] = "idle"
    /\ queue' = queue - 1 /\ mine' = [mine EXCEPT ![Worker] = closedTo + 1]
    /\ LookGoto(Worker, "reconcile")
    /\ UNCHANGED <<tables, lookActive, pools, executor, closedTo, jobs, lock, calls, history>>

\* finish of an unknown batch is a no-op; _finished keeps the last KeepFinished batches.
Finish(c, b) ==
    /\ lookPc[c] = "idle" /\ calls < MaxCalls /\ calls' = calls + 1
    /\ b \in DOMAIN live
    /\ live' = Without(live, b)
    /\ LET all == Append(finished, live[b])
       IN finished' = SubSeq(all, 1 + Len(all) - Min({KeepFinished, Len(all)}), Len(all))
    /\ Track(c, Without(asked, b), closing)
    /\ LookGoto(c, "reconcile")
    /\ UNCHANGED <<lookActive, pools, exec, mine, jobs, lock>>

\* close: take the executor, cancel what is queued ...
Close(c) ==
    /\ lookPc[c] = "idle" /\ calls < MaxCalls /\ calls' = calls + 1
    /\ mine' = [mine EXCEPT ![c] = executor]
    /\ executor' = 0
    /\ closedTo' = Max({closedTo, executor})
    /\ queue' = IF executor > 0 THEN 0 ELSE queue
    /\ LookGoto(c, "drain")
    /\ UNCHANGED <<tables, lookActive, pools, jobs, lock, history>>

\* ... wait for what runs on it, and clear the tables.
Drain(c) ==
    /\ lookPc[c] = "drain"
    /\ mine[c] = 0 \/ lookPc[Worker] = "idle" \/ mine[Worker] # mine[c]
    /\ live' = [b \in {} |-> None] /\ finished' = <<>>
    /\ Track(c, [b \in {} |-> None], c)
    /\ LookGoto(c, "reconcile")
    /\ UNCHANGED <<lookActive, pools, exec, mine, jobs, lock, calls>>

---------------------------------------------------------------------------
\* _reconcile.

\* Faulty: an image whose count changed is left as it is.
DiffNoScale ==
    {<<"create", i>> : i \in {i \in Images : Desired[i] > 0 /\ lookActive[i] = 0}}
    \cup {<<"remove", i>> : i \in {i \in Images : Desired[i] = 0 /\ lookActive[i] > 0}}

Diff ==
    {<<"create", i>> : i \in {i \in Images : Desired[i] > 0 /\ lookActive[i] = 0}}
    \cup {<<"scale", i>> : i \in {i \in Images : Desired[i] > 0 /\ lookActive[i] > 0
                                                   /\ lookActive[i] # Desired[i]}}
    \cup {<<"remove", i>> : i \in {i \in Images : Desired[i] = 0 /\ lookActive[i] > 0}}

\* Under _reconcile_lock: desired and active are read in one hold of _lock.
Reconcile(t) ==
    /\ lookPc[t] = "reconcile" /\ lock = "free"
    /\ lock' = t
    /\ jobs' = [jobs EXCEPT ![t] = {<<d[1], d[2], Desired[d[2]]>> : d \in Diff}]
    /\ LookGoto(t, "apply")
    /\ UNCHANGED <<tables, lookActive, pools, exec, mine, calls, history>>

\* One of the concurrent calls; what raised is not recorded, so the next reconcile
\* tries again.
Apply(t) ==
    /\ lookPc[t] = "apply"
    /\ \E j \in jobs[t] :
          /\ jobs' = [jobs EXCEPT ![t] = @ \ {j}]
          /\ \/ /\ pools' = [pools EXCEPT ![j[2]] = j[3]]
                /\ lookActive' = [lookActive EXCEPT ![j[2]] = j[3]]
                /\ lookFailed' = lookFailed \ {j[2]}
             \/ /\ j[1] \in LookFaults
                /\ lookFailed' = lookFailed \cup {j[2]} /\ UNCHANGED <<lookActive, pools>>
    /\ UNCHANGED <<tables, exec, lookPc, mine, lock, calls, asked, kept, closing>>

Reconciled(t) ==
    /\ lookPc[t] = "apply" /\ jobs[t] = {}
    /\ lock' = "free" /\ LookGoto(t, "idle")
    /\ UNCHANGED <<tables, lookActive, pools, exec, mine, jobs, calls, history>>

---------------------------------------------------------------------------
LookStep(t) == Reconcile(t) \/ Apply(t) \/ Reconciled(t)
CallerStep(c) == LookStep(c) \/ GetExecutor(c) \/ Submit(c) \/ Drain(c)
Call(c) == \/ \E b \in Batches, mix \in Mixes : Add(c, b, mix) \/ AddAsync(c, b, mix)
           \/ \E b \in Batches : Finish(c, b)
           \/ Close(c)

LookNext == \/ \E c \in Callers : Call(c) \/ CallerStep(c)
            \/ WorkerTakes \/ LookStep(Worker)

\* Threads run and the fleet's calls return; nobody has to make a call.
LookSpec == /\ LookInit /\ [][LookNext]_lookVars
            /\ \A c \in Callers : WF_lookVars(CallerStep(c))
            /\ WF_lookVars(WorkerTakes) /\ WF_lookVars(LookStep(Worker))
            /\ \A t \in Threads : SF_lookVars(Reconcile(t))

---------------------------------------------------------------------------

Quiet == queue = 0 /\ \A t \in Threads : lookPc[t] = "idle"

\* When no call is running and none is queued, every image whose last call did not fail
\* has the replicas the batches in flight and the kept ones need, whatever the order in
\* which adds, finishes and closes of several threads met the reconcile lock.
QuietIsDesired == Quiet => \A i \in Images \ lookFailed : pools[i] = Desired[i]

\* "A finish that lands before the worker runs already counts it and does not unwarm an
\* image the two batches share" (add_async): a reconcile never removes an image that a
\* batch has been asking for ever since the call of that reconcile changed the tables.
NeededNotUnwarmed ==
    \A t \in Threads, i \in Images :
       <<"remove", i, 0>> \in jobs[t] \ jobs'[t] => i \notin kept[t]

\* "Nothing is warmed again behind the final reconcile" (close): when a close has returned
\* and no batch was added since it cleared the tables, no pool is left and the worker has
\* none to make.
ClosedIsCold ==
    closing \in Callers /\ lookPc[closing] = "idle" =>
        /\ \A i \in Images \ lookFailed : pools[i] = 0
        /\ \A j \in jobs[Worker] : j[1] = "remove"

=============================================================================
