--------------------------- MODULE RunStrategies ---------------------------
(***************************************************************************)
(* fleet.run: the passes (epochs) of one call, the strategy that decides   *)
(* which images are warm when, the prefetcher of the pipelined strategy,   *)
(* the executor (a claim per task, or one sandbox reused by all tasks of   *)
(* an image) and the circuit breaker's teardown.                           *)
(*                                                                         *)
(* "naive" is one window of all images without unwarming, "none" is        *)
(* "sliding" with a window of one.  Claims are one step here; their own    *)
(* protocol is in FleetClaims, that of the pools in FleetPools.            *)
(*                                                                         *)
(* examples/agent-sandbox-rl/agent_sandbox_rl/strategies.py, the           *)
(* synchronous executor of recycle.py, and fleet.py.                       *)
(***************************************************************************)
EXTENDS Integers, FiniteSets

CONSTANTS
    NImages, Window,  \* images 1..NImages in windows of Window
    Tasks,            \* tasks of each image
    MaxReuses,
    Strategy,         \* "naive", "sliding", "pipelined"
    Reuse,            \* recycle=True with scale_on_hold
    Concurrency,
    Epochs, Calls,    \* passes of a call of run, calls of run on this fleet
    Breaker,          \* the circuit breaker may trip
    Faults            \* "plan", "warm", "acquire", "unwarm": the calls that may raise

Images == 1..NImages
\* Threads that warm images; the job that re-warms its image is named by the image.
MainThread == 0
Prefetcher == NImages + 1
Warmers == {MainThread, Prefetcher} \cup Images

\* A job of the executor: the tasks first..last of an image, run one after the other.
Jobs == IF Reuse THEN {<<i, 1, Tasks>> : i \in Images}
                 ELSE {<<i, t, t>> : i \in Images, t \in 1..Tasks}

VARIABLES
    call, epoch, k,   \* the call of run, its pass, and the window of that pass
    pc,               \* the thread that called run
    raised,           \* the exception it is unwinding
    todo,             \* per thread that warms: the images it has yet to warm
    made,             \* per thread that warms: pools created, not yet in _warmed
    werr,             \* per thread that warms: it met an error
    sweepW,           \* images of the window left to unwarm
    prefetch,         \* the future nxt: "none", "running", "ok", "failed"
    job, pos, uses,   \* per job: next step, task, rollouts of its sandbox
    recyclable,
    results,
    pools,            \* pools in the cluster
    warmed,           \* _warmed
    claims,           \* jobs that hold a sandbox
    torn,             \* _torndown
    sweep,            \* thread -> step of its _teardown
    listed            \* the pools its sweep listed

fleetVars == <<pools, warmed, claims, torn>>
mainVars == <<call, epoch, k, pc, raised, sweepW>>
warmVars == <<todo, made, werr>>
jobVars == <<job, pos, uses, recyclable, results>>
downVars == <<sweep, listed>>
vars == <<mainVars, warmVars, prefetch, jobVars, fleetVars, downVars>>

NBatches == IF Strategy = "naive" THEN 1 ELSE (NImages + Window - 1) \div Window
Batch(n) == IF Strategy = "naive" THEN Images
            ELSE {i \in Images : (i - 1) \div Window = n - 1}
JobsOf(n) == {j \in Jobs : j[1] \in Batch(n)}

Init ==
    /\ call = 1 /\ epoch = 1 /\ k = 1 /\ pc = "start" /\ raised = FALSE /\ sweepW = {}
    /\ todo = [w \in Warmers |-> {}] /\ made = [w \in Warmers |-> {}]
    /\ werr = [w \in Warmers |-> FALSE]
    /\ prefetch = "none"
    /\ job = [j \in Jobs |-> "off"] /\ pos = [j \in Jobs |-> j[2]]
    /\ uses = [j \in Jobs |-> 0] /\ recyclable = [j \in Jobs |-> "unknown"]
    /\ results = [i \in Images |-> [t \in 1..Tasks |-> "unset"]]
    /\ pools = {} /\ warmed = {} /\ claims = {} /\ torn = FALSE
    /\ sweep = [p \in {"main", "breaker"} |-> "idle"] /\ listed = [p \in {"main", "breaker"} |-> {}]

---------------------------------------------------------------------------
\* Warming a set of images concurrently.

StartWarm(w, images) ==
    /\ todo' = [todo EXCEPT ![w] = images]
    /\ made' = [made EXCEPT ![w] = {}]
    /\ werr' = [werr EXCEPT ![w] = FALSE]

\* _warm_entry up to the create: an image that is warm already is only waited for.
WarmCreate(w) ==
    \E i \in todo[w] :
        /\ \/ /\ i \in warmed /\ UNCHANGED <<pools, made, werr>>
           \/ /\ i \notin warmed
              /\ pools' = pools \cup {i}
              /\ made' = [made EXCEPT ![w] = @ \cup {i}] /\ UNCHANGED werr
           \/ /\ "warm" \in Faults
              /\ werr' = [werr EXCEPT ![w] = TRUE] /\ UNCHANGED <<pools, made>>
        /\ todo' = [todo EXCEPT ![w] = @ \ {i}]
        /\ UNCHANGED <<mainVars, prefetch, jobVars, warmed, claims, torn, downVars>>

\* The rest of _warm_entry: the pool is recorded, and may not become ready in time.
WarmRecord(w) ==
    \E i \in made[w] :
        /\ warmed' = warmed \cup {i}
        /\ made' = [made EXCEPT ![w] = @ \ {i}]
        /\ \/ UNCHANGED werr
           \/ "warm" \in Faults /\ werr' = [werr EXCEPT ![w] = TRUE]
        /\ UNCHANGED <<mainVars, todo, prefetch, jobVars, pools, claims, torn, downVars>>

\* _warm_entries waits for every entry before it raises the first error.
WarmJoined(w) == todo[w] = {} /\ made[w] = {}

---------------------------------------------------------------------------
\* The thread that called run.

\* preflight and plan; setup, which only the naive strategy calls, starts a new cycle.
Start ==
    /\ pc = "start"
    /\ torn' = (IF Strategy = "naive" THEN FALSE ELSE torn)
    /\ \/ pc' = "warm" /\ StartWarm(MainThread, Batch(1)) /\ UNCHANGED raised
       \/ /\ "plan" \in Faults
          /\ raised' = TRUE
          /\ pc' = (IF Strategy = "naive" THEN "shutdown" ELSE "unwind")
          /\ UNCHANGED warmVars
    /\ UNCHANGED <<call, epoch, k, sweepW, prefetch, jobVars, pools, warmed, claims, downVars>>

Warmed ==
    /\ pc = "warm" /\ WarmJoined(MainThread)
    /\ IF werr[MainThread] THEN raised' = TRUE /\ pc' = "shutdown"
                       ELSE pc' = "submit" /\ UNCHANGED raised
    /\ UNCHANGED <<call, epoch, k, sweepW, warmVars, prefetch, jobVars, fleetVars, downVars>>

Prefetching == Strategy = "pipelined" /\ k < NBatches

\* The next window goes to the prefetcher, this one's tasks to the executor.
Submit ==
    /\ pc = "submit"
    /\ IF Prefetching THEN prefetch' = "running" /\ StartWarm(Prefetcher, Batch(k + 1))
                      ELSE prefetch' = "none" /\ UNCHANGED warmVars
    /\ job' = [j \in Jobs |-> IF j \in JobsOf(k) THEN "queued" ELSE job[j]]
    /\ pc' = "execute"
    /\ UNCHANGED <<call, epoch, k, raised, sweepW, pos, uses, recyclable, results, fleetVars, downVars>>

Prefetched ==
    /\ prefetch = "running" /\ WarmJoined(Prefetcher)
    /\ prefetch' = (IF werr[Prefetcher] THEN "failed" ELSE "ok")
    /\ UNCHANGED <<mainVars, warmVars, jobVars, fleetVars, downVars>>

\* The executor returns when all its jobs have ended.
Executed ==
    /\ pc = "execute" /\ \A j \in JobsOf(k) : job[j] = "done"
    /\ IF Strategy = "naive" THEN pc' = "shutdown" /\ UNCHANGED sweepW
                             ELSE pc' = "unwarm" /\ sweepW' = Batch(k)
    /\ UNCHANGED <<call, epoch, k, raised, warmVars, prefetch, jobVars, fleetVars, downVars>>

\* unwarm_image: a no-op for an image that is not warm; a failed delete keeps it.
Unwarm ==
    /\ pc = "unwarm"
    /\ \/ \E i \in sweepW :
             \/ /\ sweepW' = sweepW \ {i}
                /\ warmed' = warmed \ {i}
                /\ pools' = IF i \in warmed THEN pools \ {i} ELSE pools
                /\ UNCHANGED <<pc, raised>>
             \/ /\ "unwarm" \in Faults /\ i \in warmed
                /\ raised' = TRUE /\ pc' = "shutdown" /\ UNCHANGED <<sweepW, pools, warmed>>
       \/ /\ sweepW = {} /\ pc' = "await"
          /\ UNCHANGED <<raised, sweepW, pools, warmed>>
    /\ UNCHANGED <<call, epoch, k, warmVars, prefetch, jobVars, claims, torn, downVars>>

\* nxt.result(), or warming the next window, or the end of the pass.
Advance ==
    /\ pc = "await" /\ prefetch # "running"
    /\ IF k < NBatches /\ prefetch # "failed"
       THEN /\ k' = k + 1 /\ UNCHANGED raised
            /\ IF Strategy = "pipelined" THEN pc' = "submit" /\ UNCHANGED warmVars
                                         ELSE pc' = "warm" /\ StartWarm(MainThread, Batch(k + 1))
       ELSE /\ raised' = (prefetch = "failed") /\ pc' = "shutdown"
            /\ UNCHANGED <<k, warmVars>>
    /\ UNCHANGED <<call, epoch, sweepW, prefetch, jobVars, fleetVars, downVars>>

\* The finally block: ex.shutdown(wait=True), then teardown in the last pass.
Shutdown ==
    /\ pc = "shutdown" /\ prefetch # "running"
    /\ pc' = (IF epoch = Epochs THEN "teardown" ELSE "unwind")
    /\ UNCHANGED <<call, epoch, k, raised, sweepW, warmVars, prefetch, jobVars, fleetVars, downVars>>

Fresh == /\ k' = 1 /\ prefetch' = "none"
         /\ job' = [j \in Jobs |-> "off"] /\ pos' = [j \in Jobs |-> j[2]]
         /\ uses' = [j \in Jobs |-> 0] /\ recyclable' = [j \in Jobs |-> "unknown"]
         /\ results' = [i \in Images |-> [t \in 1..Tasks |-> "unset"]]

\* Back in run: the next pass, or the teardown of a pass that failed and did not tear
\* down itself, or the end of the call.
Unwind ==
    /\ pc = "unwind"
    /\ IF epoch < Epochs
       THEN IF raised
            THEN /\ pc' = "teardown" /\ epoch' = Epochs /\ UNCHANGED <<k, prefetch, jobVars>>
            ELSE /\ pc' = "start" /\ epoch' = epoch + 1 /\ Fresh
       ELSE pc' = "returned" /\ UNCHANGED <<epoch, k, prefetch, jobVars>>
    /\ UNCHANGED <<call, raised, sweepW, warmVars, fleetVars, downVars>>

\* The caller runs the fleet again.
RunAgain ==
    /\ pc = "returned" /\ call < Calls /\ sweep["breaker"] \in {"idle", "done"}
    /\ pc' = "start" /\ call' = call + 1 /\ epoch' = 1 /\ raised' = FALSE /\ Fresh
    /\ UNCHANGED <<sweepW, warmVars, fleetVars, downVars>>

---------------------------------------------------------------------------
\* The executor's jobs.

Goto(j, step) == job' = [job EXCEPT ![j] = step]
Busy == {j \in Jobs : job[j] \notin {"off", "queued", "done"}}
jobRest == <<mainVars, prefetch, downVars>>

JobStart(j) ==
    /\ job[j] = "queued" /\ Cardinality(Busy) < Concurrency
    /\ Goto(j, "claim")
    /\ UNCHANGED <<jobRest, warmVars, pos, uses, recyclable, results, fleetVars>>

\* The pool was dropped when the sandbox was held: warm it again before the next claim.
Rewarm(j) ==
    /\ job[j] = "rewarm"
    /\ StartWarm(j[1], {j[1]}) /\ Goto(j, "rewarming")
    /\ UNCHANGED <<jobRest, pos, uses, recyclable, results, fleetVars>>

Rewarmed(j) ==
    /\ job[j] = "rewarming" /\ WarmJoined(j[1])
    /\ Goto(j, IF werr[j[1]] THEN "failed" ELSE "claim")
    /\ UNCHANGED <<jobRest, warmVars, pos, uses, recyclable, results, fleetVars>>

\* acquire: refused when the fleet is torn down; without its pool a claim is not served.
Claim(j) ==
    /\ job[j] = "claim"
    /\ \/ /\ ~torn /\ j[1] \in pools
          /\ claims' = claims \cup {j}
          /\ Goto(j, IF Reuse THEN "prime" ELSE "process")
       \/ /\ torn \/ j[1] \notin pools \/ "acquire" \in Faults
          /\ Goto(j, "failed") /\ UNCHANGED claims
    /\ UNCHANGED <<jobRest, warmVars, pos, uses, recyclable, results, pools, warmed, torn>>

\* The first prime decides whether the image can be restored; a sandbox that is held
\* needs no pool.
Prime(j) ==
    /\ job[j] = "prime"
    /\ IF recyclable[j] = "unknown"
       THEN \E r \in {"yes", "no"} : recyclable' = [recyclable EXCEPT ![j] = r]
       ELSE UNCHANGED recyclable
    /\ uses' = [uses EXCEPT ![j] = 0]
    /\ \/ /\ Goto(j, "process")
          /\ IF recyclable'[j] = "yes" /\ j[1] \in warmed
             THEN pools' = pools \ {j[1]} /\ warmed' = warmed \ {j[1]}
             ELSE UNCHANGED <<pools, warmed>>
       \/ /\ recyclable'[j] = "yes" /\ j[1] \in warmed /\ "unwarm" \in Faults
          /\ Goto(j, "failed") /\ UNCHANGED <<pools, warmed>>
    /\ UNCHANGED <<jobRest, warmVars, pos, results, claims, torn>>

\* process_fn: its error is the task's result.
Process(j) ==
    /\ job[j] = "process"
    /\ \E r \in {"done", "error"} : results' = [results EXCEPT ![j[1]][pos[j]] = r]
    /\ Goto(j, IF pos[j] = j[3] THEN "cleanup" ELSE "next")
    /\ UNCHANGED <<jobRest, warmVars, pos, uses, recyclable, fleetVars>>

\* After a task: keep the sandbox if its reset is clean, else release it for a fresh one.
AfterTask(j) ==
    /\ job[j] = "next"
    /\ pos' = [pos EXCEPT ![j] = @ + 1]
    /\ uses' = [uses EXCEPT ![j] = @ + 1]
    /\ \/ /\ recyclable[j] = "yes" /\ uses[j] + 1 < MaxReuses
          /\ Goto(j, "process") /\ UNCHANGED claims
       \/ /\ claims' = claims \ {j}
          /\ Goto(j, IF recyclable[j] = "yes" THEN "rewarm" ELSE "claim")
    /\ UNCHANGED <<jobRest, warmVars, recyclable, results, pools, warmed, torn>>

\* An infrastructure error is the result of every task the job has not processed.
JobFailed(j) ==
    /\ job[j] = "failed"
    /\ results' = [results EXCEPT ![j[1]] =
                     [t \in 1..Tasks |-> IF t \in j[2]..j[3] /\ @[t] = "unset" THEN "error" ELSE @[t]]]
    /\ Goto(j, "cleanup")
    /\ UNCHANGED <<jobRest, warmVars, pos, uses, recyclable, fleetVars>>

\* finally: release
Cleanup(j) ==
    /\ job[j] = "cleanup"
    /\ claims' = claims \ {j} /\ Goto(j, "done")
    /\ UNCHANGED <<jobRest, warmVars, pos, uses, recyclable, results, pools, warmed, torn>>

---------------------------------------------------------------------------
\* _teardown, from run and from the breaker's thread.

TeardownFlag(p) ==
    /\ sweep[p] = "idle"
    /\ IF p = "main" THEN pc = "teardown"
                     ELSE Breaker /\ pc \notin {"start", "unwind", "returned"}
    /\ IF torn THEN sweep' = [sweep EXCEPT ![p] = "done"] /\ UNCHANGED torn
               ELSE sweep' = [sweep EXCEPT ![p] = "list"] /\ torn' = TRUE
    /\ UNCHANGED <<mainVars, warmVars, prefetch, jobVars, pools, warmed, claims, listed>>

\* Under _sweep_lock: release_all, then list what carries the run's label.
TeardownList(p) ==
    /\ sweep[p] = "list"
    /\ \A q \in DOMAIN sweep : sweep[q] # "delete"
    /\ claims' = {} /\ listed' = [listed EXCEPT ![p] = pools]
    /\ sweep' = [sweep EXCEPT ![p] = "delete"]
    /\ UNCHANGED <<mainVars, warmVars, prefetch, jobVars, pools, warmed, torn>>

\* Delete what was listed and forget what was warm.
TeardownDelete(p) ==
    /\ sweep[p] = "delete"
    /\ pools' = pools \ listed[p] /\ warmed' = {}
    /\ sweep' = [sweep EXCEPT ![p] = "done"] /\ listed' = [listed EXCEPT ![p] = {}]
    /\ UNCHANGED <<mainVars, warmVars, prefetch, jobVars, claims, torn>>

TornDown ==
    /\ pc = "teardown" /\ sweep["main"] = "done"
    /\ sweep' = [sweep EXCEPT !["main"] = "idle"]
    /\ pc' = "unwind"
    /\ UNCHANGED <<call, epoch, k, raised, sweepW, warmVars, prefetch, jobVars, fleetVars, listed>>

---------------------------------------------------------------------------
Main == \/ Start \/ Warmed \/ Submit \/ Executed \/ Unwarm \/ Advance \/ Shutdown
        \/ Unwind \/ TornDown
Warming == \E w \in Warmers : WarmCreate(w) \/ WarmRecord(w)
Job(j) == \/ JobStart(j) \/ Rewarm(j) \/ Rewarmed(j) \/ Claim(j) \/ Prime(j) \/ Process(j)
          \/ AfterTask(j) \/ JobFailed(j) \/ Cleanup(j)
Teardown(p) == TeardownFlag(p) \/ TeardownList(p) \/ TeardownDelete(p)

\* The call has returned for the last time and the breaker's thread is over.
Over == /\ pc = "returned" /\ call = Calls /\ sweep["breaker"] \in {"idle", "done"}
        /\ UNCHANGED vars

Next == \/ Main \/ Warming \/ Prefetched \/ (\E j \in Jobs : Job(j))
        \/ (\E p \in {"main", "breaker"} : Teardown(p)) \/ RunAgain \/ Over

\* Threads run: calls return or raise.  The caller need not run the fleet again, and the
\* breaker need not trip, but finishes the teardown it began.
Spec == /\ Init /\ [][Next]_vars
        /\ WF_vars(Main) /\ WF_vars(Warming) /\ WF_vars(Prefetched)
        /\ \A j \in Jobs : WF_vars(Job(j))
        /\ WF_vars(Teardown("main"))
        /\ WF_vars(TeardownList("breaker") \/ TeardownDelete("breaker"))

---------------------------------------------------------------------------

\* "Footprint stays bounded at <= 2 windows": whatever fails, the pools that exist are of
\* at most two windows when pipelined, of one when sliding (strategies.py, _run_pipelined).
FootprintBounded ==
    LET windows == {n \in 1..NBatches : Batch(n) \cap pools # {}}
    IN Cardinality(windows) <= IF Strategy = "pipelined" THEN 2 ELSE 1

\* A claim is issued only when the pool of its image is there: no strategy unwarms an
\* image with tasks left, and a reused image is warmed again before it is claimed again
\* (_run_group's JIT re-warm).  Checked without faults and without the breaker.
ClaimFindsPool == \A j \in Jobs : job[j] = "claim" => j[1] \in pools

\* "It is NOT safe to warm the same image from two threads at once ... the callers never
\* do that": the main thread, the prefetcher and a job that re-warms never warm the same
\* image (fleet.py, _warm_entry).
OneWarmerPerImage ==
    \A v, w \in Warmers : v # w => (todo[v] \cup made[v]) \cap (todo[w] \cup made[w]) = {}

\* When run returns or raises, the fleet holds no claim and no pool: teardown "releases
\* all claims and deletes every resource this fleet created" (fleet.py, teardown).
NothingLeft ==
    pc = "returned" /\ sweep["breaker"] \in {"idle", "done"} => pools = {} /\ claims = {}

=============================================================================
