--------------------------------- MODULE TaskIntake ---------------------------------
(***************************************************************************)
(* The tasks of an RL fleet: loading, adding and planning them while other  *)
(* threads do the same, and the watchdog that gives up on a sandbox that    *)
(* will not start. They share no state; each has its own initial predicate  *)
(* and next-state relation.                                                 *)
(***************************************************************************)
EXTENDS Integers, FiniteSets, Sequences

CONSTANTS
    Images,
    Loaded,      \* the tasks of load_tasks: image -> number
    Batches,     \* the tasks an add_tasks may bring
    Adders, Planners,
    Adopt,       \* config.adopt_existing
    Served,      \* adopt mode: images with a pool in the namespace
    Faults,      \* "place": no cluster has room; "list": the pools cannot be listed
    MaxCalls

CONSTANTS
    Grace,          \* policy.grace_s; NoGrace is None
    SchedGrace,     \* policy.unschedulable_grace_s
    NoGrace,
    Delay, Poll,    \* policy.initial_delay_s, policy.poll_s
    Containers,     \* the container states a pod may show
    DogFaults,         \* "read": a poll fails; "delete": the claim delete fails
    MaxTime

VARIABLES
    tasks,     \* self.tasks: image -> number
    planned,   \* plan_ is not None
    plan,      \* plan_: image -> tasks counted; 0 is an image without an entry
    pc,
    batch,     \* per thread: the tasks it adds
    counts,    \* per thread: the image_counts its plan is made from
    calls,
    accepted,  \* history: tasks loaded, and added by calls that returned
    failed     \* history: a call raised for images all of which were served

VARIABLES
    now,
    pod,        \* [exists, bound, phase, cs, unsched]: what a poll may read
    podName,    \* the watchdog has resolved the pod's name
    first, last,  \* key -> time, None when the key is not in the dictionary
    nextPoll,
    wd,         \* "wait" | "decide" | "delete" | "done"
    judged,     \* the verdict a poll returned
    verdict, deletedClaim,    \* self.verdict, self.deleted_claim
    stopSet, decideLock,      \* _stop_evt, holder of _decide_lock
    acquirer,   \* "waiting" | "stopping" | "returned"
    claim,      \* the claim exists
    log,        \* history: [t, keys] of the pods classify_pod has seen
    answer      \* history: what stop() returned

-----------------------------------------------------------------------------
(***************************************************************************)
(* The tasks and the plan of a fleet: plan() and add_tasks(), called from  *)
(* several threads, for a fleet that sizes its own pools and for one that  *)
(* adopts pools already in the namespace.  A plan is the number of tasks   *)
(* each planned image counts; placement and sizing are in RlSizing.        *)
(*                                                                         *)
(* examples/agent-sandbox-rl/agent_sandbox_rl/fleet.py.                    *)
(***************************************************************************)
taskVars == <<tasks, planned, plan, pc, batch, counts, calls, accepted, failed>>

Threads == Adders \cup Planners
Zero == [i \in Images |-> 0]
Plus(f, g) == [i \in Images |-> f[i] + g[i]]
Minus(f, g) == [i \in Images |-> f[i] - g[i]]
Support(f) == {i \in Images : f[i] > 0}

TaskInit ==
    /\ tasks = Loaded /\ accepted = Loaded
    /\ planned = FALSE /\ plan = Zero
    /\ pc = [t \in Threads |-> "idle"]
    /\ batch = [t \in Threads |-> Zero] /\ counts = [t \in Threads |-> Zero]
    /\ calls = 0 /\ failed = FALSE

Goto(t, step) == pc' = [pc EXCEPT ![t] = step]
Called == calls < MaxCalls /\ calls' = calls + 1

---------------------------------------------------------------------------

\* add_tasks without adoption, one hold of _lock: a new image without a cluster leaves
\* tasks and plan as they were.
AddOwn(b) ==
    \/ /\ plan' = (IF planned THEN Plus(plan, b) ELSE plan)
       /\ tasks' = Plus(tasks, b) /\ accepted' = Plus(accepted, b)
    \/ /\ planned /\ "place" \in Faults /\ \E i \in Support(b) : plan[i] = 0
       /\ UNCHANGED <<plan, tasks, accepted>>

\* With adoption the tasks are appended, and the plan is rebuilt after the lock.
AddTasks(t, b) ==
    /\ pc[t] = "idle" /\ t \in Adders /\ Support(b) # {} /\ Called
    /\ IF Adopt
       THEN /\ tasks' = Plus(tasks, b)
            /\ batch' = [batch EXCEPT ![t] = b]
            /\ Goto(t, "count") /\ UNCHANGED <<plan, accepted>>
       ELSE AddOwn(b) /\ UNCHANGED <<pc, batch>>
    /\ UNCHANGED <<planned, counts, failed>>

Plan(t) ==
    /\ pc[t] = "idle" /\ t \in Planners /\ Called
    /\ Goto(t, "count")
    /\ UNCHANGED <<tasks, planned, plan, batch, counts, accepted, failed>>

\* _plan: the images are counted and placed, or an image finds no cluster.
CountOwn(t) ==
    /\ Goto(t, "write") \/ ("place" \in Faults /\ Goto(t, "undo"))
    /\ UNCHANGED failed

\* _plan_adopt: the images are counted and matched with the pools that can be listed.
CountAdopt(t) ==
    LET miss == ~(Support(tasks) \subseteq Served)
    IN  /\ \/ ~miss /\ Goto(t, "write")
           \/ (miss \/ "list" \in Faults) /\ Goto(t, "undo")
        /\ failed' = (failed \/ (t \in Adders /\ miss /\ Support(batch[t]) \subseteq Served))

Count(t) ==
    /\ pc[t] = "count"
    /\ counts' = [counts EXCEPT ![t] = tasks]
    /\ IF Adopt THEN CountAdopt(t) ELSE CountOwn(t)
    /\ UNCHANGED <<tasks, planned, plan, batch, calls, accepted>>

\* Then plan_ is replaced,
Write(t) ==
    /\ pc[t] = "write"
    /\ planned' = TRUE /\ plan' = counts[t]
    /\ accepted' = Plus(accepted, batch[t]) /\ batch' = [batch EXCEPT ![t] = Zero]
    /\ Goto(t, "idle")
    /\ UNCHANGED <<tasks, counts, calls, failed>>

\* or the append of an add_tasks is undone and the call raises.
Undo(t) ==
    /\ pc[t] = "undo"
    /\ tasks' = Minus(tasks, batch[t]) /\ batch' = [batch EXCEPT ![t] = Zero]
    /\ Goto(t, "idle")
    /\ UNCHANGED <<planned, plan, counts, calls, accepted, failed>>

TaskNext == \E t \in Threads :
               \/ \E b \in Batches : AddTasks(t, b)
               \/ Plan(t) \/ Count(t) \/ Write(t) \/ Undo(t)
TaskSpec == TaskInit /\ [][TaskNext]_taskVars

---------------------------------------------------------------------------

Quiet == \A t \in Threads : pc[t] = "idle"

\* A call of add_tasks adds its whole batch or nothing: "a NoClusterAvailableError must
\* leave both as they were, or a retry appends the batch twice" (add_tasks), and a failed
\* adoption undoes its append, whatever other calls do in between.
AddAllOrNothing == Quiet => tasks = accepted

\* When no call is running, the plan counts the tasks it plans for exactly: an entry for
\* every image with tasks, with all of them ("extend the current plan in place",
\* "Thread-safe", add_tasks).
PlanCoversTasks == Quiet /\ planned => plan = tasks

-----------------------------------------------------------------------------
(***************************************************************************)
(* The fail-fast watchdog beside one acquire: it polls the claim's pod on  *)
(* a clock, judges it with classify_pod, whose grace periods live in two   *)
(* dictionaries kept between polls, and deletes the claim on a verdict;    *)
(* acquire stops it at any moment.                                         *)
(*                                                                         *)
(* examples/agent-sandbox-rl/agent_sandbox_rl/failfast.py.                 *)
(***************************************************************************)
dogVars == <<now, pod, podName, first, last, nextPoll, wd, judged, verdict, deletedClaim,
             stopSet, decideLock, acquirer, claim, log, answer>>

None == -1
Keys == {"retryable", "Unschedulable"}
GraceOf(key) == IF key = "Unschedulable" THEN SchedGrace ELSE Grace
NoVerdict == "none"

DogInit ==
    /\ now = 0
    /\ pod = [exists |-> FALSE, bound |-> FALSE, phase |-> "Pending", cs |-> "creating",
              unsched |-> FALSE]
    /\ podName = FALSE
    /\ first = [k \in Keys |-> None] /\ last = [k \in Keys |-> None]
    /\ nextPoll = Delay /\ wd = "wait" /\ judged = NoVerdict
    /\ verdict = NoVerdict /\ deletedClaim = FALSE
    /\ stopSet = FALSE /\ decideLock = "free" /\ acquirer = "waiting"
    /\ claim = TRUE /\ log = <<>> /\ answer = NoVerdict

---------------------------------------------------------------------------
\* Time passes; at each tick the pod may look different, and be created late, evicted or
\* created again under its name.
Tick ==
    /\ now < MaxTime /\ (wd = "wait" => now < nextPoll \/ stopSet)
    /\ now' = now + 1
    /\ \E b \in BOOLEAN, e \in BOOLEAN, u \in BOOLEAN, c \in Containers, ph \in {"Pending", "Failed"} :
          /\ e \/ pod.bound => b
          /\ ~e => c = "creating" /\ ~u
          /\ u => c = "creating" /\ ph = "Pending"
          /\ ph = "Failed" => e /\ c = "creating"
          /\ pod' = [exists |-> e, bound |-> b, phase |-> ph, cs |-> c, unsched |-> u]
    /\ UNCHANGED <<podName, first, last, nextPoll, wd, judged, verdict, deletedClaim, stopSet,
                   decideLock, acquirer, claim, log, answer>>

---------------------------------------------------------------------------
\* The conditions of this pod whose grace classify_pod keeps.
PresentKeys ==
    {k \in Keys : /\ GraceOf(k) # NoGrace
                  /\ \/ k = "retryable" /\ pod.cs = "backoff"
                     \/ k = "Unschedulable" /\ pod.unsched}

\* setdefault, and the held time it gives.
Since(k) == IF first[k] = None THEN now ELSE first[k]
HeldLong(k) == k \in PresentKeys /\ now - Since(k) >= GraceOf(k)

\* classify_pod: phase, then the containers, then the conditions.
Classify ==
    CASE pod.phase = "Failed" -> "PodFailed"
      [] pod.cs = "oom" -> "OOMKilled"
      [] pod.cs = "invalid" -> "terminal"
      [] HeldLong("retryable") -> "retryable"
      [] HeldLong("Unschedulable") -> "Unschedulable"
      [] OTHER -> NoVerdict

\* A key absent from this pod is dropped after a full grace period of absence.
Dropped(k) ==
    /\ k \notin PresentKeys
    /\ GraceOf(k) = NoGrace \/ last[k] = None \/ now - last[k] >= GraceOf(k)

\* One poll: it fails, it finds no pod yet, or it judges the pod.
Check ==
    /\ wd = "wait" /\ ~stopSet /\ now >= nextPoll
    /\ \/ /\ "read" \in DogFaults
          /\ nextPoll' = now + Poll
          /\ UNCHANGED <<podName, first, last, judged, log, wd>>
       \/ /\ ~podName /\ ~pod.bound
          /\ nextPoll' = now + Poll
          /\ UNCHANGED <<podName, first, last, judged, log, wd>>
       \/ /\ podName \/ pod.bound
          /\ podName' = TRUE
          /\ IF ~pod.exists
             THEN nextPoll' = now + Poll /\ UNCHANGED <<first, last, judged, log, wd>>
             ELSE /\ first' = [k \in Keys |-> IF k \in PresentKeys THEN Since(k)
                                              ELSE IF Dropped(k) THEN None ELSE first[k]]
                  /\ last' = [k \in Keys |-> IF k \in PresentKeys THEN now
                                             ELSE IF Dropped(k) THEN None ELSE last[k]]
                  /\ log' = Append(log, [t |-> now, keys |-> PresentKeys])
                  /\ judged' = Classify
                  /\ IF judged' = NoVerdict
                     THEN nextPoll' = now + Poll /\ UNCHANGED wd
                     ELSE wd' = "decide" /\ UNCHANGED nextPoll
    /\ UNCHANGED <<now, pod, verdict, deletedClaim, stopSet, decideLock, acquirer, claim, answer>>

\* The loop ends when it finds the event set.
Ends ==
    /\ wd = "wait" /\ stopSet /\ wd' = "done"
    /\ UNCHANGED <<now, pod, podName, first, last, nextPoll, judged, verdict, deletedClaim,
                   stopSet, decideLock, acquirer, claim, log, answer>>

\* Under _decide_lock: a stop that came first owns the outcome.
Decide ==
    /\ wd = "decide" /\ decideLock = "free"
    /\ IF stopSet
       THEN wd' = "done" /\ UNCHANGED <<verdict, decideLock>>
       ELSE wd' = "delete" /\ verdict' = judged /\ decideLock' = "watchdog"
    /\ UNCHANGED <<now, pod, podName, first, last, nextPoll, judged, deletedClaim, stopSet,
                   acquirer, claim, log, answer>>

Delete ==
    /\ wd = "delete"
    /\ \/ claim' = FALSE /\ deletedClaim' = TRUE
       \/ "delete" \in DogFaults /\ UNCHANGED <<claim, deletedClaim>>
    /\ wd' = "done" /\ decideLock' = "free"
    /\ UNCHANGED <<now, pod, podName, first, last, nextPoll, judged, verdict, stopSet,
                   acquirer, log, answer>>

---------------------------------------------------------------------------

\* acquire's wait has ended, one way or the other: stop().
Stop ==
    /\ acquirer = "waiting" /\ decideLock = "free"
    /\ stopSet' = TRUE /\ answer' = verdict /\ acquirer' = "returned"
    /\ UNCHANGED <<now, pod, podName, first, last, nextPoll, wd, judged, verdict, deletedClaim,
                   decideLock, claim, log>>

Watchdog == Check \/ Ends \/ Decide \/ Delete
DogNext == Tick \/ Watchdog \/ Stop
DogSpec == DogInit /\ [][DogNext]_dogVars

---------------------------------------------------------------------------

\* A condition has persisted when it was seen a grace period ago and was never missing, as
\* far as the polls saw, for a full grace period since.
Persisted(k, n) ==
    \E i \in 1..n :
        /\ k \in log[i].keys /\ log[n].t - log[i].t >= GraceOf(k)
        /\ \A j \in i..n : \E m \in i..j : /\ k \in log[m].keys
                                           /\ m = j \/ log[j].t - log[m].t < GraceOf(k)

\* A claim is given up for a retryable reason or an unschedulable pod exactly when that
\* condition is there and has persisted for its grace ("retryable reasons only count once
\* they have persisted", "that must not restart the grace", classify_pod).
VerdictIsPersisted ==
    (wd = "decide" \/ (wd = "wait" /\ log # <<>>)) =>
        \A k \in Keys :
            /\ judged = k => k \in log[Len(log)].keys /\ Persisted(k, Len(log))
            /\ (k \in log[Len(log)].keys /\ Persisted(k, Len(log))) => judged # NoVerdict

\* A pod that runs is never given up: an OOM kill "counts only while the container is not
\* running again" (classify_pod).
RunningIsSpared == wd = "wait" /\ wd' = "decide" => pod.cs \notin {"running", "wasOom"}

\* Once stop() has returned no verdict, the claim stands; when it returns one, the delete
\* has been attempted ("on return either verdict is set and the claim delete has been
\* attempted, or no delete will happen", ClaimWatchdog.stop).
StopDecides ==
    acquirer = "returned" => /\ answer = NoVerdict => claim /\ wd # "delete"
                             /\ answer # NoVerdict => wd = "done"

Hopeless == pod.exists /\ pod.cs = "invalid" /\ now < MaxTime - Poll - Delay
NoLongerHopeless == wd = "done" \/ ~pod.exists \/ pod.cs # "invalid"

=============================================================================
