---------------------------- MODULE FleetClaims ----------------------------
(***************************************************************************)
(* SandboxFleet: the claims of one run on one cluster.  Worker threads     *)
(* acquire, release, suspend and resume sandboxes; a watchdog thread per   *)
(* claim deletes a claim whose pod will not start; the circuit breaker and *)
(* the main thread tear the fleet down, and setup() starts a new cycle.    *)
(* Images are planned ones: the pools exist.                               *)
(*                                                                         *)
(* examples/agent-sandbox-rl/agent_sandbox_rl/fleet.py, failfast.py,       *)
(* handles.py, cluster.py.                                                 *)
(***************************************************************************)
EXTENDS Integers, FiniteSets, FiniteSetsExt

CONSTANTS
    Workers,    \* threads of the caller
    Main,       \* the thread that runs setup(), teardown() and verify_teardown()
    Breaker,    \* the overcommit_guard thread
    Claims,     \* claim names; uuid4, so each is used once
    NoClaim,
    MaxLive,    \* config.max_live_sandboxes
    TripPolls,  \* config.breaker_trip_polls
    MaxCycles,  \* bound on setup() calls
    Faults,     \* which calls may fail: "create", "delete", "list", "late"
    Quiet       \* setup() is called only when no worker is in a call

VARIABLES
    api,         \* the SandboxClaim object: not made, running, suspended, gone
    reserved,    \* _claims_reserved
    tracked,     \* _handles
    freed,       \* handles whose _slot_released is set
    active,      \* Cluster.active_claims
    torndown,    \* _torndown
    sweeper,     \* the thread that holds _sweep_lock
    todo,        \* what a sweep still has to release or delete
    breaches,    \* consecutive polls over the ceiling
    watchdog,    \* ClaimWatchdog of each claim
    pc, claim,   \* next step of each thread, and the claim it works on
    interrupted, \* a signal unwound a thread: only the atexit teardown is left
    cycle, born, \* history: setup() calls, and the cycle of each acquire
    refused      \* history: claims of which a delete failed

vars == <<api, reserved, tracked, freed, active, torndown, sweeper, todo, breaches,
          watchdog, pc, claim, interrupted, cycle, born, refused>>
slots == <<reserved, tracked, freed, active>>
sweep == <<torndown, sweeper, todo, breaches>>
history == <<interrupted, cycle, born, refused>>

Threads == Workers \cup {Main, Breaker}

Init ==
    /\ api = [c \in Claims |-> "none"]
    /\ reserved = 0 /\ tracked = {} /\ freed = {} /\ active = 0
    /\ torndown = FALSE /\ sweeper = {} /\ todo = {} /\ breaches = 0
    /\ watchdog = [c \in Claims |-> "off"]
    /\ pc = [t \in Threads |-> "idle"]
    /\ claim = [t \in Threads |-> NoClaim]
    /\ interrupted = FALSE /\ cycle = 0 /\ born = [c \in Claims |-> 0]
    /\ refused = {}

Goto(t, step) == pc' = [pc EXCEPT ![t] = step]
Minus(n) == IF n = 0 THEN 0 ELSE n - 1

-----------------------------------------------------------------------------
(* acquire()                                                               *)

\* One slot is reserved before anything remote happens; the watchdog starts.
Acquire(w) ==
    /\ pc[w] = "idle" /\ reserved < MaxLive /\ ~interrupted
    /\ \E c \in Claims :
          /\ api[c] = "none" /\ watchdog[c] = "off"
          /\ claim' = [claim EXCEPT ![w] = c]
          /\ watchdog' = [watchdog EXCEPT ![c] = "on"]
          /\ born' = [born EXCEPT ![c] = cycle]
    /\ reserved' = reserved + 1
    /\ Goto(w, "create")
    /\ UNCHANGED <<api, tracked, freed, active, sweep, interrupted, cycle, refused>>

\* create_sandbox: the claim object is written, or the request fails.
CreateClaim(w) ==
    /\ pc[w] = "create"
    /\ \/ /\ api' = [api EXCEPT ![claim[w]] = "running"]
          /\ Goto(w, "wait")
       \/ /\ "create" \in Faults
          /\ Goto(w, "rollback")
          /\ UNCHANGED api
    /\ UNCHANGED <<slots, sweep, watchdog, claim, history>>

\* create_sandbox: the readiness wait ends; a deleted claim ends it at once.
WaitReady(w) ==
    /\ pc[w] = "wait"
    /\ \/ api[claim[w]] = "running" /\ Goto(w, "check")
       \/ (api[claim[w]] = "gone" \/ "create" \in Faults) /\ Goto(w, "rollback")
    /\ UNCHANGED <<api, slots, sweep, watchdog, claim, history>>

\* ClaimWatchdog.run: under the decision lock, unless stop() came first.
Verdict(c) ==
    /\ watchdog[c] = "on" /\ api[c] \in {"running", "gone"}
    /\ \/ /\ watchdog' = [watchdog EXCEPT ![c] = "deleted"]
          /\ api' = [api EXCEPT ![c] = "gone"]
       \/ /\ "delete" \in Faults
          /\ watchdog' = [watchdog EXCEPT ![c] = "verdict"]
          /\ UNCHANGED api
    /\ UNCHANGED <<slots, sweep, pc, claim, history>>

Stopped(c) == IF watchdog[c] = "on" THEN [watchdog EXCEPT ![c] = "stopped"] ELSE watchdog

\* Faulty: a verdict the watchdog committed before stop() is not looked at.
CheckVerdictIgnored(w) ==
    /\ pc[w] = "check"
    /\ watchdog' = Stopped(claim[w])
    /\ Goto(w, "register")
    /\ UNCHANGED <<api, slots, sweep, claim, history>>

\* stop() on the success path: a committed verdict wins over the handle.
CheckVerdict(w) ==
    /\ pc[w] = "check"
    /\ watchdog' = Stopped(claim[w])
    /\ \/ watchdog[claim[w]] = "on" /\ Goto(w, "register")
       \/ (watchdog[claim[w]] # "on" \/ "create" \in Faults) /\ Goto(w, "terminate")
    /\ UNCHANGED <<api, slots, sweep, claim, history>>

\* A delete of the claim succeeds, or fails and is logged.
DeleteLogged(c) ==
    \/ api' = [api EXCEPT ![c] = IF @ = "none" THEN "none" ELSE "gone"] /\ UNCHANGED refused
    \/ "delete" \in Faults /\ refused' = refused \cup {c} /\ UNCHANGED api

\* The except path without a handle: the claim goes unless the watchdog's delete
\* is confirmed.
Rollback(w) ==
    /\ pc[w] = "rollback"
    /\ watchdog' = Stopped(claim[w])
    /\ IF watchdog[claim[w]] = "deleted"
       THEN UNCHANGED <<api, refused>>
       ELSE DeleteLogged(claim[w])
    /\ Goto(w, "giveback")
    /\ UNCHANGED <<slots, sweep, claim, interrupted, cycle, born>>

\* The paths with a handle that is not handed out: sandbox.terminate().
Terminate(w) ==
    /\ pc[w] = "terminate"
    /\ DeleteLogged(claim[w])
    /\ Goto(w, "giveback")
    /\ UNCHANGED <<slots, sweep, watchdog, claim, interrupted, cycle, born>>

GiveBack(w) ==
    /\ pc[w] = "giveback"
    /\ reserved' = Minus(reserved)
    /\ Goto(w, "idle")
    /\ UNCHANGED <<api, tracked, freed, active, sweep, watchdog, claim, history>>

\* Under _lock: a fleet torn down meanwhile gets no new handle.
Register(w) ==
    /\ pc[w] = "register"
    /\ IF torndown
       THEN Goto(w, "terminate") /\ UNCHANGED tracked
       ELSE Goto(w, "count") /\ tracked' = tracked \cup {claim[w]}
    /\ UNCHANGED <<api, reserved, freed, active, sweep, watchdog, claim, history>>

Count(w) ==
    /\ pc[w] = "count"
    /\ active' = active + 1
    /\ Goto(w, "idle")
    /\ UNCHANGED <<api, reserved, tracked, freed, sweep, watchdog, claim, history>>

\* A signal unwinds acquire() with a BaseException, which no handler catches.
Interrupt(w) ==
    /\ pc[w] \in {"create", "wait", "check"} /\ ~torndown /\ cycle = MaxCycles
    /\ interrupted' = TRUE
    /\ Goto(w, "idle")
    /\ UNCHANGED <<api, slots, sweep, watchdog, claim, cycle, born, refused>>

-----------------------------------------------------------------------------
(* release(), suspend(), resume() and restore()                            *)

\* The handle is taken off the list under _lock; a second release() returns.
BeginRelease(t, c) ==
    /\ c \in tracked
    /\ tracked' = tracked \ {c}
    /\ claim' = [claim EXCEPT ![t] = c]
    /\ Goto(t, "remote")
    /\ UNCHANGED <<api, reserved, freed, active, watchdog, history>>

\* A caller does not release a handle it is suspending or resuming.
Release(w, c) ==
    /\ pc[w] = "idle"
    /\ \A v \in Workers : claim[v] # c \/ pc[v] = "idle"
    /\ BeginRelease(w, c)
    /\ UNCHANGED sweep

\* Faulty: a failed release frees the slot of a sandbox that is still live.
ReleaseFailsFreed(t) ==
    /\ "delete" \in Faults
    /\ reserved' = Minus(reserved)
    /\ tracked' = tracked \cup {claim[t]}
    /\ UNCHANGED <<api, freed, active>>
    /\ refused' = refused \cup {claim[t]}
    /\ Goto(t, "idle")

\* The remote delete failed: the handle goes back, the slot stays taken.
ReleaseFails(t) ==
    /\ "delete" \in Faults
    /\ tracked' = tracked \cup {claim[t]}
    /\ UNCHANGED <<api, reserved, freed, active>>
    /\ refused' = refused \cup {claim[t]}
    /\ Goto(t, "idle")

ReleaseRemote(t) ==
    /\ pc[t] = "remote"
    /\ \/ /\ api' = [api EXCEPT ![claim[t]] = "gone"]
          /\ Goto(t, "free")
          /\ UNCHANGED <<slots, sweeper, todo, refused>>
       \/ /\ ReleaseFails(t)
          \* release_all() has no handler: the teardown ends here.
          /\ IF sweeper = {t}
             THEN sweeper' = {} /\ todo' = {}
             ELSE UNCHANGED <<sweeper, todo>>
    /\ UNCHANGED <<torndown, breaches, watchdog, claim, interrupted, cycle, born>>

\* A suspended handle gave its slot back when it was suspended.
ReleaseSlot(t) ==
    /\ pc[t] = "free"
    /\ IF claim[t] \in freed
       THEN UNCHANGED <<reserved, active>>
       ELSE reserved' = Minus(reserved) /\ active' = Minus(active)
    /\ Goto(t, IF t \in Workers THEN "idle" ELSE "releaseall")
    /\ UNCHANGED <<api, tracked, freed, sweep, watchdog, claim, history>>

BeginSuspend(w, c) ==
    /\ pc[w] = "idle" /\ c \in tracked /\ api[c] = "running" /\ ~interrupted
    /\ \A v \in Workers : claim[v] # c \/ pc[v] = "idle"
    /\ claim' = [claim EXCEPT ![w] = c]
    /\ Goto(w, "suspend")
    /\ UNCHANGED <<api, slots, sweep, watchdog, history>>

\* handle.suspend(): the pod goes, or the call raises and the slot is kept.
Suspend(w) ==
    /\ pc[w] = "suspend"
    /\ \/ /\ api[claim[w]] = "running"
          /\ api' = [api EXCEPT ![claim[w]] = "suspended"]
          /\ Goto(w, "suspended")
       \/ (api[claim[w]] = "gone" \/ "create" \in Faults) /\ Goto(w, "idle") /\ UNCHANGED api
    /\ UNCHANGED <<slots, sweep, watchdog, claim, history>>

\* _free_slot_for_suspend
FreeSlot(w) ==
    IF claim[w] \in freed
    THEN UNCHANGED <<freed, reserved, active>>
    ELSE /\ freed' = freed \cup {claim[w]}
         /\ reserved' = Minus(reserved) /\ active' = Minus(active)

Suspended(w) ==
    /\ pc[w] = "suspended"
    /\ FreeSlot(w)
    /\ Goto(w, "idle")
    /\ UNCHANGED <<api, tracked, sweep, watchdog, claim, history>>

\* _retake_slot_for_wake: the cap is asked before the sandbox is touched.
RetakeSlot(w, c) ==
    /\ reserved < MaxLive
    /\ freed' = freed \ {c} /\ reserved' = reserved + 1 /\ active' = active + 1

BeginResume(w, c) ==
    /\ pc[w] = "idle" /\ c \in tracked \cap freed /\ ~interrupted
    /\ \A v \in Workers : claim[v] # c \/ pc[v] = "idle"
    /\ RetakeSlot(w, c)
    /\ claim' = [claim EXCEPT ![w] = c]
    /\ Goto(w, "resume")
    /\ UNCHANGED <<api, tracked, sweep, watchdog, history>>

\* handle.resume(): the pod is back, or the call raises.  A late failure, of the
\* readiness wait or of refresh(), comes after the pod is back.
Resume(w) ==
    /\ pc[w] = "resume"
    /\ \/ /\ api[claim[w]] = "suspended"
          /\ api' = [api EXCEPT ![claim[w]] = "running"]
          /\ \/ Goto(w, "idle")
             \/ "late" \in Faults /\ Goto(w, "giveup")
       \/ /\ api[claim[w]] = "gone" \/ "create" \in Faults
          /\ Goto(w, "giveup") /\ UNCHANGED api
    /\ UNCHANGED <<slots, sweep, watchdog, claim, history>>

\* "still suspended: slot goes back"
GiveUp(w) ==
    /\ pc[w] = "giveup"
    /\ FreeSlot(w)
    /\ Goto(w, "idle")
    /\ UNCHANGED <<api, tracked, sweep, watchdog, claim, history>>

-----------------------------------------------------------------------------
(* The circuit breaker, teardown(), verify_teardown() and setup()          *)

\* overcommit_guard: one poll of the pod count; a healthy one starts over.
Poll ==
    /\ pc[Breaker] = "idle" /\ ~torndown /\ breaches < TripPolls
    /\ breaches' \in {breaches + 1, 0}
    /\ UNCHANGED <<api, slots, torndown, sweeper, todo, watchdog, pc, claim, history>>

\* _teardown, under _teardown_lock and _lock: only the first pass of a cycle runs.
BeginTeardown(t) ==
    /\ torndown' = TRUE
    /\ Goto(t, "lock")

Teardown(t) ==
    /\ pc[t] = "idle" /\ ~torndown
    /\ t = Breaker => breaches = TripPolls
    /\ BeginTeardown(t)
    /\ UNCHANGED <<api, slots, sweeper, todo, breaches, watchdog, claim, history>>

\* _sweep_lock is taken; release_all() copies the list.
LockSweep(t) ==
    /\ pc[t] = "lock" /\ sweeper = {}
    /\ sweeper' = {t} /\ todo' = tracked
    /\ Goto(t, "releaseall")
    /\ UNCHANGED <<api, slots, torndown, breaches, watchdog, claim, history>>

ReleaseAll(t) ==
    /\ pc[t] = "releaseall"
    /\ \E c \in todo :
          /\ todo' = todo \ {c}
          /\ \/ BeginRelease(t, c)
             \/ c \notin tracked
                /\ UNCHANGED <<api, slots, watchdog, pc, claim, history>>
    /\ UNCHANGED <<torndown, sweeper, breaches>>

Existing == {c \in Claims : api[c] \in {"running", "suspended"}}

\* list_claims by the run's label; a list that fails is logged and empty.
ListClaims == todo' = Existing \/ ("list" \in Faults /\ todo' = {})

Sweep(t) ==
    /\ pc[t] = "releaseall" /\ todo = {}
    /\ ListClaims
    /\ Goto(t, "sweep")
    /\ UNCHANGED <<api, slots, torndown, sweeper, breaches, watchdog, claim, history>>

SweepDelete(t) ==
    /\ pc[t] = "sweep"
    /\ \E c \in todo : DeleteLogged(c) /\ todo' = todo \ {c}
    /\ UNCHANGED <<slots, torndown, sweeper, breaches, watchdog, pc, claim,
                   interrupted, cycle, born>>

\* reset_counts(), and the locks are left.
EndSweep(t) ==
    /\ pc[t] = "sweep" /\ todo = {}
    /\ sweeper' = {} /\ active' = 0
    /\ Goto(t, "idle")
    /\ UNCHANGED <<api, reserved, tracked, freed, torndown, todo, breaches, watchdog,
                   claim, history>>

\* verify_teardown: the reaper sweeps the run's label again, under the lock.
Verify ==
    /\ pc[Main] = "idle" /\ torndown /\ sweeper = {}
    /\ \E c \in Existing : DeleteLogged(c)
    /\ UNCHANGED <<slots, sweep, watchdog, pc, claim, interrupted, cycle, born>>

Setup ==
    /\ pc[Main] = "idle" /\ torndown /\ cycle < MaxCycles /\ ~interrupted
    /\ pc[Breaker] = "idle" /\ (Quiet => \A w \in Workers : pc[w] = "idle")
    /\ torndown' = FALSE /\ reserved' = 0 /\ breaches' = 0 /\ cycle' = cycle + 1
    /\ UNCHANGED <<api, tracked, freed, active, sweeper, todo, watchdog, pc, claim,
                   interrupted, born, refused>>

-----------------------------------------------------------------------------
InAcquire(w) ==
    \/ CreateClaim(w) \/ WaitReady(w) \/ CheckVerdict(w) \/ Rollback(w) \/ Terminate(w)
    \/ GiveBack(w) \/ Register(w) \/ Count(w)

InCall(w) ==
    \/ InAcquire(w) \/ ReleaseRemote(w) \/ ReleaseSlot(w)
    \/ Suspend(w) \/ Suspended(w) \/ Resume(w) \/ GiveUp(w)

InTeardown(t) ==
    \/ LockSweep(t) \/ ReleaseAll(t) \/ ReleaseRemote(t) \/ ReleaseSlot(t)
    \/ Sweep(t) \/ SweepDelete(t) \/ EndSweep(t)

Next ==
    \/ \E w \in Workers : Acquire(w) \/ InCall(w) \/ Interrupt(w)
    \/ \E w \in Workers, c \in Claims :
          Release(w, c) \/ BeginSuspend(w, c) \/ BeginResume(w, c)
    \/ \E c \in Claims : Verdict(c)
    \/ \E t \in {Main, Breaker} : Teardown(t) \/ InTeardown(t)
    \/ Poll \/ Verify \/ Setup

\* Every thread goes on with the call it is in; a watchdog, a poll, a signal and
\* the beginning of a call are nobody's duty.
Spec ==
    /\ Init /\ [][Next]_vars
    /\ \A w \in Workers : WF_vars(InCall(w))
    /\ \A t \in {Main, Breaker} : WF_vars(InTeardown(t))
-----------------------------------------------------------------------------

\* Claims between the reservation and the return of acquire().
Acquiring == {claim[w] : w \in {v \in Workers : pc[v] \in
    {"create", "wait", "check", "rollback", "terminate", "giveback", "register"}}}
Releasing == {claim[t] : t \in {u \in Threads : pc[u] \in {"remote", "free"}}}
Holders == Acquiring \cup ((tracked \cup Releasing) \ freed)

\* _claims_reserved counts the claims in flight and the handles that hold a slot,
\* as long as no teardown began: nothing is counted twice, freed twice or leaked by
\* a failed acquire(), release(), suspend() or resume().
SlotsExact == ~torndown /\ ~interrupted => reserved = Cardinality(Holders)

\* The claims that are in flight or held and have a pod never exceed
\* max_live_sandboxes, which acquire() and resume() enforce before they act.
HeldWithinCap ==
    ~torndown => Cardinality({c \in Acquiring \cup tracked \cup Releasing :
                                 api[c] = "running"}) <= MaxLive

\* A handle handed out is never one whose claim the watchdog has deleted or will
\* delete: stop() and the verdict are decided under one lock.
NoCondemnedHandle ==
    \A c \in tracked : watchdog[c] = "stopped"

\* acquire(): an append lands before the sweep's copy, or the flag is visible; so a
\* handle never comes from a cycle that was torn down before.
HandleOfThisCycle == \A c \in tracked : born[c] = cycle

=============================================================================
