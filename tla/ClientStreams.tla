------------------------------- MODULE ClientStreams -------------------------------
(***************************************************************************)
(* The streams that the Python client reads: the output of a process in a   *)
(* sandbox, and the watch of a claim that becomes ready. They share no      *)
(* state; each has its own initial predicate and next-state relation.       *)
(***************************************************************************)
EXTENDS Integers, Sequences

CONSTANTS
    ProcKind,        \* "sync": a timer thread cancels the call; "async": asyncio.wait_for
    Frames,      \* subset of {"init", "zero", "out", "exit", "odd"}: what the runtime sends
    MaxFrames    \* bound

CONSTANTS
    WatchKind,        \* "ready", "resolve", "sandbox", "gateway"
    Pinned,      \* expected_uid and initial_claim are given
    Generation,  \* require_current_generation
    Conds,       \* subset of {"none", "true", "false", "terminal"}: Ready conditions written
    MaxWrites,   \* bound: versions
    MaxBreaks    \* bound: broken connections

VARIABLES
    sent,      \* frames the runtime has sent
    wire,      \* those the client has not read
    stream,    \* "open", "ended" by the runtime, "failed", "cancelled" by the client
    process,   \* the process in the sandbox: "none", "runs", "gone"
    start,     \* start(): "read", "built", "returned", "raised"
    timer,     \* "armed", "fired", "off"
    finished,  \* _finished
    iter,      \* events(): "off", "on", "ended", "error"
    out,       \* the events the caller got
    closedBy,  \* the caller closed the handle
    sig        \* what the last signal() gave

VARIABLES
    log,      \* versions: [live, uid, cond, named, current, ending]
    old,      \* versions below this one are compacted away
    rv,       \* the version the next watch starts after; 0: "0"
    pos,      \* the open stream has delivered up to here; -1: no stream
    initial,  \* the initial claim is still to be looked at
    expired,  \* the deadline has passed
    breaks,   \* connections broken
    seen,     \* the version looked at last
    result    \* "none", or how the wait ended

-----------------------------------------------------------------------------
(***************************************************************************)
(* A command started with commands.start(): the streaming call, the timer  *)
(* that bounds the wait for its first message, the handle built around it  *)
(* and what the handle makes of the messages that follow.  The runtime may *)
(* send anything; the caller may iterate, stop, iterate again, signal and  *)
(* close.                                                                  *)
(*                                                                         *)
(* clients/python/agentic-sandbox-client/k8s_agent_sandbox/commands:       *)
(* _process_handle.py, command_executor.py, async_command_executor.py.     *)
(***************************************************************************)
procVars == <<sent, wire, stream, process, start, timer, finished, iter, out, closedBy, sig>>

ProcInit ==
    /\ sent = 0 /\ wire = <<>> /\ stream = "open" /\ process = "none" /\ start = "read"
    /\ timer = "armed" /\ finished = FALSE /\ iter = "off" /\ out = <<>> /\ closedBy = FALSE
    /\ sig = "none"

----------------------------------------------------------------------------
\* The runtime sends a frame, ends the stream, or the connection breaks.
Runtime ==
    /\ stream = "open"
    /\ \/ /\ sent < MaxFrames /\ sent' = sent + 1 /\ UNCHANGED stream
          /\ \E fr \in Frames :
                /\ wire' = Append(wire, fr)
                /\ process' = CASE fr = "init" /\ process = "none" -> "runs"
                                [] fr = "exit" -> "gone"
                                [] OTHER -> process
       \/ stream' \in {"ended", "failed"} /\ UNCHANGED <<sent, wire, process>>
    /\ UNCHANGED <<start, timer, finished, iter, out, closedBy, sig>>

\* _cancel_quietly, then the error.
Raise ==
    /\ start' = "raised" /\ timer' = (IF timer = "fired" THEN "fired" ELSE "off")
    /\ stream' = IF stream = "open" THEN "cancelled" ELSE stream

\* _read_init: an Init with a process id.
ReadInit(fr) == fr = "init"

\* from_stream reads the first message; a call that failed or was cancelled raises.
FromStream ==
    /\ start = "read"
    /\ \/ /\ stream \in {"open", "ended"} /\ wire # <<>> /\ wire' = Tail(wire)
          /\ IF ReadInit(Head(wire)) THEN start' = "built" /\ UNCHANGED <<stream, timer>> ELSE Raise
       \/ /\ stream = "ended" /\ wire = <<>> /\ Raise /\ UNCHANGED wire
       \/ /\ stream \in {"failed", "cancelled"} /\ Raise /\ UNCHANGED wire
    /\ UNCHANGED <<sent, process, finished, iter, out, closedBy, sig>>

\* Faulty: the timer is made and not started.
TimeoutUnstarted == timer = "fired" /\ UNCHANGED procVars

\* The time for Init is over: the timer's thread cancels the call; wait_for cancels the wait.
Timeout ==
    /\ timer = "armed" /\ timer' = "fired"
    /\ \/ ProcKind = "sync" /\ UNCHANGED start
       \/ ProcKind = "async" /\ start = "read" /\ start' = "raised"
    /\ stream' = IF stream = "open" THEN "cancelled" ELSE stream
    /\ UNCHANGED <<sent, wire, process, finished, iter, out, closedBy, sig>>

\* start() cancels its timer and returns the handle.
Return ==
    /\ start = "built" /\ start' = "returned" /\ timer' = (IF timer = "armed" THEN "off" ELSE timer)
    /\ UNCHANGED <<sent, wire, stream, process, finished, iter, out, closedBy, sig>>

----------------------------------------------------------------------------
\* events(), also after an earlier iteration was left or failed.
Events ==
    /\ start = "returned" /\ iter # "on" /\ iter' = "on"
    /\ UNCHANGED <<sent, wire, stream, process, start, timer, finished, out, closedBy, sig>>

\* _to_event
ToEvent(fr) ==
    IF finished \/ fr \notin {"out", "exit"} THEN iter' = "error" /\ UNCHANGED <<out, finished>>
    ELSE out' = Append(out, fr) /\ finished' = (fr = "exit") /\ UNCHANGED iter

EndOfStream == iter' = IF finished THEN "ended" ELSE "error"

\* One step of the iteration.
NextEvent ==
    /\ iter = "on"
    /\ \/ /\ stream \in {"open", "ended"} /\ wire # <<>> /\ wire' = Tail(wire) /\ ToEvent(Head(wire))
       \/ /\ stream = "ended" /\ wire = <<>> /\ EndOfStream /\ UNCHANGED <<wire, out, finished>>
       \/ /\ stream \in {"failed", "cancelled"} /\ iter' = "error" /\ UNCHANGED <<wire, out, finished>>
    /\ UNCHANGED <<sent, stream, process, start, timer, closedBy, sig>>

\* signal(): delivered, or the process is not there any more.
Signal ==
    /\ start = "returned" /\ sig' = IF process = "runs" THEN "delivered" ELSE "lookup"
    /\ UNCHANGED <<sent, wire, stream, process, start, timer, finished, iter, out, closedBy>>

CloseHandle ==
    /\ start = "returned" /\ closedBy' = TRUE
    /\ stream' = IF ~finished /\ stream = "open" THEN "cancelled" ELSE stream
    /\ UNCHANGED <<sent, wire, process, start, timer, finished, iter, out, sig>>

Caller == FromStream \/ Return \/ NextEvent
ProcNext == Runtime \/ Timeout \/ Caller \/ Events \/ Signal \/ CloseHandle
ProcSpec == ProcInit /\ [][ProcNext]_procVars

----------------------------------------------------------------------------
(* Properties                                                              *)

\* The caller sees output, then one exit, then nothing, whatever the runtime sends and however
\* often it iterates ("an event arrived after Exit").
OneExitLast == \A i \in 1..Len(out) : out[i] = "exit" <=> finished /\ i = Len(out)

\* start() leaves no open call behind when it raises ("without this the RPC stays open until
\* garbage collection").
NoUnownedStream == start = "raised" => stream # "open"

StartEnded == start \in {"returned", "raised"}

-----------------------------------------------------------------------------
(***************************************************************************)
(* The clients' watch loops: the wait for a SandboxClaim to be bound and   *)
(* Ready, the resolution of a sandbox name, the wait for a Sandbox and for *)
(* a Gateway address.  The object's versions are a log; the API server     *)
(* serves a watch from a version, forgets old versions (410), may serve    *)
(* version "0" from a cache that lags, and drops connections.              *)
(*                                                                         *)
(* clients/python/agentic-sandbox-client/k8s_agent_sandbox:                *)
(* k8s_helper.py, async_k8s_helper.py.                                     *)
(***************************************************************************)
watchVars == <<log, old, rv, pos, initial, expired, breaks, seen, result>>

Fresh(u) == [live |-> TRUE, uid |-> u, cond |-> "none", named |-> FALSE, current |-> TRUE, ending |-> FALSE]

Versions(u) ==
    [live : {TRUE}, uid : {u}, cond : Conds, named : BOOLEAN, current : IF Generation THEN BOOLEAN ELSE {TRUE},
     ending : IF Pinned THEN BOOLEAN ELSE {FALSE}]

\* The object exists when the wait starts: just created, or found by a GET.
WatchInit ==
    /\ \E v \in {Fresh(1)} \cup (IF Pinned THEN Versions(1) ELSE {}) : log = <<v>>
    /\ old = 1 /\ pos = -1 /\ expired = FALSE /\ breaks = 0 /\ seen = 0 /\ result = "none"
    /\ rv = (IF WatchKind = "ready" THEN 1 ELSE 0)
    /\ initial = (WatchKind = "ready" /\ Pinned)

Last == log[Len(log)]

\* The controllers and users write, delete and recreate the object.
Write ==
    /\ Len(log) < MaxWrites
    /\ \/ Last.live /\ \E v \in Versions(Last.uid) : v # Last /\ (Last.ending => v.ending) /\ log' = Append(log, v)
       \/ Last.live /\ log' = Append(log, [Last EXCEPT !.live = FALSE])
       \/ ~Last.live /\ log' = Append(log, Fresh(Last.uid + 1))
    /\ UNCHANGED <<old, rv, pos, initial, expired, breaks, seen, result>>

\* The API server forgets versions.
Compact ==
    /\ old < Len(log) /\ old' = old + 1
    /\ UNCHANGED <<log, rv, pos, initial, expired, breaks, seen, result>>

\* The deadline.
Expire == ~expired /\ expired' = TRUE /\ UNCHANGED <<log, old, rv, pos, initial, breaks, seen, result>>

----------------------------------------------------------------------------
Running == result = "none"

Ready(v) == v.cond = "true" /\ (Generation => v.current)

\* What the claim loop makes of one version.
Verdict(v) ==
    CASE ~v.live -> "deleted"
      [] v.live /\ Pinned /\ v.uid # 1 -> "replaced"
      [] v.live /\ Pinned /\ v.uid = 1 /\ v.ending -> "terminating"
      [] v.live /\ ~(Pinned /\ (v.uid # 1 \/ v.ending)) /\ v.cond = "terminal" -> "failed"
      [] OTHER -> IF v.named /\ (Ready(v) \/ WatchKind = "resolve") THEN "ok" ELSE "none"

\* What the Sandbox loop makes of it.
SandboxVerdict(v) ==
    CASE ~v.live -> "deleted"
      [] v.live /\ v.cond = "true" -> "ok"
      [] OTHER -> "none"

\* What the Gateway loop makes of it: deletion is passed over, an invalid address too.
GatewayVerdict(v) == IF v.live /\ v.named /\ v.cond = "true" THEN "ok" ELSE "none"

LookAt(i) ==
    /\ seen' = i
    /\ result' = (CASE WatchKind = "sandbox" -> SandboxVerdict(log[i])
                    [] WatchKind = "gateway" -> GatewayVerdict(log[i])
                    [] OTHER -> Verdict(log[i]))

\* The last seen version, for a watch that resumes.
Keep(i) == IF WatchKind \in {"ready", "resolve"} /\ log[i].live THEN i ELSE rv

\* The initial claim is the first event of the first stream.
Initial ==
    /\ Running /\ pos = -1 /\ initial /\ ~expired /\ initial' = FALSE /\ LookAt(1) /\ rv' = Keep(1)
    /\ UNCHANGED <<log, old, pos, expired, breaks>>

\* A stream opens: after a known version, or at the state of a cache.
Open ==
    /\ Running /\ pos = -1 /\ ~initial /\ ~expired
    /\ \/ rv > 0 /\ rv >= old /\ pos' = rv /\ UNCHANGED <<rv, seen, result>>
       \/ rv > 0 /\ rv < old /\ rv' = 0 /\ UNCHANGED <<pos, seen, result>>
       \/ /\ rv = 0 /\ WatchKind \in {"resolve", "ready"}
          /\ \E i \in old..Len(log) :
                /\ pos' = i
                /\ IF log[i].live THEN LookAt(i) /\ rv' = Keep(i) ELSE UNCHANGED <<rv, seen, result>>
    /\ UNCHANGED <<log, old, initial, expired, breaks>>

\* The Sandbox and Gateway loops name no version: every stream begins with the current state.
OpenCurrent ==
    /\ Running /\ pos = -1 /\ ~expired /\ WatchKind \in {"sandbox", "gateway"} /\ pos' = Len(log)
    /\ IF Last.live THEN LookAt(Len(log)) ELSE UNCHANGED <<seen, result>>
    /\ UNCHANGED <<log, old, rv, initial, expired, breaks>>

\* The next event of the stream.
Event ==
    /\ Running /\ pos >= 0 /\ pos < Len(log) /\ pos' = pos + 1 /\ LookAt(pos + 1) /\ rv' = Keep(pos + 1)
    /\ UNCHANGED <<log, old, initial, expired, breaks>>

\* The connection breaks: the loop reconnects; the Gateway loop lets the error out.
Break ==
    /\ Running /\ pos >= 0 /\ breaks < MaxBreaks /\ breaks' = breaks + 1 /\ pos' = -1
    /\ result' = IF WatchKind = "gateway" THEN "error" ELSE result
    /\ UNCHANGED <<log, old, rv, initial, expired, seen>>

\* The stream ends with the time it was given.
StreamEnds ==
    /\ Running /\ pos >= 0 /\ expired /\ pos' = -1
    /\ UNCHANGED <<log, old, rv, initial, expired, breaks, seen, result>>

\* No time is left for another round.
Deadline ==
    /\ Running /\ pos = -1 /\ expired /\ result' = "timeout"
    /\ UNCHANGED <<log, old, rv, pos, initial, expired, breaks, seen>>

Client == Initial \/ Open \/ OpenCurrent \/ Event \/ StreamEnds \/ Deadline
WatchNext == Write \/ Compact \/ Expire \/ Client \/ Break
WatchSpec == WatchInit /\ [][WatchNext]_watchVars

----------------------------------------------------------------------------
(* Properties                                                              *)

\* The claim loop never goes back in the object's history, over broken connections, compaction and
\* a lagging cache ("so a stream restart resumes instead of replaying history").
NeverBack == (WatchKind \in {"ready", "resolve"}) => (seen' >= seen)

\* A wait that succeeds, under the uid it was given, has seen that claim, bound and Ready, of the
\* generation asked for, and no terminal failure of it before.
SuccessIsReady ==
    result = "ok" /\ WatchKind = "ready" =>
        /\ log[seen].live /\ log[seen].named /\ log[seen].cond = "true"
        /\ Pinned => log[seen].uid = 1 /\ ~log[seen].ending
        /\ Generation => log[seen].current

\* The versions that were looked at hold no terminal failure a wait went past ("waiting out the
\* timeout cannot succeed").
FailsFast == result \in {"ok", "timeout"} /\ seen > 0 => log[seen].cond # "terminal" \/ WatchKind \in {"sandbox", "gateway"}

\* The claim is there, bound and Ready, and nobody touches it any more.
Settled == Last.live /\ Last.named /\ Last.cond = "true" /\ Last.current

WaitIsOver == result # "none"

=============================================================================
