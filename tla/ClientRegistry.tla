--------------------------- MODULE ClientRegistry ---------------------------
(***************************************************************************)
(* SandboxClient and AsyncSandboxClient: the registry of handles, claims   *)
(* created under generated and explicit names, adoption of an existing     *)
(* claim, re-attachment, deletion, and the cleanup at exit.  An operation  *)
(* ends a step where it waits for the API server; the tasks of one client  *)
(* interleave there.  The synchronous client is the case of one task.      *)
(* A Sandbox is identified with the uid of the claim that is bound to it.  *)
(*                                                                         *)
(* clients/python/agentic-sandbox-client/k8s_agent_sandbox:                *)
(* sandbox_client.py, async_sandbox_client.py, sandbox.py,                 *)
(* async_sandbox.py, claim_adoption.py.                                    *)
(***************************************************************************)
EXTENDS Integers, FiniteSets

CONSTANTS
    Tasks,
    Generated,   \* names a create without claim_name may draw
    Explicit,    \* names callers choose
    Ops,         \* subset of {"create", "named", "adopt", "get", "delete", "terminate", "close", "list", "exit"}
    MaxOps,      \* bound: operations
    MaxUid,      \* bound: claims ever created
    Faults,      \* subset of {"refused", "lost", "wait", "read", "delete", "cancel"}
    MaxFaults,   \* bound
    Foreign      \* names at which another program creates and deletes claims

Names == Generated \cup Explicit

VARIABLES
    claims,    \* [Names -> uid of the live claim, 0: none]
    uids,      \* claims created so far
    ours,      \* uids created by this client's requests
    registry,  \* _active_connection_sandboxes: [Names -> handle, 0: none]
    explicit,  \* _explicit_claims
    hs,        \* handles: [1..MaxOps -> [name, uid, closed, term]]
    nh,        \* handles built
    drawn,     \* generated names drawn
    loc,       \* [Tasks -> where the operation stands]
    ops,       \* operations started
    faults,    \* [Faults -> used so far]
    exited     \* the exit cleanup has run

vars == <<claims, uids, ours, registry, explicit, hs, nh, drawn, loc, ops, faults, exited>>
cluster == <<claims, uids, ours>>

Idle == [pc |-> "idle", op |-> "none", name |-> CHOOSE n \in Names : TRUE, uid |-> 0, h |-> 0, ok |-> TRUE, todo |-> {}]
NoHandle == [name |-> Idle.name, uid |-> 0, closed |-> TRUE, term |-> TRUE]

Init ==
    /\ claims = [n \in Names |-> 0] /\ uids = 0 /\ ours = {} /\ registry = [n \in Names |-> 0]
    /\ explicit = {} /\ hs = [i \in 1..MaxOps |-> NoHandle] /\ nh = 0 /\ drawn = {}
    /\ loc = [t \in Tasks |-> Idle] /\ ops = 0 /\ faults = [f \in Faults |-> 0] /\ exited = FALSE

Fault(f) == f \in Faults /\ faults[f] < MaxFaults /\ faults' = [faults EXCEPT ![f] = @ + 1]
Ends(t) == loc' = [loc EXCEPT ![t] = Idle]
Goes(t, pc) == loc' = [loc EXCEPT ![t].pc = pc]
IsActive(h) == h # 0 /\ ~hs[h].closed

\* The other program.
Other ==
    /\ \E n \in Foreign :
          \/ claims[n] = 0 /\ uids < MaxUid /\ uids' = uids + 1 /\ claims' = [claims EXCEPT ![n] = uids + 1]
          \/ claims[n] # 0 /\ claims' = [claims EXCEPT ![n] = 0] /\ UNCHANGED uids
    /\ UNCHANGED <<ours, registry, explicit, hs, nh, drawn, loc, ops, faults, exited>>

----------------------------------------------------------------------------
(* create_sandbox                                                          *)

\* A name is drawn, or the caller's name is noted as explicit.
StartCreate(t, o) ==
    /\ o \in {"create", "named", "adopt"}
    /\ \/ /\ o = "create" /\ UNCHANGED explicit
          /\ \E n \in Generated \ drawn :
                /\ drawn' = drawn \cup {n}
                /\ loc' = [loc EXCEPT ![t] = [Idle EXCEPT !.pc = "create", !.op = o, !.name = n]]
       \/ /\ o # "create" /\ UNCHANGED drawn
          /\ \E n \in Explicit :
                /\ explicit' = explicit \cup {n}
                /\ loc' = [loc EXCEPT ![t] = [Idle EXCEPT !.pc = "create", !.op = o, !.name = n]]
    /\ UNCHANGED <<registry, hs, nh>>

\* Faulty: a failed create is not rolled back.
FailsLeaving(t) == Ends(t)

\* An error, or a cancellation, inside the try block: a generated name is rolled back.
Fails(t) == IF loc[t].op = "create" THEN Goes(t, "rollback") ELSE Ends(t)

\* Faulty: the rollback also follows a conflict.
ConflictRollsBack(t) == IF loc[t].op = "adopt" THEN Goes(t, "getclaim") ELSE Fails(t)

\* 409: the name is another claim's; only adopt_existing goes on.
Conflict(t) == IF loc[t].op = "adopt" THEN Goes(t, "getclaim") ELSE Ends(t)

Put(n) ==
    /\ uids < MaxUid /\ uids' = uids + 1 /\ claims' = [claims EXCEPT ![n] = uids + 1]
    /\ ours' = ours \cup {uids + 1}

\* The create request: it may be refused, its answer may be lost, the task may be cancelled.
CreateClaim(t) ==
    LET n == loc[t].name IN
    /\ loc[t].pc = "create"
    /\ \/ /\ claims[n] # 0 /\ Conflict(t) /\ UNCHANGED <<cluster, faults>>
       \/ /\ claims[n] = 0 /\ Put(n) /\ UNCHANGED faults
          /\ loc' = [loc EXCEPT ![t].pc = "wait", ![t].uid = uids + 1]
       \/ /\ claims[n] = 0 /\ Put(n) /\ (Fault("lost") \/ Fault("cancel")) /\ Fails(t)
       \/ /\ (Fault("refused") \/ Fault("cancel")) /\ Fails(t) /\ UNCHANGED cluster
    /\ UNCHANGED <<registry, explicit, hs, nh, drawn, ops, exited>>

\* The claim to adopt: gone, unfit (pool, deletion, identity), or taken with its uid.
GetClaim(t) ==
    /\ loc[t].pc = "getclaim"
    /\ \/ /\ claims[loc[t].name] # 0 /\ UNCHANGED faults
          /\ loc' = [loc EXCEPT ![t].pc = "wait", ![t].uid = claims[loc[t].name]]
       \/ claims[loc[t].name] = 0 /\ Ends(t) /\ UNCHANGED faults
       \/ (Fault("read") \/ Fault("cancel")) /\ Ends(t)
    /\ UNCHANGED <<cluster, registry, explicit, hs, nh, drawn, ops, exited>>

\* The wait for readiness; an explicit claim is watched under its uid.
Bound(t) ==
    /\ claims[loc[t].name] # 0
    /\ loc[t].op # "create" => claims[loc[t].name] = loc[t].uid

NewHandle(n, u) ==
    /\ nh' = nh + 1
    /\ registry' = [registry EXCEPT ![n] = nh + 1]

Wait(t) ==
    LET n == loc[t].name  old == registry[n]  u == claims[n] IN
    /\ loc[t].pc = "wait"
    /\ \/ /\ Bound(t) /\ IsActive(old) /\ hs[old].uid = u /\ Ends(t) /\ UNCHANGED <<registry, hs, nh, faults>>
       \/ /\ Bound(t) /\ ~(IsActive(old) /\ hs[old].uid = u) /\ NewHandle(n, u) /\ UNCHANGED faults
          /\ hs' = [hs EXCEPT ![nh + 1] = [name |-> n, uid |-> u, closed |-> FALSE, term |-> FALSE]]
          /\ loc' = [loc EXCEPT ![t].pc = "closeprev", ![t].h = old]
       \/ ~Bound(t) /\ Fails(t) /\ UNCHANGED <<registry, hs, nh, faults>>
       \/ (Fault("wait") \/ Fault("cancel")) /\ Fails(t) /\ UNCHANGED <<registry, hs, nh>>
    /\ UNCHANGED <<cluster, explicit, drawn, ops, exited>>

Closed(h) == IF h = 0 THEN hs ELSE [hs EXCEPT ![h].closed = TRUE]

\* previous.close_connection()
ClosePrevious(t) ==
    /\ loc[t].pc = "closeprev" /\ hs' = Closed(loc[t].h) /\ Ends(t)
    /\ UNCHANGED <<cluster, registry, explicit, nh, drawn, ops, faults, exited>>

\* The rollback's DELETE, under the uid where the create was answered.
Rollback(t) ==
    LET n == loc[t].name IN
    /\ loc[t].pc = "rollback" /\ Ends(t)
    /\ \/ /\ loc[t].uid \in {0, claims[n]} /\ claims' = [claims EXCEPT ![n] = 0] /\ UNCHANGED faults
       \/ loc[t].uid \notin {0, claims[n]} /\ UNCHANGED <<claims, faults>>
       \/ Fault("delete") /\ UNCHANGED claims
    /\ UNCHANGED <<uids, ours, registry, explicit, hs, nh, drawn, ops, exited>>

----------------------------------------------------------------------------
(* get_sandbox                                                             *)

StartGet(t, o) ==
    /\ o = "get"
    /\ \E n \in drawn \cup Explicit :
          loc' = [loc EXCEPT ![t] = [Idle EXCEPT !.pc = "resolve", !.op = o, !.name = n, !.h = registry[n]]]
    /\ UNCHANGED <<registry, explicit, hs, nh, drawn>>

\* The name of the sandbox from the claim's status; a lookup that fails closes the handle.
Resolve(t) ==
    /\ loc[t].pc = "resolve"
    /\ \/ /\ claims[loc[t].name] # 0 /\ UNCHANGED faults
          /\ loc' = [loc EXCEPT ![t].pc = "getsandbox", ![t].uid = claims[loc[t].name]]
       \/ claims[loc[t].name] = 0 /\ Goes(t, "getfail") /\ UNCHANGED faults
       \/ Fault("read") /\ Goes(t, "getfail")
    /\ UNCHANGED <<cluster, registry, explicit, hs, nh, drawn, ops, exited>>

\* "close locally and stay tracked"
GetFail(t) ==
    /\ loc[t].pc = "getfail" /\ hs' = Closed(loc[t].h) /\ Ends(t)
    /\ UNCHANGED <<cluster, registry, explicit, nh, drawn, ops, faults, exited>>

\* The Sandbox object; then the handle known from before the reads, or a fresh one.
GetSandbox(t) ==
    LET n == loc[t].name  u == loc[t].uid IN
    /\ loc[t].pc = "getsandbox"
    /\ \/ /\ claims[n] = u /\ IsActive(loc[t].h) /\ UNCHANGED <<registry, hs, nh, faults>>
          /\ Goes(t, "got")
       \/ /\ claims[n] = u /\ ~IsActive(loc[t].h) /\ NewHandle(n, u) /\ UNCHANGED faults
          /\ hs' = [hs EXCEPT ![nh + 1] = [name |-> n, uid |-> u, closed |-> FALSE, term |-> FALSE]]
          /\ loc' = [loc EXCEPT ![t].pc = "got", ![t].h = nh + 1]
       \/ claims[n] # u /\ Goes(t, "getfail") /\ UNCHANGED <<registry, hs, nh, faults>>
       \/ Fault("read") /\ Goes(t, "getfail") /\ UNCHANGED <<registry, hs, nh>>
    /\ UNCHANGED <<cluster, explicit, drawn, ops, exited>>

\* get_sandbox returns.
Got(t) == loc[t].pc = "got" /\ Ends(t) /\ UNCHANGED <<cluster, registry, explicit, hs, nh, drawn, ops, faults, exited>>

----------------------------------------------------------------------------
(* delete_sandbox, Sandbox.terminate                                       *)

StartDelete(t, o) ==
    /\ o \in {"delete", "terminate"}
    /\ \/ /\ o = "delete"
          /\ \E n \in drawn \cup Explicit :
                loc' = [loc EXCEPT ![t] = [Idle EXCEPT !.pc = "terminate", !.op = o, !.name = n, !.h = registry[n]]]
       \/ /\ o = "terminate"
          /\ \E h \in 1..nh :
                loc' = [loc EXCEPT ![t] = [Idle EXCEPT !.pc = "terminate", !.op = o, !.name = hs[h].name, !.h = h]]
    /\ UNCHANGED <<registry, explicit, hs, nh, drawn>>

\* Where an operation goes on after a deletion: the exit loop takes the next claim.
AfterDelete(t) == IF loc[t].op = "exit" THEN [loc[t] EXCEPT !.pc = "exit"] ELSE Idle

\* terminate(): the connection closes; a handle whose claim is deleted stops there.
Terminate(t) ==
    LET h == loc[t].h IN
    /\ loc[t].pc = "terminate" /\ hs' = Closed(h)
    /\ IF h # 0 /\ hs[h].term
       THEN /\ registry' = IF loc[t].op = "terminate" THEN registry ELSE [registry EXCEPT ![loc[t].name] = 0]
            /\ loc' = [loc EXCEPT ![t] = AfterDelete(t)]
       ELSE Goes(t, "send") /\ UNCHANGED registry
    /\ UNCHANGED <<cluster, explicit, nh, drawn, ops, faults, exited>>

\* The DELETE by name; 404 is a success.
SendDelete(t) ==
    /\ loc[t].pc = "send"
    /\ \/ /\ claims' = [claims EXCEPT ![loc[t].name] = 0] /\ UNCHANGED faults
          /\ loc' = [loc EXCEPT ![t].pc = "sent", ![t].ok = TRUE]
       \/ Fault("delete") /\ UNCHANGED claims /\ loc' = [loc EXCEPT ![t].pc = "sent", ![t].ok = FALSE]
    /\ UNCHANGED <<uids, ours, registry, explicit, hs, nh, drawn, ops, exited>>

\* _on_terminated: only this exact handle.
Untrack(h) == IF h # 0 /\ registry[hs[h].name] = h THEN [registry EXCEPT ![hs[h].name] = 0] ELSE registry

\* The answer: the hook, claim_name = None, and delete_sandbox pops the key; an error is logged.
Sent(t) ==
    LET h == loc[t].h IN
    /\ loc[t].pc = "sent"
    /\ \/ /\ loc[t].ok
          /\ registry' = IF h = 0 \/ loc[t].op = "terminate" THEN Untrack(h)
                         ELSE [registry EXCEPT ![loc[t].name] = 0]
          /\ hs' = IF h = 0 THEN hs ELSE [hs EXCEPT ![h].term = TRUE]
       \/ ~loc[t].ok /\ UNCHANGED <<registry, hs>>
    /\ loc' = [loc EXCEPT ![t] = AfterDelete(t)]
    /\ UNCHANGED <<cluster, explicit, nh, drawn, ops, faults, exited>>

----------------------------------------------------------------------------
(* The rest                                                                *)

\* A caller closes a handle: the claim stays.
StartClose(t, o) ==
    /\ o = "close" /\ \E h \in 1..nh : ~hs[h].closed /\ hs' = Closed(h)
    /\ UNCHANGED <<registry, explicit, nh, drawn, loc>>

\* list_active_sandboxes() drops the handles that are not active.
ListActive(t, o) ==
    /\ o = "list" /\ registry' = [n \in Names |-> IF IsActive(registry[n]) THEN registry[n] ELSE 0]
    /\ UNCHANGED <<explicit, hs, nh, drawn, loc>>

\* _delete_automatic_sandboxes: explicit claims are closed, the others deleted.
StartExit(t, o) ==
    LET tracked == {n \in Names : registry[n] # 0} IN
    /\ o = "exit" /\ ~exited /\ \A u \in Tasks \ {t} : loc[u].pc = "idle"
    /\ loc' = [loc EXCEPT ![t] = [Idle EXCEPT !.pc = "exit", !.op = o, !.todo = tracked \ explicit]]
    /\ hs' = [h \in DOMAIN hs |-> [hs[h] EXCEPT !.closed = @ \/ \E n \in tracked \cap explicit : registry[n] = h]]
    /\ UNCHANGED <<registry, explicit, nh, drawn>>

ExitStep(t) ==
    /\ loc[t].pc = "exit"
    /\ \/ /\ loc[t].todo = {} /\ exited' = TRUE /\ Ends(t)
       \/ /\ UNCHANGED exited
          /\ \E n \in loc[t].todo :
                loc' = [loc EXCEPT ![t] = [Idle EXCEPT !.pc = "terminate", !.op = "exit", !.name = n,
                                                       !.h = registry[n], !.todo = loc[t].todo \ {n}]]
    /\ UNCHANGED <<cluster, registry, explicit, hs, nh, drawn, ops, faults>>

\* The caller's next operation.
Begin(t) ==
    /\ loc[t].pc = "idle" /\ ops < MaxOps /\ ~exited /\ ops' = ops + 1
    /\ \A u \in Tasks : loc[u].op # "exit"
    /\ \E o \in Ops : \/ StartCreate(t, o) \/ StartGet(t, o) \/ StartDelete(t, o) \/ StartClose(t, o)
                      \/ ListActive(t, o) \/ StartExit(t, o)
    /\ UNCHANGED <<cluster, faults, exited>>

Step(t) ==
    \/ CreateClaim(t) \/ GetClaim(t) \/ Wait(t) \/ ClosePrevious(t) \/ Rollback(t)
    \/ Resolve(t) \/ GetFail(t) \/ GetSandbox(t) \/ Got(t)
    \/ Terminate(t) \/ SendDelete(t) \/ Sent(t) \/ ExitStep(t)

Next == Other \/ \E t \in Tasks : Begin(t) \/ Step(t)
Spec == Init /\ [][Next]_vars

----------------------------------------------------------------------------
(* Properties                                                              *)

Busy(n) == \E t \in Tasks : loc[t].pc # "idle" /\ (loc[t].name = n \/ n \in loc[t].todo)

\* A claim this client created under a generated name is tracked, in the hands of a running
\* operation, or left by a DELETE that failed: "cleanup only reaches tracked handles".
NoOrphan ==
    \A n \in Generated :
        claims[n] \in ours /\ ~Busy(n) =>
            registry[n] # 0 \/ ("delete" \in Faults /\ faults["delete"] > 0)

\* The cleanup at exit leaves none of the client's generated claims, except where a DELETE failed.
ExitLeavesNothing ==
    exited => \A n \in Generated : claims[n] \in ours => "delete" \in Faults /\ faults["delete"] > 0

\* The cleanup at exit deletes no explicitly named claim ("remain caller-owned and are excluded
\* from automatic cleanup").
ExplicitSurvives ==
    \A t \in Tasks : loc[t].op = "exit" /\ loc'[t] # loc[t] => \A n \in explicit : claims'[n] = claims[n]

\* Only a deletion somebody asked for removes another program's claim: a rollback never does.
RollbackSparesOthers ==
    \A t \in Tasks : loc[t].pc = "rollback" /\ loc'[t].pc = "idle" =>
       \A n \in Names : claims[n] \notin ours => claims'[n] = claims[n]

\* create_sandbox under an explicit name hands out a sandbox of the claim it validated.
PinnedHandle ==
    \A t \in Tasks : loc[t].pc = "wait" /\ loc'[t].pc = "closeprev" /\ loc[t].op # "create" =>
       hs'[nh'].uid = loc[t].uid

=============================================================================
