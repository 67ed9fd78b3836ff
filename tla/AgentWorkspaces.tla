------------------------------ MODULE AgentWorkspaces ------------------------------
(***************************************************************************)
(* Agent frameworks that hold a sandbox: the OpenHands workspace and the    *)
(* DeepAgents backend. They share no state; each has its own initial        *)
(* predicate and next-state relation.                                       *)
(***************************************************************************)
EXTENDS Integers, TLC, FiniteSets, Sequences

CONSTANTS Cleaners,     \* the threads that call cleanup()
          MaxFaults,    \* requests to delete the claim that fail
          Shutdown      \* whether the interpreter may exit before the finalizer runs

CONSTANTS Backends, Calls, MaxClaims,
          Kinds,        \* the operations the calls are
          FileStates,   \* what the file may be at first
          Overlap,      \* whether runs of the scope overlap
          Threads,      \* whether the calls of one run overlap
          MayUnbind, MayRestart

VARIABLES config,       \* the fields the caller sets
          init,         \* where the constructor is
          claim,        \* "none", "live" or "gone"
          sandbox,      \* _sandbox: whether the handle is held
          client,       \* sandbox_client: "none", "open" or "closed"
          owns,         \* _owns_client
          clean,        \* [Cleaners \cup {"init", "del"} -> where it is in cleanup]
          faults

VARIABLES deepClaim,        \* [claims -> "none", "pending", "live" or "gone"]
          root,         \* [claims -> whether its working directory is there]
          file,         \* [claims -> "missing", "directory", "denied" or "file"]
          cached,       \* [Backends -> _sandbox of the manager, 0: None]
          ready,        \* [Backends -> _root_dir_initialized]
          lastUsed,     \* [Backends -> _last_used_sandbox]
          used,         \* [Backends -> the sandboxes it sent requests to], history
          call          \* [Calls -> the call]

-----------------------------------------------------------------------------
(* One AgentSandboxWorkspace: the constructor claims a pod from the warm     *)
(* pool, derives the endpoint and waits for its health; threads that leave   *)
(* the `with` block or call cleanup() delete the claim, and so does the      *)
(* finalizer.  A request that fails may have been carried out.               *)
(*                                                                           *)
(* External: the SDK's client and sandbox handle, the cluster, and the base  *)
(* class, whose initialisation may fail too.                                 *)
handsVars == <<config, init, claim, sandbox, client, owns, clean, faults>>
Callers == Cleaners \cup {"init", "del"}

Built == init \in {"ready", "raised"}
At(t, pc) == clean' = [clean EXCEPT ![t] = pc]

-----------------------------------------------------------------------------
(* model_post_init *)

(* The two ways to a gateway exclude each other; a client is made unless one *)
(* was injected.                                                             *)
Configure ==
    /\ init = "start"
    /\ IF config.router /\ config.template THEN init' = "raised" /\ UNCHANGED <<client, owns>>
       ELSE /\ init' = "create" /\ client' = "open" /\ owns' = ~config.injected
    /\ UNCHANGED <<config, claim, sandbox, clean, faults>>

(* create_sandbox: a claim, or an exception that leaves none. *)
CreateSandbox ==
    /\ init = "create"
    /\ \/ claim' = "live" /\ sandbox' = TRUE /\ init' = "endpoint"
       \/ init' = "raised" /\ UNCHANGED <<claim, sandbox>>
    /\ UNCHANGED <<config, client, owns, clean, faults>>

(* _endpoint_url: a direct endpoint needs the pod's IP, the router none. *)
EndpointUrl ==
    /\ init = "endpoint"
    /\ \E ip \in BOOLEAN, answered \in BOOLEAN :
        init' = IF config.router \/ (answered /\ (ip \/ config.template)) THEN "health" ELSE "failed"
    /\ UNCHANGED <<config, claim, sandbox, client, owns, clean, faults>>

(* _wait_for_health: a 2xx from the claim's pod before the deadline. *)
WaitForHealth ==
    /\ init = "health" /\ init' \in {"failed"} \cup (IF claim = "live" THEN {"super"} ELSE {})
    /\ UNCHANGED <<config, claim, sandbox, client, owns, clean, faults>>

(* The except clause: the claim is given back, then the exception goes on. *)
InitFails ==
    /\ init = "failed" /\ init' = "releasing" /\ At("init", "terminate")
    /\ UNCHANGED <<config, claim, sandbox, client, owns, faults>>

InitRaises ==
    /\ init = "releasing" /\ clean["init"] = "terminated" /\ init' = "raised" /\ At("init", "done")
    /\ UNCHANGED <<config, claim, sandbox, client, owns, faults>>

(* The base class, then the version check, which only logs. *)
PostInit ==
    /\ init = "super" /\ init' \in {"version", "raised"}
    /\ UNCHANGED <<config, claim, sandbox, client, owns, clean, faults>>

LogVersionSkew ==
    /\ init = "version" /\ init' = "ready"
    /\ UNCHANGED <<config, claim, sandbox, client, owns, clean, faults>>

-----------------------------------------------------------------------------
(* __exit__, a call of cleanup(), and __del__ once nobody uses the object. *)
EnterCleanup(t) ==
    /\ t \in Cleaners /\ init = "ready" /\ clean[t] = "idle" /\ clean["del"] = "idle"
    /\ At(t, "terminate")
    /\ UNCHANGED <<config, init, claim, sandbox, client, owns, faults>>

Finalize ==
    /\ Built /\ clean["del"] = "idle" /\ \A t \in Callers \ {"del"} : clean[t] \in {"idle", "done"}
    /\ \/ At("del", "terminate")
       \/ Shutdown /\ At("del", "done")
    /\ UNCHANGED <<config, init, claim, sandbox, client, owns, faults>>

(* _terminate_sandbox: the claim is deleted, one that is gone is fine. *)
Terminate(t) ==
    /\ clean[t] = "terminate"
    /\ IF ~sandbox THEN At(t, "terminated") /\ UNCHANGED <<claim, faults>>
       ELSE \/ claim' = "gone" /\ At(t, "forget") /\ UNCHANGED faults
            \/ /\ faults < MaxFaults /\ faults' = faults + 1
               /\ claim' \in {claim, "gone"} /\ At(t, "terminated")
    /\ UNCHANGED <<config, init, sandbox, client, owns>>

(* The handle is dropped only after that. *)
Forget(t) ==
    /\ clean[t] = "forget" /\ sandbox' = FALSE /\ At(t, "terminated")
    /\ UNCHANGED <<config, init, claim, client, owns, faults>>

(* The owned client is closed once no retry needs it; close() may raise,     *)
(* which is logged.                                                          *)
CloseClient(t) ==
    /\ t /= "init" /\ clean[t] = "terminated" /\ At(t, "done")
    /\ IF ~sandbox /\ owns /\ client = "open" THEN client' = "closed" /\ owns' = FALSE
       ELSE UNCHANGED <<client, owns>>
    /\ UNCHANGED <<config, init, claim, sandbox, faults>>

-----------------------------------------------------------------------------
(* ttl_s: the controller deletes the claim. *)
Expire ==
    /\ config.ttl /\ claim = "live" /\ claim' = "gone"
    /\ UNCHANGED <<config, init, sandbox, client, owns, clean, faults>>

-----------------------------------------------------------------------------
HandsInit ==
    /\ config \in [router : BOOLEAN, template : BOOLEAN, injected : BOOLEAN, ttl : BOOLEAN]
    /\ init = "start" /\ claim = "none" /\ sandbox = FALSE /\ client = "none" /\ owns = FALSE
    /\ clean = [t \in Callers |-> "idle"] /\ faults = 0

Constructor ==
    \/ Configure \/ CreateSandbox \/ EndpointUrl \/ WaitForHealth \/ InitFails \/ InitRaises \/ PostInit
    \/ LogVersionSkew

Cleanup(t) == Terminate(t) \/ Forget(t) \/ CloseClient(t)

HandsNext ==
    \/ Constructor \/ Finalize \/ Expire
    \/ \E t \in Callers : EnterCleanup(t) \/ Cleanup(t)

(* The constructor and a cleanup go on, an object nobody uses is finalized,  *)
(* and a claim's time comes.                                                 *)
HandsSpec ==
    /\ HandsInit /\ [][HandsNext]_handsVars
    /\ WF_handsVars(Constructor) /\ WF_handsVars(Finalize) /\ WF_handsVars(Expire) /\ \A t \in Callers : WF_handsVars(Cleanup(t))

-----------------------------------------------------------------------------

(* As long as the claim is there the workspace holds its handle, so a later  *)
(* cleanup can delete it, whichever cleanups ran at the same time.           *)
HeldUntilReleased == claim = "live" => sandbox

(* A constructor that raised after the health check failed has tried to give *)
(* the claim back: without a failed request none is left behind it.          *)
FailedInitReleases ==
    (init \in {"health", "failed", "releasing"} /\ init' = "raised" /\ faults = 0) => claim /= "live"

ToBeReleased == claim = "live" /\ (config.ttl \/ \E t \in Callers \ {"del"} : clean[t] /= "idle")
Released == claim = "gone"

-----------------------------------------------------------------------------
(* The DeepAgents backend: runs of one scope share the sandbox that carries  *)
(* the scope's labels, and each backend caches the one it found or created.  *)
(* Every command or file request of a call asks the manager for the sandbox  *)
(* and makes the working directory in one it has not used before.            *)
(*                                                                           *)
(* Claims of the scope are numbered.  External: the cluster, and the one     *)
(* file the calls name.                                                      *)
deepVars == <<deepClaim, root, file, cached, ready, lastUsed, used, call>>
cluster == <<deepClaim, root, file>>
backend == <<cached, ready, lastUsed>>

Claims == 1 .. MaxClaims
Present == {n \in Claims : deepClaim[n] \in {"pending", "live"}}
Made == Cardinality({n \in Claims : deepClaim[n] /= "none"})
New == [pc |-> "new", kind |-> "none", of |-> "none", step |-> 0, box |-> 0,
        answer |-> "none"]

Goes(c, changes) == call' = [call EXCEPT ![c] = changes @@ @]
Active(c) == call[c].pc \notin {"new", "ended"}
Owner(c) == call[c].of

(* The requests of a call, in order. *)
Requests == [execute |-> <<"run">>, upload |-> <<"mkdir", "check", "write">>, download |-> <<"check", "read">>]
Request(c) == Requests[call[c].kind][call[c].step]

(* An exception: execute raises it, the file operations answer its name. *)
Fails(c, error) == Goes(c, [pc |-> "ended", answer |-> error])
Sent(c) == used' = [used EXCEPT ![Owner(c)] = @ \cup {call[c].box}]

Succeeds(c) ==
    IF call[c].step = Len(Requests[call[c].kind]) THEN Goes(c, [pc |-> "ended", answer |-> "ok"])
    ELSE Goes(c, [pc |-> "get", step |-> call[c].step + 1])

-----------------------------------------------------------------------------
Begin(c) ==
    /\ call[c].pc = "new"
    /\ \E b \in Backends, kind \in Kinds :
        /\ \A d \in Calls : Active(d) => Overlap /\ (Owner(d) /= b \/ Threads)
        /\ Goes(c, [pc |-> "get", kind |-> kind, of |-> b, step |-> 1])
    /\ UNCHANGED <<cluster, backend, used>>

(* get_sandbox: the cached one, or look for it. *)
GetSandbox(c) ==
    /\ call[c].pc = "get"
    /\ Goes(c, IF cached[Owner(c)] /= 0 THEN [pc |-> "root", box |-> cached[Owner(c)]] ELSE [pc |-> "list"])
    /\ UNCHANGED <<cluster, backend, used>>

(* _find_sandbox_claim_by_label_selector *)
Find(c) ==
    /\ call[c].pc = "list"
    /\ CASE Present = {} -> Goes(c, [pc |-> "create"])
         [] Cardinality(Present) = 1 -> Goes(c, [pc |-> "open", box |-> CHOOSE n \in Present : TRUE])
         [] OTHER -> Fails(c, "duplicates")
    /\ UNCHANGED <<cluster, backend, used>>

Caches(c, n) ==
    /\ cached' = [cached EXCEPT ![Owner(c)] = n]
    /\ Goes(c, [pc |-> "root", box |-> n])

(* client.get_sandbox, which needs the claim to be bound. *)
Open(c) ==
    /\ call[c].pc = "open"
    /\ IF deepClaim[call[c].box] = "live" THEN Caches(c, call[c].box)
       ELSE Goes(c, [pc |-> "recheck"]) /\ UNCHANGED cached
    /\ UNCHANGED <<cluster, ready, lastUsed, used>>

(* A claim that is there without its sandbox is an error, one that is gone   *)
(* is replaced.                                                              *)
Recheck(c) ==
    /\ call[c].pc = "recheck"
    /\ IF call[c].box \in Present THEN Fails(c, "not found") ELSE Goes(c, [pc |-> "create"])
    /\ UNCHANGED <<cluster, backend, used>>

(* client.create_sandbox with the labels, and its wait. *)
Create(c) ==
    /\ call[c].pc = "create" /\ Made < MaxClaims
    /\ deepClaim' = [deepClaim EXCEPT ![Made + 1] = "pending"]
    /\ Goes(c, [pc |-> "wait", box |-> Made + 1])
    /\ UNCHANGED <<root, file, backend, used>>

Created(c) ==
    /\ call[c].pc = "wait"
    /\ \/ deepClaim[call[c].box] = "live" /\ Caches(c, call[c].box) /\ UNCHANGED deepClaim
       \/ /\ deepClaim' = [deepClaim EXCEPT ![call[c].box] = "gone"]
          /\ Fails(c, "timeout") /\ UNCHANGED cached
    /\ UNCHANGED <<root, file, ready, lastUsed, used>>

-----------------------------------------------------------------------------

MakesRoot(c) ==
    \/ deepClaim[call[c].box] /= "live" /\ Fails(c, "unreachable") /\ UNCHANGED <<root, ready, lastUsed, used>>
    \/ /\ deepClaim[call[c].box] = "live"
       /\ root' = [root EXCEPT ![call[c].box] = TRUE] /\ Sent(c)
       /\ ready' = [ready EXCEPT ![Owner(c)] = TRUE]
       /\ lastUsed' = [lastUsed EXCEPT ![Owner(c)] = call[c].box]
       /\ Goes(c, [pc |-> "request"])

(* _sandbox, _initialize_root_dir *)
Initialize(c) ==
    /\ call[c].pc = "root"
    /\ IF ready[Owner(c)] /\ lastUsed[Owner(c)] = call[c].box
       THEN Goes(c, [pc |-> "request"]) /\ UNCHANGED <<root, ready, lastUsed, used>>
       ELSE MakesRoot(c)
    /\ UNCHANGED <<deepClaim, file, cached>>

Reachable(c, request) == call[c].pc = "request" /\ Request(c) = request /\ deepClaim[call[c].box] = "live" /\ Sent(c)

(* execute: cd to the working directory, then the command. *)
Run(c) ==
    /\ Reachable(c, "run") /\ (IF root[call[c].box] THEN Succeeds(c) ELSE Fails(c, "no directory"))
    /\ UNCHANGED <<cluster, backend>>

(* _ensure_parent_dir *)
EnsureParentDir(c) ==
    /\ Reachable(c, "mkdir") /\ Succeeds(c)
    /\ UNCHANGED <<cluster, backend>>

(* _assert_file_valid_state and _map_file_error; an upload may create.       *)
Check(c) ==
    /\ Reachable(c, "check")
    /\ IF \/ file[call[c].box] = "file"
          \/ file[call[c].box] = "missing" /\ call[c].kind = "upload"
       THEN Succeeds(c) ELSE Fails(c, file[call[c].box])
    /\ UNCHANGED <<cluster, backend>>

(* files.write *)
WriteFile(c) ==
    /\ Reachable(c, "write") /\ file' = [file EXCEPT ![call[c].box] = "file"] /\ Succeeds(c)
    /\ UNCHANGED <<deepClaim, root, backend>>

(* files.read *)
ReadFile(c) ==
    /\ Reachable(c, "read") /\ Succeeds(c)
    /\ UNCHANGED <<cluster, backend>>

(* The sandbox is not there any more, or not yet again. *)
Unreachable(c) ==
    /\ call[c].pc = "request" /\ deepClaim[call[c].box] /= "live" /\ Fails(c, "unreachable")
    /\ UNCHANGED <<cluster, backend, used>>

-----------------------------------------------------------------------------
(* The cluster *)

Bind(n) ==
    /\ deepClaim[n] = "pending" /\ deepClaim' = [deepClaim EXCEPT ![n] = "live"]
    /\ UNCHANGED <<root, file, backend, used, call>>

(* The sandbox of a claim is deleted; the claim may be bound again.  *)
Unbind(n) ==
    /\ MayUnbind /\ deepClaim[n] = "live" /\ deepClaim' = [deepClaim EXCEPT ![n] = "pending"]
    /\ UNCHANGED <<root, file, backend, used, call>>

DeepExpire(n) ==
    /\ n \in Present /\ ~\E c \in Calls : call[c].pc = "wait" /\ call[c].box = n
    /\ deepClaim' = [deepClaim EXCEPT ![n] = "gone"]
    /\ UNCHANGED <<root, file, backend, used, call>>

(* The container starts again, with the image's file system. *)
Restart(n) ==
    /\ MayRestart /\ deepClaim[n] = "live" /\ root[n] /\ root' = [root EXCEPT ![n] = FALSE]
    /\ UNCHANGED <<deepClaim, file, backend, used, call>>

-----------------------------------------------------------------------------
DeepInit ==
    /\ deepClaim = [n \in Claims |-> "none"] /\ root = [n \in Claims |-> FALSE]
    /\ \E state \in FileStates : file = [n \in Claims |-> state]
    /\ cached = [b \in Backends |-> 0] /\ ready = [b \in Backends |-> FALSE]
    /\ lastUsed = [b \in Backends |-> 0] /\ used = [b \in Backends |-> {}]
    /\ call = [c \in Calls |-> New]

Step(c) ==
    \/ GetSandbox(c) \/ Find(c) \/ Open(c) \/ Recheck(c) \/ Create(c) \/ Created(c) \/ Initialize(c)
    \/ Run(c) \/ EnsureParentDir(c) \/ Check(c) \/ WriteFile(c) \/ ReadFile(c) \/ Unreachable(c)

DeepNext ==
    \/ \E c \in Calls : Begin(c) \/ Step(c)
    \/ \E n \in Claims : Bind(n) \/ Unbind(n) \/ DeepExpire(n) \/ Restart(n)

(* A call that has begun goes on. *)
DeepSpec == DeepInit /\ [][DeepNext]_deepVars /\ \A c \in Calls : WF_deepVars(Step(c))

-----------------------------------------------------------------------------

(* Runs that do not overlap share one sandbox: the scope never has two.      *)
OneForScope == Cardinality(Present) <= 1

(* Whatever runs of the scope overlap, a command finds the working directory *)
(* in the sandbox it is sent to.                                             *)
RootBeforeUse == \A c \in Calls : call[c].answer /= "no directory"

(* A run sends all its requests to one sandbox, the one it re-used or        *)
(* created: what one call wrote is there for the next.                       *)
BackendKeepsSandbox == \A b \in Backends : Cardinality(used[b]) <= 1

=============================================================================
