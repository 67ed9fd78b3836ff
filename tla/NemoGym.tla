---------------------------------- MODULE NemoGym ----------------------------------
(***************************************************************************)
(* The NeMo Gym provider: the life of its claims and of the client, and the *)
(* transfer of files with its staging directory. They share no state; each  *)
(* has its own initial predicate and next-state relation.                   *)
(***************************************************************************)
EXTENDS Integers, FiniteSets, TLC, Naturals, Sequences

CONSTANTS
    Tasks, Claims,
    Specs,        \* the specs asked for: [valid, pool, image, ttl]
    ImagePools,   \* create.image_warmpools
    DefaultPool,  \* create.warmpool, or NoPool
    NoPool,
    StableCount,  \* probe.stable_count
    WaitDeleted,  \* operations.close_wait_deleted
    MaxFaults     \* bound on failed requests, cancellations and pod restarts

CONSTANTS
    MoveTasks,
    Names,      \* the staging names uuid4 yields
    MaxCalls,   \* bound on the calls made
    MoveMaxFaults   \* bound on requests that fail or time out

VARIABLES
    closed, client, lock,  \* _closed, whether _client is set, holder of _client_lock
    session,   \* the helper's API client is open
    registry,  \* claims the client tracks
    expiring,  \* claims with a shutdownTime
    claim,     \* per claim: "absent", "present", "deleting", "gone"
    up,        \* the runtime server of the sandbox answers
    hd,        \* the handle: [conn, named], conn "none", "open" or "closed"
    th,        \* the call of each task
    outcome,   \* of each create: "none", "running", "rejected", "failed", "ready"
    stat,      \* what status() last answered for the handle
    streak,    \* probes of the sandbox passed in a row
    acked,     \* claims whose DELETE was answered to a handle
    resent,    \* of those, the ones the provider sent another DELETE for
    lost,      \* claims whose clean-up DELETE failed
    aclosed,   \* an aclose() has closed the client
    faults

VARIABLES
    conn,     \* the handle's connection is open
    path,     \* the file at the path; Missing where there is none
    refuses,  \* the path cannot be written (a directory, a full disk)
    staging,  \* the staging files there are: [Names -> Contents or Missing]
    used,     \* names drawn
    orphans,  \* scripts whose request was given up: a set of scripts
    workdir,  \* the directory the spec names exists
    ran,      \* whether a user command ran in the directory asked for: set of BOOLEAN
    moveTh, seen, \* the calls; what each task's upload has written or download has read
    calls, moveFaults

-----------------------------------------------------------------------------
(***************************************************************************)
(* The life cycle of sandboxes in the NeMo Gym provider (provider.py): the  *)
(* tasks of one event loop share an AgentSandboxProvider, which builds its  *)
(* AsyncSandboxClient on first use and claims, probes, closes and inspects  *)
(* sandboxes with it, until aclose().  A step ends where the code awaits a  *)
(* request or a lock.                                                       *)
(*                                                                          *)
(* A claim and the handle its create() returns have the same name.  The     *)
(* client is modelled as far as the provider meets it: its registry, the    *)
(* rollback of a create_sandbox that fails, the two requests of terminate(),*)
(* and the API session of its helper, which any request opens.              *)
(***************************************************************************)
nemoVars == <<closed, client, lock, session, registry, expiring, claim, up, hd, th, outcome, stat,
              streak, acked, resent, lost, aclosed, faults>>
provider == <<closed, client, lock, aclosed, expiring>>
history == <<stat, streak, acked, resent, lost>>

Idle == [pc |-> "idle"]

NemoInit ==
    /\ closed = FALSE /\ client = FALSE /\ lock = "free" /\ session = FALSE
    /\ registry = {} /\ expiring = {}
    /\ claim = [c \in Claims |-> "absent"] /\ up = {}
    /\ hd = [c \in Claims |-> [conn |-> "none", named |-> FALSE]]
    /\ th = [t \in Tasks |-> Idle]
    /\ outcome = [c \in Claims |-> "none"]
    /\ stat = [c \in Claims |-> "none"] /\ streak = [c \in Claims |-> 0]
    /\ acked = {} /\ resent = {} /\ lost = {}
    /\ aclosed = FALSE
    /\ faults = 0

Fault == faults < MaxFaults /\ faults' = faults + 1
Goes(t, changes) == th' = [th EXCEPT ![t] = changes @@ @]
Returns(t) == th' = [th EXCEPT ![t] = Idle]
CreateEnds(t, how) ==
    /\ outcome' = [outcome EXCEPT ![th[t].c] = how]
    /\ Returns(t)
Deleted(c) == claim' = [claim EXCEPT ![c] = IF @ = "present" THEN "deleting" ELSE @]

-----------------------------------------------------------------------------
(* The cluster.                                                             *)

RuntimeUp(c) ==
    /\ claim[c] = "present" /\ c \notin up
    /\ up' = up \cup {c}
    /\ UNCHANGED <<provider, session, registry, claim, hd, th, outcome, history, faults>>

RuntimeDown(c) ==
    /\ c \in up /\ Fault
    /\ up' = up \ {c}
    /\ UNCHANGED <<provider, session, registry, claim, hd, th, outcome, history>>

\* spec.ttl_s has passed: the controller deletes the claim.
Expires(c) ==
    /\ claim[c] = "present" /\ c \in expiring
    /\ claim' = [claim EXCEPT ![c] = "deleting"]
    /\ UNCHANGED <<provider, session, registry, up, hd, th, outcome, history, faults>>

Finalized(c) ==
    /\ claim[c] = "deleting"
    /\ claim' = [claim EXCEPT ![c] = "gone"] /\ up' = up \ {c}
    /\ UNCHANGED <<provider, session, registry, hd, th, outcome, history, faults>>

\* The deadline of the wait, the probe or the deletion poll a task is in.
DeadlinePasses(t) ==
    /\ th[t].pc \in {"bind", "probe", "poll"} /\ ~th[t].late
    /\ Goes(t, [late |-> TRUE])
    /\ UNCHANGED <<provider, session, registry, claim, up, hd, outcome, history, faults>>

-----------------------------------------------------------------------------
(* create().                                                                *)

ResolveWarmpool(s) ==
    IF s.pool # NoPool THEN s.pool
    ELSE IF s.image \in DOMAIN ImagePools THEN ImagePools[s.image]
    ELSE DefaultPool

\* An unsupported field, a bad number or option, or no warm pool.
Rejects(s) == ~s.valid \/ ResolveWarmpool(s) = NoPool

StartCreate(t) ==
    /\ th[t].pc = "idle"
    /\ \E c \in Claims, s \in Specs :
          /\ outcome[c] = "none"
          /\ \/ /\ Rejects(s) \/ closed
                /\ outcome' = [outcome EXCEPT ![c] = "rejected"]
                /\ UNCHANGED <<th, expiring>>
             \/ /\ ~Rejects(s) /\ ~closed
                /\ outcome' = [outcome EXCEPT ![c] = "running"]
                /\ Goes(t, [pc |-> "client", op |-> "create", c |-> c])
                /\ expiring' = IF s.ttl THEN expiring \cup {c} ELSE expiring
    /\ UNCHANGED <<closed, client, lock, aclosed, session, registry, claim, up, hd, history, faults>>

GetClient(t) ==
    /\ th[t].pc = "client" /\ lock = "free"
    /\ \/ /\ closed
          /\ IF th[t].op = "create" THEN CreateEnds(t, "failed")
                                    ELSE Returns(t) /\ UNCHANGED outcome
          /\ UNCHANGED client
       \/ /\ ~closed
          /\ client' = TRUE
          /\ Goes(t, [pc |-> IF th[t].op = "create" THEN "post" ELSE "poll",
                      late |-> FALSE])
          /\ UNCHANGED outcome
    /\ UNCHANGED <<closed, lock, aclosed, expiring, session, registry, claim, up, hd, history,
                   faults>>

\* client.create_sandbox: the POST, whose answer may be lost ...
Post(t) ==
    /\ th[t].pc = "post"
    /\ session' = TRUE
    /\ \/ /\ claim' = [claim EXCEPT ![th[t].c] = "present"]
          /\ Goes(t, [pc |-> "bind"])
          /\ UNCHANGED faults
       \/ /\ Fault
          /\ \/ claim' = [claim EXCEPT ![th[t].c] = "present"]
             \/ UNCHANGED claim
          /\ Goes(t, [pc |-> "rollback"])
    /\ UNCHANGED <<provider, registry, up, hd, outcome, history>>

\* ... the wait until it is bound, after which the handle is registered under the
\* lock that close() holds while it closes connections, ...
ClientLocked == \E t \in Tasks : th[t].pc = "aclosing" /\ th[t].todo # {}

Bind(t) ==
    /\ th[t].pc = "bind" /\ claim[th[t].c] = "present" /\ ~ClientLocked
    /\ hd' = [hd EXCEPT ![th[t].c] = [conn |-> "open", named |-> TRUE]]
    /\ registry' = registry \cup {th[t].c}
    /\ Goes(t, [pc |-> "probe", n |-> 0, late |-> FALSE])
    /\ UNCHANGED <<provider, session, claim, up, outcome, history, faults>>

BindFails(t) ==
    /\ th[t].pc = "bind"
    /\ \/ (claim[th[t].c] # "present" \/ th[t].late) /\ UNCHANGED faults
       \/ Fault
    /\ Goes(t, [pc |-> "rollback"])
    /\ UNCHANGED <<provider, session, registry, claim, up, hd, outcome, history>>

\* ... and the deletion of what a failed or cancelled call left.
Rollback(t) ==
    /\ th[t].pc = "rollback"
    /\ session' = TRUE
    /\ \/ Deleted(th[t].c) /\ UNCHANGED <<lost, faults>>
       \/ Fault /\ lost' = lost \cup {th[t].c} /\ UNCHANGED claim
    /\ CreateEnds(t, "failed")
    /\ UNCHANGED <<provider, registry, up, hd, stat, streak, acked, resent>>

\* One round of _verify_created_handle.  commands is None once the connection is
\* closed; a request that fails counts as a failed probe.
Passes(c) == hd[c].conn = "open" /\ claim[c] # "gone" /\ c \in up

Probe(t) ==
    LET c == th[t].c n == th[t].n + 1
    IN  /\ th[t].pc = "probe"
        /\ \/ /\ Passes(c) /\ UNCHANGED faults
              /\ streak' = [streak EXCEPT ![c] = @ + 1]
              /\ IF n >= StableCount THEN CreateEnds(t, "ready")
                 ELSE /\ Goes(t, [n |-> n, pc |-> IF th[t].late THEN "term" ELSE "probe"])
                      /\ UNCHANGED outcome
           \/ /\ \/ ~Passes(c) /\ UNCHANGED faults
                 \/ Passes(c) /\ Fault
              /\ streak' = [streak EXCEPT ![c] = 0]
              /\ Goes(t, [n |-> 0, pc |-> IF th[t].late THEN "term" ELSE "probe"])
              /\ UNCHANGED outcome
        /\ UNCHANGED <<provider, session, registry, claim, up, hd, stat, acked, resent, lost>>

Cancelled(t) ==
    /\ th[t].pc \in {"post", "bind", "probe"} /\ th[t].op = "create" /\ Fault
    /\ Goes(t, [pc |-> IF th[t].pc = "probe" THEN "term" ELSE "rollback"])
    /\ UNCHANGED <<provider, session, registry, claim, up, hd, outcome, history>>

-----------------------------------------------------------------------------
(* AsyncSandbox.terminate(), for the clean-up of a create and for close().   *)

CloseConnection(t) ==
    LET c == th[t].c
    IN  /\ th[t].pc = "term"
        /\ hd' = [hd EXCEPT ![c].conn = "closed"]
        /\ \/ hd[c].named /\ Goes(t, [pc |-> "delete"]) /\ UNCHANGED outcome
           \/ /\ ~hd[c].named
              /\ IF th[t].op = "create" THEN CreateEnds(t, "failed")
                 ELSE Goes(t, [pc |-> "second"]) /\ UNCHANGED outcome
        /\ UNCHANGED <<provider, session, registry, claim, up, history, faults>>

\* A claim that is already gone counts as deleted.
Delete(t) ==
    LET c == th[t].c
    IN  /\ th[t].pc = "delete"
        /\ session' = TRUE
        /\ Deleted(c) /\ acked' = acked \cup {c}
        /\ registry' = registry \ {c}
        /\ hd' = [hd EXCEPT ![c].named = FALSE]
        /\ IF th[t].op = "create" THEN CreateEnds(t, "failed")
           ELSE Goes(t, [pc |-> "second"]) /\ UNCHANGED outcome
        /\ UNCHANGED <<provider, up, stat, streak, resent, lost, faults>>

\* The clean-up logs the failure; close() raises and can be called again.
DeleteFails(t) ==
    /\ th[t].pc = "delete" /\ Fault
    /\ session' = TRUE
    /\ IF th[t].op = "create"
       THEN lost' = lost \cup {th[t].c} /\ CreateEnds(t, "failed")
       ELSE Returns(t) /\ UNCHANGED <<lost, outcome>>
    /\ UNCHANGED <<provider, registry, claim, up, hd, stat, streak, acked, resent>>

-----------------------------------------------------------------------------
(* close() and status().                                                    *)

StartClose(t) ==
    /\ th[t].pc = "idle"
    /\ \E c \in Claims :
          /\ outcome[c] = "ready" /\ (hd[c].named \/ claim[c] # "gone")
          /\ Goes(t, [pc |-> "term", op |-> "close", c |-> c])
    /\ UNCHANGED <<provider, session, registry, claim, up, hd, outcome, history, faults>>

\* client.delete_sandbox of a claim the registry no longer has sends a DELETE of
\* its own, and logs what goes wrong.  Nothing happens when _client is None.
Second(t) ==
    LET c == th[t].c
    IN  /\ th[t].pc = "second"
        /\ IF client
           THEN /\ session' = TRUE
                /\ resent' = resent \cup {c}
                /\ Deleted(c)
           ELSE UNCHANGED <<session, resent, claim>>
        /\ IF WaitDeleted /\ ~closed THEN Goes(t, [pc |-> "client"]) ELSE Returns(t)
        /\ UNCHANGED <<provider, registry, up, hd, outcome, stat, streak, acked, lost, faults>>

Poll(t) ==
    /\ th[t].pc = "poll"
    /\ session' = TRUE
    /\ \/ /\ claim[th[t].c] = "gone"
          /\ Goes(t, [pc |-> "closed"]) /\ UNCHANGED faults
       \/ /\ \/ claim[th[t].c] # "gone" /\ UNCHANGED faults
             \/ claim[th[t].c] = "gone" /\ Fault
          /\ IF th[t].late THEN Returns(t) ELSE UNCHANGED th
    /\ UNCHANGED <<provider, registry, claim, up, hd, outcome, history>>

CloseReturns(t) ==
    /\ th[t].pc = "closed"
    /\ Returns(t)
    /\ UNCHANGED <<provider, session, registry, claim, up, hd, outcome, history, faults>>

SandboxStatus(c) ==
    IF claim[c] \in {"absent", "gone"} THEN "STOPPED"
    ELSE IF c \in up THEN "RUNNING" ELSE "STARTING"

Status(c) ==
    /\ outcome[c] = "ready"
    /\ session' = TRUE
    /\ \/ stat' = [stat EXCEPT ![c] = SandboxStatus(c)] /\ UNCHANGED faults
       \/ stat' = [stat EXCEPT ![c] = "UNKNOWN"] /\ Fault
    /\ UNCHANGED <<provider, registry, claim, up, hd, th, outcome, streak, acked, resent, lost>>

-----------------------------------------------------------------------------
(* aclose().                                                                *)

StartAclose(t) ==
    /\ th[t].pc = "idle" /\ ~closed
    /\ closed' = TRUE
    /\ Goes(t, [pc |-> "aclose", op |-> "aclose"])
    /\ UNCHANGED <<client, lock, aclosed, expiring, session, registry, claim, up, hd, outcome,
                   history, faults>>

AcloseLocks(t) ==
    /\ th[t].pc = "aclose" /\ lock = "free"
    /\ \/ /\ client
          /\ lock' = "held" /\ Goes(t, [pc |-> "aclosing", todo |-> registry])
          /\ UNCHANGED aclosed
       \/ ~client /\ Returns(t) /\ aclosed' = TRUE /\ UNCHANGED lock
    /\ UNCHANGED <<closed, client, expiring, session, registry, claim, up, hd, outcome, history,
                   faults>>

\* client.close(): one connection after the other ...
AcloseOne(t) ==
    /\ th[t].pc = "aclosing"
    /\ \E c \in th[t].todo :
          /\ hd' = [hd EXCEPT ![c].conn = "closed"]
          /\ registry' = registry \ {c}
          /\ Goes(t, [todo |-> th[t].todo \ {c}])
    /\ UNCHANGED <<provider, session, claim, up, outcome, history, faults>>

\* ... and the helper's API session.
AcloseEnds(t) ==
    /\ th[t].pc = "aclosing" /\ th[t].todo = {}
    /\ session' = FALSE
    /\ client' = FALSE /\ lock' = "free" /\ aclosed' = TRUE
    /\ Returns(t)
    /\ UNCHANGED <<closed, expiring, registry, claim, up, hd, outcome, history, faults>>

-----------------------------------------------------------------------------
Step(t) ==
    \/ GetClient(t) \/ Post(t) \/ Bind(t) \/ BindFails(t) \/ Rollback(t) \/ Probe(t)
    \/ CloseConnection(t) \/ Delete(t) \/ DeleteFails(t) \/ Second(t) \/ Poll(t)
    \/ CloseReturns(t) \/ AcloseLocks(t) \/ AcloseOne(t) \/ AcloseEnds(t)

NemoNext ==
    \/ \E t \in Tasks : StartCreate(t) \/ StartClose(t) \/ StartAclose(t) \/ Step(t)
                         \/ Cancelled(t) \/ DeadlinePasses(t)
    \/ \E c \in Claims : RuntimeUp(c) \/ RuntimeDown(c) \/ Expires(c) \/ Finalized(c)
                          \/ Status(c)

NemoSpec == NemoInit /\ [][NemoNext]_nemoVars

-----------------------------------------------------------------------------

\* A create() that fails or is cancelled, wherever it was, leaves no claim behind
\* that nobody deletes, unless the DELETE of its clean-up failed ("A claim that binds
\* but fails verification is deleted before the error propagates").
FailedCreateCleans ==
    \A c \in Claims : outcome[c] \in {"rejected", "failed"} /\ c \notin lost
                        => claim[c] # "present"

\* After aclose() there is no client: a call that waited for the lock does not build
\* one that nobody would close.
NoClientAfterAclose == aclosed => ~client

\* A sandbox that status() has reported STOPPED is never reported in another state
\* again, except as UNKNOWN: a failing API is not taken for a missing sandbox.
StoppedIsFinal ==
    \A c \in Claims : stat[c] = "STOPPED" => stat'[c] \in {"STOPPED", "UNKNOWN"}

-----------------------------------------------------------------------------
(***************************************************************************)
(* Commands and file transfers of the NeMo Gym provider (provider.py).  The *)
(* runtime's file API takes relative names only, so an upload writes a      *)
(* staging file and copies it to its target with a script, and a download   *)
(* copies the source to a staging file and reads that.  The runtime does    *)
(* not stop a command whose request timed out: what remains of the script   *)
(* runs on in the pod, whatever the caller does next.                       *)
(*                                                                          *)
(* One path in the sandbox is read and written.  The contents of a file are *)
(* the task that uploaded it, or Original.                                  *)
(***************************************************************************)
Original == "original"
Missing == "missing"

moveVars == <<conn, path, refuses, staging, used, orphans, workdir, ran, moveTh, seen, calls, moveFaults>>
world == <<conn, refuses, workdir>>

MoveIdle == [pc |-> "idle"]

MoveInit ==
    /\ conn = TRUE
    /\ path \in {Original, Missing} /\ refuses = FALSE
    /\ staging = [n \in Names |-> Missing] /\ used = {}
    /\ orphans = {}
    /\ workdir \in BOOLEAN
    /\ ran = {}
    /\ moveTh = [t \in MoveTasks |-> MoveIdle]
    /\ seen = [t \in MoveTasks |-> {}]
    /\ calls = 0 /\ moveFaults = 0

MoveFault == moveFaults < MoveMaxFaults /\ moveFaults' = moveFaults + 1
Called == calls < MaxCalls /\ calls' = calls + 1
MoveGoes(t, changes) == moveTh' = [moveTh EXCEPT ![t] = changes @@ @]
MoveReturns(t) == moveTh' = [moveTh EXCEPT ![t] = MoveIdle]

-----------------------------------------------------------------------------
(* The pod.                                                                 *)

\* A command of a script: [do, name].  `a && b` stops at the first that fails.
Command(do, n) == [do |-> do, name |-> n]
Fails(k) ==
    \/ k.do = "put" /\ (refuses \/ staging[k.name] = Missing)
    \/ k.do = "take" /\ path = Missing

Run(k) ==
    /\ path' = IF k.do = "put" /\ ~Fails(k) THEN staging[k.name] ELSE path
    /\ staging' = IF Fails(k) THEN staging
                  ELSE CASE k.do = "take" -> [staging EXCEPT ![k.name] = path]
                         [] k.do = "rm"   -> [staging EXCEPT ![k.name] = Missing]
                         [] k.do = "put"  -> staging

\* What a call has put at the path or copied from it.
Notes(t, k) ==
    seen' = [seen EXCEPT ![t] = CASE Fails(k) -> @
                                  [] k.do = "put" -> @ \cup {staging[k.name]}
                                  [] k.do = "take" -> @ \cup {path}
                                  [] k.do = "rm" -> @]

OrphanRuns ==
    \E o \in orphans :
        LET k == Head(o)
        IN  /\ Run(k)
            /\ orphans' = (orphans \ {o}) \cup
                          (IF Fails(k) \/ Len(o) = 1 THEN {} ELSE {Tail(o)})
            /\ UNCHANGED <<world, used, ran, moveTh, seen, calls, moveFaults>>

PathChanges ==
    /\ calls < MaxCalls /\ ~refuses
    /\ \/ refuses' = TRUE /\ UNCHANGED path
       \/ path # Missing /\ path' = Missing /\ UNCHANGED refuses
    /\ UNCHANGED <<conn, workdir, staging, used, orphans, ran, moveTh, seen, calls, moveFaults>>

ConnectionCloses ==
    /\ conn /\ MoveFault
    /\ conn' = FALSE
    /\ UNCHANGED <<path, refuses, workdir, staging, used, orphans, ran, moveTh, seen, calls>>

-----------------------------------------------------------------------------
(* _run_wrapped: a script is sent, and its result has a return code even     *)
(* where the request fails.  pc "run" holds the commands still to run.       *)

Drawn(n) == n \notin used /\ used' = used \cup {n}

RunCommand(t) ==
    LET k == Head(moveTh[t].script)
    IN  /\ moveTh[t].pc = "run" /\ Run(k) /\ Notes(t, k)
        /\ MoveGoes(t, IF Fails(k) THEN [pc |-> "result", code |-> 1]
                       ELSE IF Len(moveTh[t].script) = 1 THEN [pc |-> "result", code |-> 0]
                       ELSE [script |-> Tail(moveTh[t].script)])
        /\ UNCHANGED <<world, used, orphans, ran, calls, moveFaults>>

\* The answer is lost or late: code 125, and the script goes on without its caller.
\* A request that never arrived leaves no script.
RunFails(t) ==
    /\ moveTh[t].pc = "run"
    /\ (~conn /\ UNCHANGED moveFaults) \/ (conn /\ MoveFault)
    /\ \/ orphans' = orphans \cup {moveTh[t].script}
       \/ UNCHANGED orphans
    /\ MoveGoes(t, [pc |-> "result", code |-> 125])
    /\ UNCHANGED <<world, path, staging, used, ran, seen, calls>>

-----------------------------------------------------------------------------
(* exec(): the script changes to the working directory or stops.             *)

Exec(t) ==
    /\ moveTh[t].pc = "idle" /\ Called
    /\ \/ conn /\ workdir /\ ran' = ran \cup {workdir} /\ UNCHANGED moveFaults
       \/ (conn => ~workdir) /\ UNCHANGED <<ran, moveFaults>>
       \/ conn /\ MoveFault /\ UNCHANGED ran
    /\ UNCHANGED <<world, path, staging, used, orphans, moveTh, seen>>

-----------------------------------------------------------------------------
(* _put_bytes.                                                              *)

StartUpload(t) ==
    /\ moveTh[t].pc = "idle" /\ conn /\ Called
    /\ \E n \in Names :
          /\ Drawn(n)
          /\ moveTh' = [moveTh EXCEPT ![t] = [pc |-> "write", op |-> "upload", name |-> n]]
    /\ seen' = [seen EXCEPT ![t] = {}]
    /\ UNCHANGED <<world, path, staging, orphans, ran, moveFaults>>

PutScript(n) == <<Command("put", n), Command("rm", n)>>

\* files.write raises when it fails; what it wrote by then stays.
Write(t) ==
    LET n == moveTh[t].name
    IN  /\ moveTh[t].pc = "write"
        /\ \/ /\ staging' = [staging EXCEPT ![n] = t]
              /\ MoveGoes(t, [pc |-> "run", script |-> PutScript(n)])
              /\ UNCHANGED moveFaults
           \/ /\ MoveFault
              /\ \/ staging' = [staging EXCEPT ![n] = t]
                 \/ UNCHANGED staging
              /\ MoveReturns(t)
        /\ UNCHANGED <<world, path, used, orphans, ran, seen, calls>>

UploadResult(t) ==
    /\ moveTh[t].pc = "result" /\ moveTh[t].op = "upload"
    /\ IF moveTh[t].code = 0 THEN MoveGoes(t, [pc |-> "uploaded"])
       ELSE MoveGoes(t, [pc |-> "run", op |-> "cleanup",
                         script |-> <<Command("rm", moveTh[t].name)>>])
    /\ UNCHANGED <<world, path, staging, used, orphans, ran, seen, calls, moveFaults>>

\* The clean-up's own result is not looked at; the call raises.
UploadRaises(t) ==
    /\ moveTh[t].pc = "result" /\ moveTh[t].op = "cleanup"
    /\ MoveReturns(t)
    /\ UNCHANGED <<world, path, staging, used, orphans, ran, seen, calls, moveFaults>>

UploadReturns(t) ==
    /\ moveTh[t].pc = "uploaded"
    /\ MoveReturns(t)
    /\ UNCHANGED <<world, path, staging, used, orphans, ran, seen, calls, moveFaults>>

-----------------------------------------------------------------------------
(* download_file.                                                           *)

StartDownload(t) ==
    /\ moveTh[t].pc = "idle" /\ conn /\ Called
    /\ \E n \in Names :
          /\ Drawn(n)
          /\ moveTh' = [moveTh EXCEPT ![t] = [pc |-> "run", op |-> "download", name |-> n,
                                              script |-> <<Command("take", n)>>]]
    /\ seen' = [seen EXCEPT ![t] = {}]
    /\ UNCHANGED <<world, path, staging, orphans, ran, moveFaults>>

DownloadReads(t) ==
    LET n == moveTh[t].name
    IN  /\ moveTh[t].pc = "result" /\ moveTh[t].op = "download"
        /\ \/ /\ moveTh[t].code # 0
              /\ MoveReturns(t) /\ UNCHANGED moveFaults
           \/ /\ moveTh[t].code = 0
              /\ \/ /\ staging[n] # Missing /\ conn /\ UNCHANGED moveFaults
                    /\ MoveGoes(t, [pc |-> "run", op |-> "read", data |-> staging[n],
                                    script |-> <<Command("rm", n)>>])
                 \/ /\ MoveFault \/ (~conn /\ UNCHANGED moveFaults)
                    /\ MoveGoes(t, [pc |-> "run", op |-> "cleanup",
                                    script |-> <<Command("rm", n)>>])
        /\ UNCHANGED <<world, path, staging, used, orphans, ran, seen, calls>>

\* The `finally` has run; a failed removal is logged.
DownloadWrites(t) ==
    /\ moveTh[t].pc = "result" /\ moveTh[t].op = "read"
    /\ MoveGoes(t, [pc |-> "downloaded"])
    /\ UNCHANGED <<world, path, staging, used, orphans, ran, seen, calls, moveFaults>>

DownloadReturns(t) ==
    /\ moveTh[t].pc = "downloaded"
    /\ MoveReturns(t)
    /\ UNCHANGED <<world, path, staging, used, orphans, ran, seen, calls, moveFaults>>

-----------------------------------------------------------------------------
MoveStep(t) ==
    \/ RunCommand(t) \/ RunFails(t) \/ Write(t) \/ UploadResult(t) \/ UploadRaises(t)
    \/ UploadReturns(t) \/ DownloadReads(t) \/ DownloadWrites(t) \/ DownloadReturns(t)

MoveNext ==
    \/ \E t \in MoveTasks : Exec(t) \/ StartUpload(t) \/ StartDownload(t) \/ MoveStep(t)
    \/ OrphanRuns \/ PathChanges \/ ConnectionCloses

MoveSpec == MoveInit /\ [][MoveNext]_moveVars

-----------------------------------------------------------------------------

\* upload_file returns normally only if its own bytes, and no others, were copied to
\* the target, however uploads, downloads and given-up scripts interleave.
UploadLands == \A t \in MoveTasks : moveTh[t].pc = "uploaded" => seen[t] = {t}

\* What download_file stores is what the path held when it was copied, also when an
\* upload replaced the file before the staged copy was read.
DownloadIsACopy == \A t \in MoveTasks : moveTh[t].pc = "downloaded" => seen[t] = {moveTh[t].data}

=============================================================================
