-------------------------------- MODULE OpenAIAgents --------------------------------
(***************************************************************************)
(* The OpenAI Agents backend: the sessions with their claims, and the       *)
(* archives that move a workspace. They share no state; each has its own    *)
(* initial predicate and next-state relation.                               *)
(***************************************************************************)
EXTENDS Integers, FiniteSets, TLC, Sequences

CONSTANTS
    MaxClaims, MaxSandboxes,
    Pinned,      \* options.exposed_port_host is given
    Rebinds,     \* a claim's sandbox may be lost and replaced
    MaxFaults

CONSTANTS
    Tasks,
    Chunks,     \* chunks of a write
    Limit,      \* SandboxArchiveLimits.max_input_bytes; the tar has a byte per chunk
    Late,       \* TRUE: a command whose request timed out may run later
    MaxCalls, ArchiveMaxFaults

VARIABLES
    claims,    \* claim -> [made, live, sb]: sb None until bound
    used,      \* sandboxes that were given to a claim
    st,        \* K8sSandboxSessionState: [claim, sb, host]
    pc, handle,
    deleted,   \* the claim the last delete() that returned was for
    faults

VARIABLES
    target,    \* the file
    staging,   \* the staging file of each call's write
    orphans,   \* commands that run on without their caller
    th,        \* the calls under way
    snapshot,  \* the last archive persist_workspace returned
    failed,    \* a clean-up has failed
    calls, archiveFaults

-----------------------------------------------------------------------------
(***************************************************************************)
(* K8sSandboxClient of the OpenAI Agents integration (client.py): a session *)
(* is created on a claim, its state is kept across processes, and resume()  *)
(* reattaches to the claim or provisions a replacement.  Claims and         *)
(* sandboxes are numbered in the order they come to be.                     *)
(***************************************************************************)
Claims == 1..MaxClaims
None == 0
PinnedHost == -1

sessionVars == <<claims, used, st, pc, handle, deleted, faults>>

NoState == [claim |-> None, sb |-> None, host |-> None]
NoHandle == [claim |-> None, sb |-> None]
Made == {c \in Claims : claims[c].made}
Live(c) == c \in Claims /\ claims[c].live

SessionInit ==
    /\ claims = [c \in Claims |-> [made |-> FALSE, live |-> FALSE, sb |-> None]]
    /\ used = 0
    /\ st = NoState
    /\ pc = "off"
    /\ handle = NoHandle
    /\ deleted = None
    /\ faults = 0

Fault == faults < MaxFaults /\ faults' = faults + 1

-----------------------------------------------------------------------------
(* The cluster.                                                              *)

\* The claim's TTL, or an operator, removes it.
Expires(c) ==
    /\ Live(c)
    /\ claims' = [claims EXCEPT ![c].live = FALSE, ![c].sb = None]
    /\ UNCHANGED <<used, st, pc, handle, deleted, faults>>

\* The Sandbox of a claim is deleted or lost with its node.
Lost(c) ==
    /\ Rebinds /\ Live(c) /\ claims[c].sb # None
    /\ claims' = [claims EXCEPT ![c].sb = None]
    /\ UNCHANGED <<used, st, pc, handle, deleted, faults>>

\* The claim controller adopts or creates another one.
Bound(c) ==
    /\ Live(c) /\ claims[c].sb = None /\ used < MaxSandboxes
    /\ used' = used + 1
    /\ claims' = [claims EXCEPT ![c].sb = used + 1]
    /\ UNCHANGED <<st, pc, handle, deleted, faults>>

-----------------------------------------------------------------------------
\* _exposed_port_host and _in_cluster_host, for options that expose a port.
HostOf(sb) == IF Pinned THEN PinnedHost ELSE sb

\* _create_sandbox: a claim, which the client waits for and deletes if that fails.
Provision(then) ==
    /\ Cardinality(Made) < MaxClaims
    /\ claims' = [claims EXCEPT ![Cardinality(Made) + 1] =
                    [made |-> TRUE, live |-> TRUE, sb |-> None]]
    /\ pc' = then
    /\ UNCHANGED <<used, st, handle, deleted, faults>>

Newest == Cardinality(Made)

\* A wait that failed; the claim is deleted best-effort.
ProvisionFails(here) ==
    /\ pc = here /\ Fault
    /\ claims' = [claims EXCEPT ![Newest].live = FALSE, ![Newest].sb = None]
    /\ pc' = "off"
    /\ UNCHANGED <<used, st, handle, deleted>>

Create == pc = "off" /\ st = NoState /\ Provision("creating")

Created ==
    /\ pc = "creating" /\ claims[Newest].sb # None
    /\ st' = [claim |-> Newest, sb |-> claims[Newest].sb, host |-> HostOf(claims[Newest].sb)]
    /\ handle' = [claim |-> Newest, sb |-> claims[Newest].sb]
    /\ pc' = "open"
    /\ UNCHANGED <<claims, used, deleted, faults>>

Closes ==
    /\ pc = "open"
    /\ pc' = "off" /\ handle' = NoHandle
    /\ UNCHANGED <<claims, used, st, deleted, faults>>

Resume ==
    /\ pc = "off" /\ st # NoState
    /\ pc' = "reattach"
    /\ UNCHANGED <<claims, used, st, handle, deleted, faults>>

\* get_sandbox found the claim and its Sandbox.
Reattached ==
    /\ pc = "reattach" /\ Live(st.claim) /\ claims[st.claim].sb # None
    /\ handle' = [claim |-> st.claim, sb |-> claims[st.claim].sb]
    /\ pc' = "open"
    /\ UNCHANGED <<claims, used, st, deleted, faults>>

NotFound ==
    /\ pc = "reattach" /\ ~Live(st.claim)
    /\ pc' = "missing"
    /\ UNCHANGED <<claims, used, st, handle, deleted, faults>>

\* ... or it has no Sandbox within the timeout, ...
NotResolved ==
    /\ pc = "reattach" /\ Live(st.claim) /\ claims[st.claim].sb = None
    /\ pc' = "missing"
    /\ UNCHANGED <<claims, used, st, handle, deleted, faults>>

\* ... or a request failed, which get_sandbox raises as the same error.
LookupFails ==
    /\ pc = "reattach" /\ Fault
    /\ pc' = "missing"
    /\ UNCHANGED <<claims, used, st, handle, deleted>>

Replace == pc = "missing" /\ Provision("replacing")

Replaced ==
    /\ pc = "replacing" /\ claims[Newest].sb # None
    /\ st' = [claim |-> Newest, sb |-> claims[Newest].sb, host |-> HostOf(claims[Newest].sb)]
    /\ handle' = [claim |-> Newest, sb |-> claims[Newest].sb]
    /\ pc' = "open"
    /\ UNCHANGED <<claims, used, deleted, faults>>

\* delete(): terminate() deletes the claim, 404 included, or raises.
Delete ==
    /\ pc = "open"
    /\ claims' = [claims EXCEPT ![handle.claim].live = FALSE, ![handle.claim].sb = None]
    /\ deleted' = handle.claim
    /\ pc' = "off" /\ st' = NoState /\ handle' = NoHandle
    /\ UNCHANGED <<used, faults>>

DeleteFails ==
    /\ pc = "open" /\ Fault
    /\ UNCHANGED <<claims, used, st, pc, handle, deleted>>

SessionNext ==
    \/ \E c \in Claims : Expires(c) \/ Lost(c) \/ Bound(c)
    \/ Create \/ ProvisionFails("creating") \/ Created
    \/ Closes \/ Resume \/ Reattached \/ NotFound \/ NotResolved \/ LookupFails
    \/ Replace \/ ProvisionFails("replacing") \/ Replaced
    \/ Delete \/ DeleteFails

SessionSpec == SessionInit /\ [][SessionNext]_sessionVars

-----------------------------------------------------------------------------

\* The state that is saved is the one of the session's claim, so that the next process
\* reattaches to the sandbox this one used (resume() moves the state to a replacement).
StateFollowsHandle == pc = "open" => st.claim = handle.claim

\* The host that resolve_exposed_port reports is the pinned one or names the sandbox the
\* session talks to.
HostFollowsSandbox == pc = "open" /\ ~Pinned => st.host = handle.sb

\* A replacement is provisioned only for a claim that is gone: no failed lookup orphans a
\* sandbox that is still running.
ReplacesOnlyGone ==
    (pc = "reattach" /\ pc' = "missing") => (~Live(st.claim) \/ claims[st.claim].sb = None)

-----------------------------------------------------------------------------
(***************************************************************************)
(* File transfers of the OpenAI Agents integration (session.py, transport.py*)
(* of clients/integrations/openai).  A write through the exec endpoint      *)
(* sends a base64 text in chunks to a staging file next to its target,      *)
(* decodes that and removes it; a snapshot of the workspace is a tar made   *)
(* in the pod, measured, read and removed.  A command whose request times   *)
(* out runs on in the pod.                                                  *)
(*                                                                          *)
(* One workspace path is written.  A content is the sequence of the chunks  *)
(* it was made from, <<w, i>> for chunk i of call w; Before is what the     *)
(* file held at first, Torn what a failed decode leaves, Absent no file.    *)
(***************************************************************************)
Calls == 1..MaxCalls
Absent == << >>
Before == << <<0, 1>> >>
Torn == << <<0, 2>> >>

archiveVars == <<target, staging, orphans, th, snapshot, failed, calls, archiveFaults>>

Idle == [pc |-> "idle"]
NoTar == [file |-> Absent, parts |-> {}]

ArchiveInit ==
    /\ target = Before
    /\ staging = [w \in Calls |-> Absent]
    /\ orphans = {}
    /\ th = [t \in Tasks |-> Idle]
    /\ snapshot = NoTar
    /\ failed = FALSE
    /\ calls = 0 /\ archiveFaults = 0

ArchiveFault == archiveFaults < ArchiveMaxFaults /\ archiveFaults' = archiveFaults + 1
Called == calls < MaxCalls /\ calls' = calls + 1
Goes(t, changes) == th' = [th EXCEPT ![t] = changes @@ @]
Returns(t) == th' = [th EXCEPT ![t] = Idle]

-----------------------------------------------------------------------------
(* The commands of a write, as they run in the pod: [do, w, i].              *)

Complete(w) == [i \in 1..Chunks |-> <<w, i>>]

\* f"{path}.{uuid4().hex}.b64.part": one staging file per call.
StagingShared(w) == 1
StagingOf(w) == w

\* Chunk 1 is written with >, the others with >>.  The shell opens the decode's input
\* first: without a staging file the target is not touched.
Runs(k) ==
    LET f == StagingOf(k.w)
        at == <<k.w, k.i>>
    IN  CASE k.do = "chunk" ->
                /\ staging' = [staging EXCEPT ![f] = IF k.i = 1 THEN <<at>> ELSE Append(@, at)]
                /\ UNCHANGED target
          [] k.do = "decode" ->
                /\ target' = IF staging[f] = Absent THEN target ELSE staging[f]
                /\ UNCHANGED staging
          [] k.do = "rm" ->
                /\ staging' = [staging EXCEPT ![f] = Absent]
                /\ UNCHANGED target

\* A command that fails in the pod: nothing is done, or a decode leaves a part of the file.
FailsInPod(k) ==
    /\ UNCHANGED staging
    /\ target' \in {target} \cup (IF k.do = "decode" THEN {Torn} ELSE {})

\* A request without an answer: its command ran, or it runs later.
RunsOn(k) ==
    \/ Runs(k) /\ UNCHANGED orphans
    \/ Late /\ orphans' = orphans \cup {k} /\ UNCHANGED <<target, staging>>

OrphanRuns ==
    \E k \in orphans :
        /\ Runs(k)
        /\ orphans' = orphans \ {k}
        /\ UNCHANGED <<th, snapshot, failed, calls, archiveFaults>>

-----------------------------------------------------------------------------
(* _write_via_exec and _write_file_via_exec.                                *)

StartWrite(t) ==
    /\ th[t].pc = "idle" /\ Called
    /\ th' = [th EXCEPT ![t] = [pc |-> "chunk", w |-> calls + 1, i |-> 1, err |-> "none"]]
    /\ UNCHANGED <<target, staging, orphans, snapshot, failed, archiveFaults>>

Command(t) == [do |-> th[t].pc, w |-> th[t].w, i |-> th[t].i]

Send(t) ==
    /\ \/ th[t].pc = "chunk" /\ th[t].i < Chunks /\ Goes(t, [i |-> th[t].i + 1])
       \/ th[t].pc = "chunk" /\ th[t].i = Chunks /\ Goes(t, [pc |-> "decode"])
       \/ th[t].pc = "decode" /\ Goes(t, [pc |-> "rm"])
       \/ th[t].pc = "rm" /\ Goes(t, [pc |-> "wrote"])
    /\ Runs(Command(t))
    /\ UNCHANGED <<orphans, snapshot, failed, calls, archiveFaults>>

SendFails(t) ==
    /\ th[t].pc \in {"chunk", "decode"} /\ ArchiveFault
    /\ \/ FailsInPod(Command(t)) /\ UNCHANGED orphans
       \/ RunsOn(Command(t))
    /\ Goes(t, [pc |-> "rm", err |-> th[t].pc])
    /\ UNCHANGED <<snapshot, failed, calls>>

RmError(err) == IF err = "none" THEN "rm" ELSE err

RmFails(t) ==
    /\ th[t].pc = "rm" /\ ArchiveFault
    /\ \/ UNCHANGED <<target, staging, orphans>>
       \/ RunsOn(Command(t))
    /\ Goes(t, [pc |-> "wrote", err |-> RmError(th[t].err)])
    /\ failed' = TRUE
    /\ UNCHANGED <<snapshot, calls>>

WriteReturns(t) ==
    /\ th[t].pc = "wrote"
    /\ Returns(t)
    /\ UNCHANGED <<target, staging, orphans, snapshot, failed, calls, archiveFaults>>

-----------------------------------------------------------------------------
(* persist_workspace and hydrate_workspace; an archive is the file it holds *)
(* and the staging files swept up with it, a byte for each chunk.           *)

Size(tar) == Len(tar.file) + Cardinality(tar.parts)

\* The tar; when that fails its archive stays in the staging directory.
StartPersist(t) ==
    /\ th[t].pc = "idle" /\ Called
    /\ \/ /\ th' = [th EXCEPT ![t] =
                     [pc |-> "sized", tar |-> [file |-> target,
                                               parts |-> {w \in Calls : staging[w] # Absent}]]]
          /\ UNCHANGED archiveFaults
       \/ ArchiveFault /\ UNCHANGED th
    /\ UNCHANGED <<target, staging, orphans, snapshot, failed>>

Oversized(tar) == Size(tar) > Limit

\* _reject_oversized_stage and read_file: a failure is raised after a best-effort removal.
PersistReads(t) ==
    /\ th[t].pc = "sized"
    /\ \/ ~Oversized(th[t].tar) /\ Goes(t, [pc |-> "read"]) /\ UNCHANGED archiveFaults
       \/ Oversized(th[t].tar) /\ Returns(t) /\ UNCHANGED archiveFaults
       \/ ArchiveFault /\ Returns(t)
    /\ UNCHANGED <<target, staging, orphans, snapshot, failed, calls>>

\* The archive is removed, checked, and returned.
PersistReturns(t) ==
    /\ th[t].pc = "read"
    /\ \/ snapshot' = th[t].tar /\ UNCHANGED <<failed, archiveFaults>>
       \/ ArchiveFault /\ failed' = TRUE /\ UNCHANGED snapshot
    /\ Returns(t)
    /\ UNCHANGED <<target, staging, orphans, calls>>

DrainRefuses(tar) == Size(tar) > Limit

StartHydrate(t) ==
    /\ th[t].pc = "idle" /\ snapshot # NoTar /\ Called
    /\ \/ /\ ~DrainRefuses(snapshot) /\ UNCHANGED archiveFaults
          /\ th' = [th EXCEPT ![t] = [pc |-> "unpack", tar |-> snapshot]]
       \/ ArchiveFault /\ UNCHANGED th
    /\ UNCHANGED <<target, staging, orphans, snapshot, failed>>

\* tar -x over the workspace, and the removal of the staged archive.
HydrateUnpacks(t) ==
    /\ th[t].pc = "unpack"
    /\ \/ target' = th[t].tar.file /\ UNCHANGED <<failed, archiveFaults>>
       \/ ArchiveFault /\ target' \in {target, Torn} /\ UNCHANGED failed
       \/ ArchiveFault /\ target' = th[t].tar.file /\ failed' = TRUE
    /\ Returns(t)
    /\ UNCHANGED <<staging, orphans, snapshot, calls>>

-----------------------------------------------------------------------------
ArchiveNext ==
    \/ \E t \in Tasks : \/ StartWrite(t) \/ Send(t) \/ SendFails(t) \/ RmFails(t)
                        \/ WriteReturns(t) \/ StartPersist(t) \/ PersistReads(t)
                        \/ PersistReturns(t) \/ StartHydrate(t) \/ HydrateUnpacks(t)
    \/ OrphanRuns

ArchiveSpec == ArchiveInit /\ [][ArchiveNext]_archiveVars

-----------------------------------------------------------------------------

\* A write that returns normally has removed its staging file, which would otherwise be
\* part of the next snapshot: a removal that fails is raised (_rm_checked).
WriteCleansUp ==
    \A t \in Tasks : th[t].pc = "wrote" /\ th[t].err = "none" => staging[th[t].w] = Absent

\* The file is what it was, the whole of what one call wrote, or what a failed decode or
\* unpacking left: never parts of two writes that staged at once, never a text with a
\* chunk missing (the unique staging names, and the check of every chunk's exit code).
NeverMixed == target \in {Before, Torn} \cup {Complete(w) : w \in Calls}

\* A decode that outlives its call does not overwrite what was written since: the call
\* removed the decode's input before it returned.
LateDecodeIsFenced ==
    (orphans' # orphans /\ ~failed /\ \A t \in Tasks : th[t].pc = "idle" /\ th'[t].pc = "idle")
         => target' = target

\* What persist_workspace returns, hydrate_workspace takes under the same limit.
SnapshotIsHydratable == ~DrainRefuses(snapshot)

\* When every call has ended, no clean-up failed and no command runs on, no staging file is
\* left next to a target (the clean-up in finally).
StagingCollected ==
    (~failed /\ orphans = {} /\ \A t \in Tasks : th[t].pc = "idle")
        => \A w \in Calls : staging[w] = Absent
=============================================================================
