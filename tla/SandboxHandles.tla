-------------------------- MODULE SandboxHandles --------------------------
(***************************************************************************)
(* One SandboxHandle and the worker that drives it: commands over a held   *)
(* exec session or one-shot, the check that tells a slow command from a    *)
(* lost pod, suspend, resume and refresh.  The pod below it is evicted and *)
(* recreated under its name, or its container restarts in place.           *)
(*                                                                         *)
(* examples/agent-sandbox-rl/agent_sandbox_rl/handles.py.                  *)
(***************************************************************************)
EXTENDS Integers, Sequences, FiniteSets

CONSTANTS
    Containers,   \* of the pod; the first two roles below
    Runtime,      \* constants.RUNTIME_CONTAINER
    Faults,       \* "timeout", "transport", "read", "name" (refresh cannot read the name)
    MaxCommands, MaxPods, MaxRestarts

VARIABLES
    pod,       \* the sandbox's pod: [up, uid, name, restarts]
    suspended,
    handle,    \* pod_name, pod_uid, runtime_restarts; None is unknown
    session,   \* [on, open, uid, container]
    shell,     \* what the shell of the session has yet to print: commands and markers
    wire,      \* printed and not read
    pc,        \* the worker: "idle" | "run" | "oneshot" | "check" | "refresh"
    cmd, target,   \* the command and container of the exec in progress
    buf,       \* what run has read so far
    seq,       \* commands issued, also the session's markers
    base,      \* history: the true <<uid, restarts>> behind the handle's identity
    fresh,     \* history: the last refresh succeeded
    result     \* history: the last exec: [kind, cmd, container, out]

vars == <<pod, suspended, handle, session, shell, wire, pc, cmd, target, buf, seq, base, fresh,
          result>>

None == -1
NoSession == [on |-> FALSE, open |-> FALSE, uid |-> None, container |-> Runtime]
NoResult == [kind |-> "none", cmd |-> 0, asked |-> Runtime, out |-> <<>>]
Marker(n) == <<"marker", n>>
Output(n, c) == <<"out", n, c>>
Identity == <<pod.uid, pod.restarts>>

Init ==
    /\ pod = [up |-> TRUE, uid |-> 1, name |-> 1, restarts |-> 0]
    /\ suspended = FALSE
    /\ \/ handle = [name |-> 1, uid |-> 1, restarts |-> 0]
       \/ "read" \in Faults /\ handle = [name |-> 1, uid |-> None, restarts |-> None]
    /\ session = NoSession /\ shell = <<>> /\ wire = <<>>
    /\ pc = "idle" /\ cmd = 0 /\ target = Runtime /\ buf = <<>> /\ seq = 0
    /\ base = Identity /\ fresh = TRUE /\ result = NoResult

world == <<pod, suspended>>
call == <<cmd, target, buf, seq>>
past == <<base, fresh, result>>

---------------------------------------------------------------------------
\* The pod is evicted and recreated under the same name; its sessions close.
Evict ==
    /\ pod.up /\ pod.uid < MaxPods
    /\ pod' = [pod EXCEPT !.uid = @ + 1, !.restarts = 0]
    /\ session' = [session EXCEPT !.open = FALSE] /\ shell' = <<>>
    /\ UNCHANGED <<suspended, handle, wire, pc, call, past>>

\* The runtime container is killed and restarts in place; a session in it closes.
Restart ==
    /\ pod.up /\ pod.restarts < MaxRestarts
    /\ pod' = [pod EXCEPT !.restarts = @ + 1]
    /\ IF session.on /\ session.container = Runtime
       THEN session' = [session EXCEPT !.open = FALSE] /\ shell' = <<>>
       ELSE UNCHANGED <<session, shell>>
    /\ UNCHANGED <<suspended, handle, wire, pc, call, past>>

\* The shell of the session prints the next thing it was sent.
ShellPrints ==
    /\ session.on /\ session.open /\ shell # <<>>
    /\ wire' = Append(wire, Head(shell)) /\ shell' = Tail(shell)
    /\ UNCHANGED <<world, handle, session, pc, call, past>>

---------------------------------------------------------------------------
UsesSession(c) == session.on /\ session.open /\ session.container = c

Dropped == session' = NoSession /\ shell' = <<>> /\ wire' = <<>>

\* open_session: the one there, or a new one in place of another container's.
OpenSession(c) ==
    /\ pc = "idle" /\ pod.up /\ handle.name = pod.name /\ ~UsesSession(c)
    /\ session' = [on |-> TRUE, open |-> TRUE, uid |-> pod.uid, container |-> c]
    /\ shell' = <<>> /\ wire' = <<>>
    /\ UNCHANGED <<world, handle, pc, call, past>>

\* exec: over the session of that container, else one-shot.
Exec(c) ==
    /\ pc = "idle" /\ seq < MaxCommands
    /\ seq' = seq + 1 /\ cmd' = seq + 1 /\ target' = c /\ buf' = <<>>
    /\ IF UsesSession(c)
       THEN /\ shell' = shell \o <<Output(seq + 1, session.container), Marker(seq + 1)>>
            /\ pc' = "run"
       ELSE pc' = "oneshot" /\ UNCHANGED shell
    /\ UNCHANGED <<world, handle, session, wire, past>>

Answer(kind, out) ==
    /\ result' = [kind |-> kind, cmd |-> cmd, asked |-> target, out |-> out]
    /\ pc' = "idle"

\* run's loop: one read of the stream; the marker ends the command.
Read ==
    /\ pc = "run" /\ wire # <<>>
    /\ wire' = Tail(wire)
    /\ IF Head(wire) = Marker(cmd)
       THEN Answer("output", buf) /\ UNCHANGED buf
       ELSE buf' = Append(buf, Head(wire)) /\ UNCHANGED <<pc, result>>
    /\ UNCHANGED <<world, handle, session, shell, cmd, target, seq, base, fresh>>

\* Faulty: the timed-out session stays for the next command.
RunGivesUpKeeps ==
    /\ pc = "run"
    /\ "timeout" \in Faults \/ (~session.open /\ wire = <<>>)
    /\ pc' = "check"
    /\ UNCHANGED <<world, handle, session, shell, wire, call, past>>

\* A timeout, or a closed stream: the session is closed before run raises.
RunGivesUp ==
    /\ pc = "run"
    /\ "timeout" \in Faults \/ (~session.open /\ wire = <<>>)
    /\ session' = [session EXCEPT !.open = FALSE] /\ shell' = <<>> /\ wire' = <<>>
    /\ pc' = "check"
    /\ UNCHANGED <<world, handle, call, past>>

\* exec_in_pod: whatever pod has the name now runs it, or the handshake fails.
OneShot ==
    /\ pc = "oneshot"
    /\ \/ /\ pod.up /\ handle.name = pod.name
          /\ Answer("output", <<Output(cmd, target)>>)
       \/ /\ ~pod.up \/ handle.name # pod.name \/ "transport" \in Faults
          /\ pc' = "check" /\ UNCHANGED result
    /\ UNCHANGED <<world, handle, session, shell, wire, call, base, fresh>>

\* _pod_is_live: the pod read is the one whose identity the handle knows.
PodIsLive ==
    /\ handle.uid # None => handle.uid = pod.uid
    /\ handle.restarts # None => handle.restarts >= pod.restarts

IsAlive == pod.up /\ handle.name = pod.name /\ PodIsLive

\* _raise_if_lost: a dead pod explains the error; else, or when the check fails, it stands.
CheckLost ==
    /\ pc = "check"
    /\ \/ IsAlive /\ Answer("error", <<>>) /\ UNCHANGED <<session, shell, wire>>
       \/ "read" \in Faults /\ Answer("unchecked", <<>>) /\ UNCHANGED <<session, shell, wire>>
       \/ ~IsAlive /\ Answer("lost", <<>>) /\ Dropped
    /\ UNCHANGED <<world, handle, call, base, fresh>>

---------------------------------------------------------------------------

\* suspend: the session is closed first; the pod goes.
Suspend ==
    /\ pc = "idle" /\ ~suspended /\ pod.up
    /\ Dropped
    /\ suspended' = TRUE /\ pod' = [pod EXCEPT !.up = FALSE]
    /\ UNCHANGED <<handle, pc, call, past>>

\* resume and restore: a new pod, then refresh.
Resume ==
    /\ pc = "idle" /\ suspended /\ pod.uid < MaxPods
    /\ suspended' = FALSE
    /\ pod' = [up |-> TRUE, uid |-> pod.uid + 1, name |-> pod.name + 1, restarts |-> 0]
    /\ pc' = "refresh" /\ fresh' = FALSE /\ base' = Identity'
    /\ UNCHANGED <<handle, session, shell, wire, call, result>>

\* A caller that saw refresh raise calls it again.
RefreshAgain ==
    /\ pc = "idle" /\ ~fresh /\ pc' = "refresh"
    /\ UNCHANGED <<world, handle, session, shell, wire, call, past>>

\* record_pod_identity: unknown before it is read.
RecordPodIdentity ==
    \/ /\ handle' = [name |-> pod.name, uid |-> pod.uid, restarts |-> pod.restarts]
       /\ base' = Identity
    \/ /\ "read" \in Faults
       /\ handle' = [name |-> pod.name, uid |-> None, restarts |-> None] /\ UNCHANGED base

Refresh ==
    /\ pc = "refresh" /\ Dropped
    /\ \/ RecordPodIdentity /\ fresh' = TRUE
       \/ "name" \in Faults /\ UNCHANGED <<handle, base, fresh>>
    /\ pc' = "idle"
    /\ UNCHANGED <<world, call, result>>

World == Evict \/ Restart \/ ShellPrints
Worker == \/ \E c \in Containers : OpenSession(c) \/ Exec(c)
          \/ Read \/ RunGivesUp \/ OneShot \/ CheckLost
          \/ Suspend \/ Resume \/ RefreshAgain \/ Refresh
Next == World \/ Worker
Spec == Init /\ [][Next]_vars

---------------------------------------------------------------------------

\* An exec returns the output of its own command, run in the container it named: nothing of
\* a command that timed out before it ("its stale buffer can't bleed into the next call",
\* SandboxSession.run), and no other container's session ("for that container", exec).
OutputIsOwn ==
    result.kind = "output" => result.out = <<Output(result.cmd, result.asked)>>

\* SandboxLostError is raised only for a state that is lost: the pod the handle was last
\* bound to is gone, or was restarted (_raise_if_lost), unless the handle could not be
\* refreshed and the caller was told so.
LostIsLost ==
    pc = "check" /\ pc' = "idle" /\ result'.kind = "lost" /\ fresh
     => ~pod.up \/ base # Identity

Executing == pc \in {"run", "oneshot", "check"}
ExecEnded == pc = "idle"

=============================================================================
