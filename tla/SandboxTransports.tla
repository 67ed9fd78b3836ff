----------------------------- MODULE SandboxTransports -----------------------------
(***************************************************************************)
(* How the Python client reaches a sandbox: the transports of the threaded  *)
(* client, and the port-forward tunnel of the asyncio client. They share no *)
(* state; each has its own initial predicate and next-state relation.       *)
(***************************************************************************)
EXTENDS Integers, FiniteSets, FiniteSetsExt

CONSTANTS
    Mode,        \* "tunnel", "podTunnel", "podIp" or "service"
    Callers,
    Ops,         \* subset of {"http", "grpc"}
    Faults,      \* "die": kubectl ends; "start": a start fails; "stuck": kubectl outlives
                 \* close(); "swap": the pod is replaced; "net": a request gets no answer;
                 \* "close": the connection is closed by its owner
    MaxFaults    \* bound

CONSTANTS
    Tasks,
    Closer,      \* the task that calls close(), again when it failed
    AsyncFaults,      \* "cancel", "die", "start", "pod": no pod name, "error": a close raises,
                      \* "exit": the interpreter ends
    AsyncMaxFaults    \* bound

VARIABLES
    pod,       \* the pod behind the sandbox, swaps count up
    running,   \* kubectl processes alive
    proc,      \* port_forward_process, 0: None
    url,       \* base_url; in "service" mode _service_fqdn, 0: None
    target,    \* strategy.grpc_target, 0: None
    chan,      \* _grpc_channel: [id, to], id = 0: None
    open,      \* ids of channels not closed
    token,     \* _incluster_transport_token
    inc,       \* _incluster_target
    pc,        \* what each caller does
    loc,       \* its locals: [op, at: endpoint, chan, token]
    res,       \* how its last operation ended
    stale,     \* history: the transport was given up since this caller connected
    faults

VARIABLES
    asyncRunning,          \* kubectl processes alive
    asyncProc, asyncTarget,     \* the strategy: port_forward_process, grpc_target (with base_url); 0: None
    ctarget,          \* the connector's grpc_target
    asyncChan, asyncOpen,       \* _grpc_channel as [id, to]; channels not closed
    closed, complete, \* _closed, _close_complete
    lock,             \* holder of _lifecycle_lock; the strategy's own lock is nested in it
    asyncPc,               \* of the tasks and of the closer
    asyncLoc,              \* [op, chan, to] of each task
    errs,             \* close() has collected an error
    asyncRes, exited, asyncFaults

-----------------------------------------------------------------------------
(***************************************************************************)
(* The transport of one synchronous SandboxConnector shared by threads:    *)
(* the kubectl tunnels (to the router, to the sandbox pod), the direct     *)
(* sandboxd endpoints, and the gRPC channel kept on top of them.  A caller *)
(* sends HTTP requests or runs commands over gRPC; what is done under the  *)
(* transport lock is one step, what is done outside it is not.             *)
(*                                                                         *)
(* An endpoint is a number: of the tunnel, or of the pod behind it in the  *)
(* in-cluster modes.                                                       *)
(*                                                                         *)
(* clients/python/agentic-sandbox-client/k8s_agent_sandbox: connector.py,  *)
(* commands/command_executor.py.                                           *)
(***************************************************************************)
conn == <<proc, url, target, chan, open, token, inc>>
threadVars == <<pod, running, conn, pc, loc, res, stale, faults>>

Tunnel == Mode \in {"tunnel", "podTunnel"}
Sandboxd == Mode # "tunnel"
None == 0
NoChan == [id |-> 0, to |-> 0]
Idle == [op |-> "http", at |-> None, chan |-> None, token |-> None]

\* An identity nobody holds: a port, a channel, a token.
Nat4 == 1..(2 * Cardinality(Callers) + 4)
FreshTunnel == Min(Nat4 \ (running \cup {proc} \cup {loc[c].at : c \in Callers} \cup {chan.to}))
FreshChan == Min(Nat4 \ (open \cup {loc[c].chan : c \in Callers}))
FreshToken == Min(Nat4 \ ({token} \cup {loc[c].token : c \in Callers}))

ThreadInit ==
    /\ pod = 1 /\ running = {} /\ proc = None /\ url = None /\ target = None /\ chan = NoChan
    /\ open = {} /\ token = 1 /\ inc = None
    /\ pc = [c \in Callers |-> "idle"] /\ loc = [c \in Callers |-> Idle]
    /\ res = [c \in Callers |-> "none"] /\ stale = [c \in Callers |-> FALSE] /\ faults = 0

----------------------------------------------------------------------------
Fault(f) == f \in Faults /\ faults < MaxFaults /\ faults' = faults + 1

\* kubectl ends by itself; the pod is replaced, and a tunnel to it ends.
Die ==
    /\ Fault("die") /\ running # {} /\ running' = {} /\ UNCHANGED <<pod, conn, pc, loc, res, stale>>
Swap ==
    /\ Fault("swap") /\ pod' = pod + 1
    /\ running' = IF Mode = "podTunnel" THEN {} ELSE running
    /\ UNCHANGED <<conn, pc, loc, res, stale>>

Ends(c, how) ==
    /\ pc' = [pc EXCEPT ![c] = "idle"] /\ res' = [res EXCEPT ![c] = how]
    /\ loc' = [loc EXCEPT ![c] = Idle]

GivenUp == stale' = [c \in Callers |-> pc[c] # "idle"]

\* strategy.close(): a kubectl that cannot be stopped stays known.
CloseStrategy(stuck) ==
    IF Tunnel /\ proc # None /\ ~stuck
    THEN running' = running \ {proc} /\ proc' = None /\ url' = None /\ target' = None
    ELSE IF Tunnel THEN UNCHANGED <<running, proc, url, target>>
    ELSE url' = None /\ target' = None /\ UNCHANGED <<running, proc>>

Stuck(b) == IF b THEN Tunnel /\ proc \in running /\ Fault("stuck") ELSE UNCHANGED faults

DropChannel == chan' = NoChan /\ open' = open \ {chan.id}

\* SandboxConnector.close
Close(stuck) ==
    /\ token' = FreshToken /\ inc' = None /\ DropChannel /\ CloseStrategy(stuck) /\ GivenUp

UserClose ==
    /\ Fault("close") /\ Close(FALSE) /\ UNCHANGED <<pod, pc, loc, res>>

\* invalidate_sandboxd_transport: "A late failure must not close a replacement."
Invalidate(ch, tok) ==
    IF Tunnel \/ (ch # None /\ ch # chan.id) \/ (tok # None /\ tok # token)
    THEN UNCHANGED <<conn, running, stale>>
    ELSE /\ token' = FreshToken /\ inc' = None /\ DropChannel
         /\ url' = None /\ target' = None /\ GivenUp /\ UNCHANGED <<proc, running>>

----------------------------------------------------------------------------
\* The caller goes on with the endpoint it got.
Connected(c, op, at) ==
    /\ pc' = [pc EXCEPT ![c] = IF op = "grpc" THEN "channel" ELSE IF Tunnel THEN "verify" ELSE "send"]
    /\ loc' = [loc EXCEPT ![c] = [op |-> op, at |-> at, chan |-> None, token |-> token']]
    /\ UNCHANGED res

\* send_request closes the connector on a SandboxPortForwardError, a command does not.
PortForwardError(c, op) ==
    \/ /\ op = "http" /\ pc' = [pc EXCEPT ![c] = "broken"] /\ UNCHANGED <<loc, res>>
    \/ op = "grpc" /\ Ends(c, "portforward")

\* connect() of both tunnels, under the lock: reuse, or close what is dead and start anew.
\* A start that times out closes its kubectl, which may not end either.
ConnectTunnel(c, op) ==
    /\ Tunnel /\ UNCHANGED <<pod, chan, open, token, inc>>
    /\ \/ /\ url # None /\ proc \in running
          /\ Connected(c, op, url) /\ stale' = [stale EXCEPT ![c] = FALSE]
          /\ UNCHANGED <<running, proc, url, target, faults>>
       \/ /\ ~(url # None /\ proc \in running)
          /\ \/ /\ proc \in running /\ Stuck(TRUE) /\ PortForwardError(c, op)
                /\ UNCHANGED <<running, proc, url, target, stale>>
             \/ /\ UNCHANGED faults
                /\ proc' = FreshTunnel /\ url' = proc' /\ running' = (running \ {proc}) \cup {proc'}
                /\ target' = IF Sandboxd THEN proc' ELSE None
                /\ Connected(c, op, proc') /\ stale' = [d \in Callers |-> d # c /\ pc[d] # "idle"]
             \/ /\ Fault("start") /\ "stuck" \in Faults
                /\ proc' = FreshTunnel /\ running' = (running \ {proc}) \cup {proc'}
                /\ url' = None /\ target' = None /\ GivenUp /\ Ends(c, "timeout")
             \/ /\ Fault("start")
                /\ url' = None /\ target' = None /\ running' = running \ {proc} /\ GivenUp
                /\ \/ proc' = FreshTunnel /\ PortForwardError(c, op)
                   \/ proc' = None /\ (Ends(c, "timeout") \/ (Sandboxd /\ PortForwardError(c, op)))

\* connect() of the in-cluster strategies and of the connector around them.
ConnectDirect(c, op) ==
    /\ ~Tunnel /\ UNCHANGED <<pod, running, proc, chan, open>>
    /\ \/ /\ target' = (IF Mode = "podIp" THEN pod ELSE 1)
          /\ url' = (IF Mode = "service" THEN 1 ELSE None)
          /\ inc' = target' /\ token' = (IF target' = inc THEN token ELSE FreshToken)
          /\ stale' = [d \in Callers |-> d # c /\ (stale[d] \/ (token' # token /\ pc[d] # "idle"))]
          /\ Connected(c, op, target') /\ UNCHANGED faults
       \/ /\ Fault("start") /\ (Mode = "service" => url = None)
          /\ target' = None /\ UNCHANGED url
          /\ inc' = None /\ token' = FreshToken /\ GivenUp /\ Ends(c, "notready")

Connect(c) ==
    pc[c] = "idle" /\ \E op \in Ops : ConnectTunnel(c, op) \/ ConnectDirect(c, op)

\* verify_connection, outside the lock: port_forward_process is read, and read again.
Verify(c) ==
    /\ \/ /\ pc[c] = "verify" /\ UNCHANGED <<loc, res>>
          /\ pc' = [pc EXCEPT ![c] = IF proc = None THEN "send" ELSE "verify2"]
       \/ /\ pc[c] = "verify2"
          /\ \/ proc = None /\ Ends(c, "attribute")
             \/ proc \in running /\ pc' = [pc EXCEPT ![c] = "send"] /\ UNCHANGED <<loc, res>>
             \/ /\ proc # None /\ proc \notin running
                /\ pc' = [pc EXCEPT ![c] = "broken"] /\ UNCHANGED <<loc, res>>
    /\ UNCHANGED <<pod, running, conn, stale, faults>>

Reachable(at) ==
    CASE Tunnel -> at \in running
      [] Mode = "podIp" -> at = pod
      [] OTHER -> TRUE

\* The request of send_request: it is answered, or no response comes.
Send(c) ==
    /\ pc[c] = "send"
    /\ \/ Reachable(loc[c].at) /\ Ends(c, "ok") /\ UNCHANGED faults
       \/ /\ IF Reachable(loc[c].at) THEN Fault("net") ELSE UNCHANGED faults
          /\ pc' = [pc EXCEPT ![c] = "lost"] /\ UNCHANGED <<loc, res>>
    /\ UNCHANGED <<pod, running, conn, stale>>

\* The handlers of send_request.
Handle(c) ==
    /\ pc[c] \in {"lost", "broken"}
    /\ \/ /\ pc[c] = "broken" \/ Tunnel
          /\ \E b \in BOOLEAN : Stuck(b) /\ Close(b)
       \/ pc[c] = "lost" /\ ~Tunnel /\ Invalidate(None, loc[c].token) /\ UNCHANGED faults
    /\ Ends(c, IF pc[c] = "lost" THEN "request" ELSE "portforward")
    /\ UNCHANGED pod

\* grpc_channel, under the lock.
GetChannel(c) ==
    /\ pc[c] = "channel"
    /\ \/ target = None /\ Ends(c, "request") /\ UNCHANGED <<chan, open>>
       \/ /\ target # None
          /\ IF chan.id # None /\ chan.to = target THEN UNCHANGED <<chan, open>>
             ELSE /\ chan' = [id |-> FreshChan, to |-> target]
                  /\ open' = (open \ {chan.id}) \cup {chan'.id}
          /\ pc' = [pc EXCEPT ![c] = "call"] /\ UNCHANGED res
          /\ loc' = [loc EXCEPT ![c].chan = chan'.id, ![c].at = chan'.to]
    /\ UNCHANGED <<pod, running, proc, url, target, token, inc, stale, faults>>

\* The RPC of run(): answered, UNAVAILABLE, or cancelled with its channel.
Call(c) ==
    /\ pc[c] = "call"
    /\ \/ loc[c].chan \notin open /\ Ends(c, "cancelled") /\ UNCHANGED faults
       \/ loc[c].chan \in open /\ Reachable(loc[c].at) /\ Ends(c, "ok") /\ UNCHANGED faults
       \/ /\ loc[c].chan \in open
          /\ IF Reachable(loc[c].at) THEN Fault("net") ELSE UNCHANGED faults
          /\ pc' = [pc EXCEPT ![c] = "unavailable"] /\ UNCHANGED <<loc, res>>
    /\ UNCHANGED <<pod, running, conn, stale>>

Unavailable(c) ==
    /\ pc[c] = "unavailable" /\ Invalidate(loc[c].chan, None) /\ Ends(c, "runtime")
    /\ UNCHANGED <<pod, faults>>

Step(c) ==
    Connect(c) \/ Verify(c) \/ Send(c) \/ Handle(c) \/ GetChannel(c) \/ Call(c) \/ Unavailable(c)

ThreadNext == Die \/ Swap \/ UserClose \/ \E c \in Callers : Step(c)
ThreadSpec == ThreadInit /\ [][ThreadNext]_threadVars

----------------------------------------------------------------------------
(* Properties                                                              *)

\* A kubectl that runs is the one the strategy knows and will stop (_connect: "failed to clean
\* up the existing port-forward before reconnecting").
OneTunnel == running \subseteq {proc}

\* "never return a channel pointing at a closed port": what grpc_channel returns is open and
\* leads to the endpoint of now.
ChannelIsCurrent ==
    \A c \in Callers : pc[c] = "channel" /\ pc'[c] = "call" =>
       loc'[c].chan \in open' /\ chan'.id = loc'[c].chan /\ chan'.to = target

\* "A late failure must not close a replacement": the failure of an operation whose transport
\* was given up meanwhile closes no channel but its own.
LateFailureSpares ==
    \A c \in Callers : pc[c] \in {"lost", "unavailable"} /\ pc'[c] = "idle" /\ stale[c] =>
       chan' = chan \/ chan.id = loc[c].chan

LastServed(c) == res[c] = "ok"

-----------------------------------------------------------------------------
(***************************************************************************)
(* The sandboxd transport of the asynchronous connector: the kubectl       *)
(* process that forwards both ports of the pod, the gRPC channel over it,  *)
(* and their teardown by close(), by a cancelled task and at exit.  Tasks  *)
(* of one event loop; a step ends where the code awaits, and a task may be *)
(* cancelled there.                                                        *)
(*                                                                         *)
(* clients/python/agentic-sandbox-client/k8s_agent_sandbox:                *)
(* async_connector.py, commands/async_command_executor.py.                 *)
(***************************************************************************)
asyncConn == <<asyncRunning, asyncProc, asyncTarget, ctarget, asyncChan, asyncOpen, closed, complete>>
asyncVars == <<asyncConn, lock, asyncPc, asyncLoc, errs, asyncRes, exited, asyncFaults>>

AsyncNone == 0
AsyncNoChan == [id |-> 0, to |-> 0]
AsyncIdle == [op |-> "http", chan |-> 0, to |-> 0]
Ids == 1..(Cardinality(Tasks) + 3)
Fresh(used) == Min(Ids \ used)

AsyncInit ==
    /\ asyncRunning = {} /\ asyncProc = AsyncNone /\ asyncTarget = AsyncNone /\ ctarget = AsyncNone
    /\ asyncChan = AsyncNoChan /\ asyncOpen = {} /\ closed = FALSE /\ complete = FALSE /\ lock = "free"
    /\ asyncPc = [t \in Tasks \cup {Closer} |-> "idle"] /\ asyncLoc = [t \in Tasks |-> AsyncIdle]
    /\ errs = FALSE /\ asyncRes = [t \in Tasks |-> "none"] /\ exited = FALSE /\ asyncFaults = 0

AsyncFault(f) == f \in AsyncFaults /\ asyncFaults < AsyncMaxFaults /\ asyncFaults' = asyncFaults + 1
Goto(t, p) == asyncPc' = [asyncPc EXCEPT ![t] = p]
AsyncEnds(t, how) ==
    Goto(t, "idle") /\ asyncRes' = [asyncRes EXCEPT ![t] = how] /\ asyncLoc' = [asyncLoc EXCEPT ![t] = AsyncIdle]

AsyncDie ==
         /\ AsyncFault("die") /\ asyncRunning # {} /\ asyncRunning' = {}
         /\ UNCHANGED <<asyncProc, asyncTarget, ctarget, asyncChan, asyncOpen, closed, complete, lock, asyncPc, asyncLoc, errs,
                        asyncRes, exited>>

----------------------------------------------------------------------------
\* connect(), or grpc_channel() of a command that has connected: the lock, and _ensure_open.
Enter(t) ==
    /\ asyncPc[t] \in {"idle", "channel"} /\ lock = "free"
    /\ \/ closed /\ asyncRes[t] # "closed" /\ AsyncEnds(t, "closed") /\ UNCHANGED lock
       \/ /\ ~closed /\ lock' = t /\ UNCHANGED asyncRes
          /\ IF asyncPc[t] = "idle"
             THEN Goto(t, "connect") /\ \E op \in {"http", "grpc"} : asyncLoc' = [asyncLoc EXCEPT ![t].op = op]
             ELSE Goto(t, IF ctarget = AsyncNone THEN "connect" ELSE "dial") /\ UNCHANGED asyncLoc
    /\ UNCHANGED <<asyncConn, errs, exited, asyncFaults>>

\* The strategy's connect() has an endpoint: where the task goes with it.
Published(t, to) ==
    /\ ctarget' = to
    /\ IF asyncLoc[t].op = "grpc" /\ asyncLoc[t].to # AsyncNone THEN Goto(t, "dial") /\ UNCHANGED <<lock, asyncLoc, asyncRes>>
       ELSE /\ lock' = "free"
            /\ IF asyncLoc[t].op = "http" THEN AsyncEnds(t, "ok")
               ELSE Goto(t, "channel") /\ asyncLoc' = [asyncLoc EXCEPT ![t].to = to] /\ UNCHANGED asyncRes
Raises(t, how) == lock' = "free" /\ AsyncEnds(t, how) /\ UNCHANGED ctarget

\* _connect_locked up to its first await.
AsyncConnect(t) ==
    /\ asyncPc[t] = "connect"
    /\ \/ asyncTarget # AsyncNone /\ asyncProc \in asyncRunning /\ Published(t, asyncTarget)
       \/ /\ ~(asyncTarget # AsyncNone /\ asyncProc \in asyncRunning)
          /\ Goto(t, IF asyncProc = AsyncNone THEN "name" ELSE "stop") /\ UNCHANGED <<lock, asyncLoc, asyncRes, ctarget>>
    /\ UNCHANGED <<asyncRunning, asyncProc, asyncTarget, asyncChan, asyncOpen, closed, complete, errs, exited, asyncFaults>>

\* _close_locked of a connecting task: before a restart, or after a failed start.
Stop(t) ==
    /\ asyncPc[t] \in {"stop", "abort"}
    /\ asyncRunning' = asyncRunning \ {asyncProc} /\ asyncProc' = AsyncNone /\ asyncTarget' = AsyncNone
    /\ \/ asyncPc[t] = "stop" /\ Goto(t, "name") /\ UNCHANGED <<lock, asyncLoc, asyncRes, ctarget>>
       \/ asyncPc[t] = "abort" /\ Raises(t, "portforward")
    /\ UNCHANGED <<asyncChan, asyncOpen, closed, complete, errs, exited, asyncFaults>>

\* The pod's name, and kubectl.
Spawn(t) ==
    /\ asyncPc[t] = "name"
    /\ \/ /\ asyncProc' = Fresh(asyncRunning \cup {asyncChan.to} \cup {asyncLoc[u].to : u \in Tasks})
          /\ asyncRunning' = asyncRunning \cup {asyncProc'}
          /\ Goto(t, "wait") /\ UNCHANGED <<lock, asyncLoc, asyncRes, ctarget, asyncFaults>>
       \/ AsyncFault("pod") /\ Raises(t, "portforward") /\ UNCHANGED <<asyncProc, asyncRunning>>
    /\ UNCHANGED <<asyncTarget, asyncChan, asyncOpen, closed, complete, errs, exited>>

\* Both ports answer, the process has ended, or the time is over.
Wait(t) ==
    /\ asyncPc[t] = "wait"
    /\ \/ asyncProc \in asyncRunning /\ asyncTarget' = asyncProc /\ Published(t, asyncProc) /\ UNCHANGED asyncFaults
       \/ /\ IF asyncProc \in asyncRunning THEN AsyncFault("start") ELSE UNCHANGED asyncFaults
          /\ Goto(t, "abort") /\ UNCHANGED <<lock, asyncLoc, asyncRes, ctarget, asyncTarget>>
    /\ UNCHANGED <<asyncRunning, asyncProc, asyncChan, asyncOpen, closed, complete, errs, exited>>

\* The task is cancelled where it waits: a start in progress is undone, a teardown in progress
\* leaves the process to the next one.
Cancel(t) ==
    /\ asyncPc[t] \in {"stop", "name", "wait", "abort"} /\ AsyncFault("cancel")
    /\ IF asyncPc[t] = "wait" THEN Goto(t, "abort") /\ UNCHANGED <<lock, asyncLoc, asyncRes, ctarget>>
       ELSE Raises(t, "cancelled")
    /\ UNCHANGED <<asyncRunning, asyncProc, asyncTarget, asyncChan, asyncOpen, closed, complete, errs, exited>>

\* grpc_channel with the lock: the channel of this endpoint, or a new one.
Dial(t) ==
    /\ asyncPc[t] = "dial" /\ lock' = "free" /\ Goto(t, "call")
    /\ IF asyncChan.id # 0 /\ asyncChan.to = ctarget THEN UNCHANGED <<asyncChan, asyncOpen>>
       ELSE /\ asyncChan' = [id |-> Fresh(asyncOpen \cup {asyncLoc[u].chan : u \in Tasks}), to |-> ctarget]
            /\ asyncOpen' = (asyncOpen \ {asyncChan.id}) \cup {asyncChan'.id}
    /\ asyncLoc' = [asyncLoc EXCEPT ![t].chan = asyncChan'.id, ![t].to = ctarget]
    /\ UNCHANGED <<asyncRunning, asyncProc, asyncTarget, ctarget, closed, complete, errs, asyncRes, exited, asyncFaults>>

AsyncCall(t) ==
    /\ asyncPc[t] = "call"
    /\ AsyncEnds(t, IF asyncLoc[t].chan \notin asyncOpen THEN "cancelled"
                    ELSE IF asyncLoc[t].to \in asyncRunning THEN "ok" ELSE "unavailable")
    /\ UNCHANGED <<asyncConn, lock, errs, exited, asyncFaults>>

----------------------------------------------------------------------------

\* close(): the HTTP client, then the channel, then the strategy; errors are collected.
CloseBegin ==
    /\ asyncPc[Closer] = "idle" /\ lock = "free" /\ ~complete
    /\ lock' = Closer /\ closed' = TRUE /\ errs' = FALSE /\ Goto(Closer, "chan")
    /\ UNCHANGED <<asyncRunning, asyncProc, asyncTarget, ctarget, asyncChan, asyncOpen, complete, asyncLoc, asyncRes, exited, asyncFaults>>

CloseChannel ==
    /\ asyncPc[Closer] = "chan" /\ Goto(Closer, "strategy")
    /\ \/ asyncChan' = AsyncNoChan /\ asyncOpen' = asyncOpen \ {asyncChan.id} /\ UNCHANGED <<errs, asyncFaults>>
       \/ asyncChan.id # 0 /\ AsyncFault("error") /\ errs' = TRUE /\ UNCHANGED <<asyncChan, asyncOpen>>
    /\ UNCHANGED <<asyncRunning, asyncProc, asyncTarget, ctarget, closed, complete, lock, asyncLoc, asyncRes, exited>>

AsyncCloseStrategy ==
    /\ asyncPc[Closer] = "strategy" /\ Goto(Closer, "idle") /\ lock' = "free"
    /\ \/ /\ asyncRunning' = asyncRunning \ {asyncProc} /\ asyncProc' = AsyncNone /\ asyncTarget' = AsyncNone
          /\ ctarget' = AsyncNone /\ complete' = ~errs /\ UNCHANGED asyncFaults
       \/ /\ asyncProc \in asyncRunning /\ AsyncFault("cancel")
          /\ UNCHANGED <<asyncRunning, asyncProc, asyncTarget, ctarget, complete>>
    /\ UNCHANGED <<asyncChan, asyncOpen, closed, asyncLoc, errs, asyncRes, exited>>

\* _close_for_atexit, when the event loop does not run any more.
AtExit ==
    /\ AsyncFault("exit") /\ exited' = TRUE /\ closed' = TRUE
    /\ asyncRunning' = asyncRunning \ {asyncProc} /\ asyncProc' = AsyncNone /\ asyncTarget' = AsyncNone /\ ctarget' = AsyncNone
    /\ asyncChan' = AsyncNoChan /\ UNCHANGED <<asyncOpen, complete, lock, asyncPc, asyncLoc, errs, asyncRes>>

AsyncStep(t) == Enter(t) \/ AsyncConnect(t) \/ Stop(t) \/ Spawn(t) \/ Wait(t) \/ Dial(t) \/ AsyncCall(t)
CloseStep == CloseBegin \/ CloseChannel \/ AsyncCloseStrategy

AsyncNext == ~exited /\ (\/ AsyncDie \/ CloseStep \/ AtExit
                         \/ \E t \in Tasks : AsyncStep(t) \/ Cancel(t))
AsyncSpec == AsyncInit /\ [][AsyncNext]_asyncVars

----------------------------------------------------------------------------
(* Properties                                                              *)

\* Every kubectl that runs is known to the strategy, which can stop it, whatever task was
\* cancelled and wherever (_start_tunnel_locked, _close_locked); after exit none runs.
NoOrphan == asyncRunning \subseteq {asyncProc} /\ (exited => asyncRunning = {})

\* When close() has succeeded nothing is left of the transport, and nothing comes back
\* ("close cannot race with a new tunnel or gRPC channel being published").
CloseIsFinal == complete => asyncRunning = {} /\ asyncOpen = {} /\ ctarget = AsyncNone /\ asyncChan = AsyncNoChan

=============================================================================
