--------------------------- MODULE RequestRouting ---------------------------
(***************************************************************************)
(* send_request of the asynchronous connector, called by tasks of one      *)
(* event loop: the base URL and the Pod IP it caches, the HTTP client it   *)
(* makes on first use, its retries, what it forgets when a request fails,  *)
(* and close().  A step ends where the code awaits.                        *)
(*                                                                         *)
(* A request goes to a pod address, or with no address by name, which      *)
(* always finds the pod of now.                                            *)
(*                                                                         *)
(* clients/python/agentic-sandbox-client/k8s_agent_sandbox:                *)
(* async_connector.py; the synchronous connector routes the same way.      *)
(***************************************************************************)
EXTENDS Integers, FiniteSets

CONSTANTS
    Mode,        \* "router": through the sandbox router; "inCluster": to the pod itself
    Tasks,
    Methods,     \* subset of {"GET", "POST", "BODY"}; BODY is sent with _disable_retries
    MaxRetries,
    Faults,      \* "swap": the pod is replaced; "status": the sandbox answers 5xx; "lost": it
                 \* handles the request and the answer is lost; "connect"; "auth": the API
                 \* refuses the Pod IP; "api": it does not answer; "close": close() is called
    MaxFaults    \* bound

VARIABLES
    pod,        \* the pod behind the sandbox
    ip,         \* _pod_ip with _pod_ip_resolved, 0: not resolved
    authFailed, \* _pod_ip_auth_failed
    client,     \* _client: "none", "open", "closed"
    closed,     \* _closed
    lock,       \* holder of _lifecycle_lock
    pc, loc,    \* per task; loc: [m: method, at: address, n: attempt, read: API answer]
    exec,       \* history: how often this call was handled by the sandbox
    last,       \* history: [how, at] of the task's last call
    faults

vars == <<pod, ip, authFailed, client, closed, lock, pc, loc, exec, last, faults>>

ByName == 0
Idle == [m |-> "GET", at |-> ByName, n |-> 0, read |-> ByName]

Init ==
    /\ pod = 1 /\ ip = 0 /\ authFailed = FALSE /\ client = "none" /\ closed = FALSE /\ lock = "free"
    /\ pc = [t \in Tasks |-> "idle"] /\ loc = [t \in Tasks |-> Idle] /\ exec = [t \in Tasks |-> 0]
    /\ last = [t \in Tasks |-> [how |-> "none", at |-> ByName]] /\ faults = 0

Fault(f) == f \in Faults /\ faults < MaxFaults /\ faults' = faults + 1

Swap ==
    /\ Fault("swap") /\ pod' = pod + 1
    /\ UNCHANGED <<ip, authFailed, client, closed, lock, pc, loc, exec, last>>

Goto(t, p) == pc' = [pc EXCEPT ![t] = p]
Ends(t, how) ==
    /\ Goto(t, "idle") /\ last' = [last EXCEPT ![t] = [how |-> how, at |-> loc[t].at]]
    /\ loc' = [loc EXCEPT ![t] = Idle] /\ exec' = [exec EXCEPT ![t] = 0]

----------------------------------------------------------------------------
\* The call begins under the lock: _ensure_open, _resolve_base_url.
Begin(t) ==
    /\ pc[t] = "idle" /\ lock = "free"
    /\ \/ closed /\ last[t].how # "closed" /\ Ends(t, "closed") /\ UNCHANGED lock
       \/ /\ ~closed /\ UNCHANGED <<exec, last>>
          /\ \E m \in Methods :
                loc' = [loc EXCEPT ![t] = [Idle EXCEPT !.m = m, !.at = IF Mode = "inCluster" THEN ip
                                                                      ELSE ByName]]
          /\ \/ /\ Mode = "inCluster" /\ ip = 0 /\ Goto(t, "resolve") /\ lock' = t
             \/ Mode = "inCluster" /\ ip # 0 /\ Goto(t, "send") /\ UNCHANGED lock
             \/ Mode = "router" /\ Goto(t, "headers") /\ UNCHANGED lock
    /\ UNCHANGED <<pod, ip, authFailed, client, closed, faults>>

\* The Pod IP header: nothing after a refusal, the cached address, or the API is asked.
Headers(t) ==
    /\ pc[t] = "headers"
    /\ IF authFailed \/ ip # 0
       THEN /\ loc' = [loc EXCEPT ![t].at = IF authFailed THEN ByName ELSE ip] /\ Goto(t, "send")
       ELSE Goto(t, "resolve") /\ UNCHANGED loc
    /\ UNCHANGED <<pod, ip, authFailed, client, closed, lock, exec, last, faults>>

\* The API reads the pod; its answer arrives later.
Answer(t) ==
    /\ pc[t] = "resolve"
    /\ \/ loc' = [loc EXCEPT ![t].read = pod] /\ Goto(t, "assign") /\ UNCHANGED faults
       \/ Fault("api") /\ loc' = [loc EXCEPT ![t].read = ByName] /\ Goto(t, "assign")
       \/ Mode = "router" /\ Fault("auth") /\ Goto(t, "refused") /\ UNCHANGED loc
    /\ UNCHANGED <<pod, ip, authFailed, client, closed, lock, exec, last>>

\* The answer is cached; a pod without an address leaves the name.
Assign(t) ==
    /\ pc[t] \in {"assign", "refused"}
    /\ authFailed' = (authFailed \/ pc[t] = "refused")
    /\ ip' = (IF pc[t] = "refused" \/ loc[t].read = ByName THEN ip ELSE loc[t].read)
    /\ loc' = [loc EXCEPT ![t].at = IF Mode = "inCluster" /\ loc[t].read = ByName THEN ByName ELSE ip']
    /\ lock' = (IF Mode = "inCluster" THEN "free" ELSE lock) /\ Goto(t, "send")
    /\ UNCHANGED <<pod, client, closed, exec, last, faults>>

\* _ensure_client; a closed client or connector is a RuntimeError.
Send(t) ==
    /\ pc[t] = "send"
    /\ IF client = "closed" \/ (client = "none" /\ closed)
       THEN Ends(t, "closed") /\ UNCHANGED client
       ELSE client' = "open" /\ Goto(t, "flight") /\ UNCHANGED <<loc, exec, last>>
    /\ UNCHANGED <<pod, ip, authFailed, closed, lock, faults>>

Reached(t) == loc[t].at \in {ByName, pod}
Handled(t) == exec' = [exec EXCEPT ![t] = exec[t] + 1]

\* What comes back: an answer, a 5xx, or a transport error before or after the sandbox acted.
\* Closing the client ends what is in flight.
Response(t) ==
    /\ pc[t] = "flight"
    /\ \/ /\ Reached(t) /\ client = "open"
          /\ \/ Handled(t) /\ Goto(t, "ok") /\ UNCHANGED faults
             \/ Handled(t) /\ Goto(t, "status") /\ Fault("status")
             \/ Handled(t) /\ Goto(t, "lost") /\ Fault("lost")
             \/ UNCHANGED exec /\ Goto(t, "connect") /\ Fault("connect")
       \/ /\ ~Reached(t) /\ client = "open" /\ UNCHANGED <<exec, faults>>
          /\ Goto(t, IF Mode = "router" THEN "status" ELSE "connect")
       \/ /\ client = "closed" /\ UNCHANGED faults /\ Goto(t, "lost")
          /\ (Reached(t) /\ Handled(t)) \/ UNCHANGED exec
    /\ UNCHANGED <<pod, ip, authFailed, client, closed, lock, loc, last>>

\* Faulty: every method is sent again.
RetriesAll(t) == loc[t].n < (IF loc[t].m = "BODY" THEN 0 ELSE MaxRetries)

\* RETRYABLE_METHODS, and for the others an error before the request was sent.
Retries(t) ==
    /\ loc[t].n < (IF loc[t].m = "BODY" THEN 0 ELSE MaxRetries)
    /\ loc[t].m # "POST" \/ pc[t] = "connect"

\* "clear the cached routing state so the next request re-resolves"
Forget == ip' = 0

Finish(t) ==
    /\ pc[t] \in {"ok", "status", "lost", "connect"}
    /\ \/ pc[t] = "ok" /\ Ends(t, "ok") /\ UNCHANGED ip
       \/ /\ pc[t] # "ok" /\ Retries(t) /\ Goto(t, "send") /\ loc' = [loc EXCEPT ![t].n = loc[t].n + 1]
          /\ UNCHANGED <<ip, exec, last>>
       \/ pc[t] # "ok" /\ ~Retries(t) /\ Ends(t, IF pc[t] = "status" THEN "status" ELSE "request")
          /\ Forget
    /\ UNCHANGED <<pod, authFailed, client, closed, lock, faults>>

----------------------------------------------------------------------------
\* close() under the lock: the client is closed, which is awaited, and the caches are cleared.
CloseBegin ==
    /\ Fault("close") /\ lock = "free" /\ lock' = "close" /\ closed' = TRUE
    /\ UNCHANGED <<pod, ip, authFailed, client, pc, loc, exec, last>>
CloseEnd ==
    /\ lock = "close" /\ lock' = "free"
    /\ client' = (IF client = "none" THEN "none" ELSE "closed") /\ Forget
    /\ UNCHANGED <<pod, authFailed, closed, pc, loc, exec, last, faults>>

Step(t) ==
    Begin(t) \/ Headers(t) \/ Answer(t) \/ Assign(t) \/ Send(t) \/ Response(t) \/ Finish(t)

Next == Swap \/ CloseBegin \/ CloseEnd \/ \E t \in Tasks : Step(t)
Spec == Init /\ [][Next]_vars

----------------------------------------------------------------------------
(* Properties                                                              *)

\* "replaying them can duplicate side effects after the server handled a request": one call
\* makes the sandbox act on a POST, or on a body that cannot be sent twice, at most once.
ActsOnce == \A t \in Tasks : loc[t].m \in {"POST", "BODY"} => exec[t] <= 1

\* When close() has ended no HTTP client is open and none will be opened (_ensure_client,
\* close: "close cannot race with a new tunnel or gRPC channel being published").
ClosedStaysClosed == closed /\ lock = "free" => client # "open"

=============================================================================
