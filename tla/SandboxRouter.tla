--------------------------- MODULE SandboxRouter ----------------------------
(***************************************************************************)
(* The sandbox router: the admission of a request (token, routing headers, *)
(* the per-client limit on WebSocket connections), the relay of a          *)
(* WebSocket by two pumps and a watchdog, and a proxied HTTP request.      *)
(*                                                                         *)
(* clients/python/agentic-sandbox-client/sandbox-router/sandbox_router.py  *)
(***************************************************************************)
EXTENDS Integers, Sequences, FiniteSets

CONSTANTS
    Conns,      \* WebSocket connections
    Requests,   \* HTTP requests
    Peers,      \* addresses
    Trusted,    \* addresses of trusted proxies
    Headers,    \* X-Forwarded-For values: sequences of addresses
    Events,     \* subset of {"client", "backend", "quiet", "aged"}: what happens to a relay
    Limit,      \* WEBSOCKET_MAX_CONNECTIONS_PER_CLIENT; 0: none
    Idle,       \* WEBSOCKET_IDLE_TIMEOUT_SECONDS is not 0
    Lifetime    \* WEBSOCKET_MAX_LIFETIME_SECONDS is not 0

VARIABLES
    pc,       \* [Conns -> "new", "connect", "relay", "closing", "over"]
    from,     \* [Conns -> [peer, hops]]: where the connection came from
    count,    \* WebSocketConnectionTracker._counts
    client,   \* [Conns -> "up", "gone"]
    backend,  \* [Conns -> "none", "up", "closed" by itself, "shut" by the router]
    c2b, b2c, \* [Conns -> "off", "recv", "send", "done", "error", "big"]: the two pumps
    quiet,    \* [Conns -> BOOLEAN]: no message for the idle timeout
    aged,     \* [Conns -> BOOLEAN]: past the maximal lifetime
    dog,      \* [Conns -> "off", "on", "idle", "lifetime"]: the watchdog
    told,     \* [Conns -> how the client's side was closed]
    http      \* [Requests -> [st, resp, status]]

vars == <<pc, from, count, client, backend, c2b, b2c, quiet, aged, dog, told, http>>
sockets == <<client, backend, c2b, b2c, quiet, aged, dog>>

NoPeer == CHOOSE p \in Peers : TRUE

Init ==
    /\ pc = [c \in Conns |-> "new"] /\ from = [c \in Conns |-> [peer |-> NoPeer, hops |-> <<>>]]
    /\ count = [p \in Peers |-> 0] /\ client = [c \in Conns |-> "up"] /\ backend = [c \in Conns |-> "none"]
    /\ c2b = [c \in Conns |-> "off"] /\ b2c = [c \in Conns |-> "off"] /\ quiet = [c \in Conns |-> FALSE]
    /\ aged = [c \in Conns |-> FALSE] /\ dog = [c \in Conns |-> "off"] /\ told = [c \in Conns |-> "none"]
    /\ http = [r \in Requests |-> [st |-> "new", resp |-> "none", status |-> 0]]

----------------------------------------------------------------------------
(* Admission                                                               *)

Untrusted(hops) == {i \in 1..Len(hops) : hops[i] \notin Trusted}
Rightmost(I) == CHOOSE i \in I : \A j \in I : j <= i

\* _client_ip_from_forwarded_for: trusted hops are skipped from the right.
ForwardedFor(hops) == IF Untrusted(hops) = {} THEN hops[1] ELSE hops[Rightmost(Untrusted(hops))]

\* _client_connection_key
ClientKey(peer, hops) == IF hops # <<>> /\ peer \in Trusted THEN ForwardedFor(hops) ELSE peer

Key(c) == ClientKey(from[c].peer, from[c].hops)

MayAcquire(k) == Limit = 0 \/ count[k] < Limit

Acquired(k) == IF Limit = 0 THEN count ELSE [count EXCEPT ![k] = @ + 1]

Released(k) == IF Limit = 0 \/ count[k] = 0 THEN count ELSE [count EXCEPT ![k] = @ - 1]

\* The connection arrives: a bad token, bad headers or the limit close it with 1008.
Accept(c) ==
    /\ pc[c] = "new"
    /\ \E p \in Peers, hd \in Headers \cup {<<>>} :
          /\ from' = [from EXCEPT ![c] = [peer |-> p, hops |-> hd]]
          /\ \/ /\ told' = [told EXCEPT ![c] = "1008"] /\ pc' = [pc EXCEPT ![c] = "over"] /\ UNCHANGED count
             \/ /\ MayAcquire(ClientKey(p, hd)) /\ count' = Acquired(ClientKey(p, hd))
                /\ pc' = [pc EXCEPT ![c] = "connect"] /\ UNCHANGED told
    /\ UNCHANGED <<sockets, http>>

Over(c) == pc' = [pc EXCEPT ![c] = "over"] /\ count' = Released(Key(c))

\* The handshake with the sandbox, then the relay; a failure closes the client with 1011.
Connect(c) ==
    /\ pc[c] = "connect"
    /\ \/ /\ pc' = [pc EXCEPT ![c] = "relay"] /\ backend' = [backend EXCEPT ![c] = "up"]
          /\ c2b' = [c2b EXCEPT ![c] = "recv"] /\ b2c' = [b2c EXCEPT ![c] = "recv"]
          /\ dog' = [dog EXCEPT ![c] = IF Idle \/ Lifetime THEN "on" ELSE "off"] /\ UNCHANGED <<told, count>>
       \/ /\ told' = [told EXCEPT ![c] = "1011"] /\ Over(c) /\ UNCHANGED <<backend, c2b, b2c, dog>>
    /\ UNCHANGED <<from, client, quiet, aged, http>>

----------------------------------------------------------------------------
(* The relay                                                               *)

\* The peers and time.
World(c) ==
    /\ pc[c] = "relay"
    /\ \/ "client" \in Events /\ client[c] = "up" /\ client' = [client EXCEPT ![c] = "gone"] /\ UNCHANGED <<backend, quiet, aged>>
       \/ "backend" \in Events /\ backend[c] = "up" /\ backend' = [backend EXCEPT ![c] = "closed"] /\ UNCHANGED <<client, quiet, aged>>
       \/ "quiet" \in Events /\ ~quiet[c] /\ quiet' = [quiet EXCEPT ![c] = TRUE] /\ UNCHANGED <<client, backend, aged>>
       \/ "aged" \in Events /\ ~aged[c] /\ aged' = [aged EXCEPT ![c] = TRUE] /\ UNCHANGED <<client, backend, quiet>>
    /\ UNCHANGED <<pc, from, count, c2b, b2c, dog, told, http>>

Touch(c) == quiet' = [quiet EXCEPT ![c] = FALSE]

\* client_to_backend: a message, the client's close, or a send to a backend that is gone.
ClientToBackend(c) ==
    /\ pc[c] = "relay"
    /\ \/ c2b[c] = "recv" /\ client[c] = "up" /\ c2b' = [c2b EXCEPT ![c] = "send"] /\ Touch(c)
       \/ c2b[c] = "recv" /\ client[c] = "gone" /\ c2b' = [c2b EXCEPT ![c] = "done"] /\ UNCHANGED quiet
       \/ c2b[c] = "send" /\ backend[c] = "up" /\ c2b' = [c2b EXCEPT ![c] = "recv"] /\ UNCHANGED quiet
       \/ c2b[c] = "send" /\ backend[c] = "closed" /\ c2b' = [c2b EXCEPT ![c] = "error"] /\ UNCHANGED quiet
    /\ UNCHANGED <<pc, from, count, client, backend, b2c, aged, dog, told, http>>

\* backend_to_client: a message, one that is too big, or the backend's close.
BackendToClient(c) ==
    /\ pc[c] = "relay"
    /\ \/ b2c[c] = "recv" /\ backend[c] = "up" /\ b2c' = [b2c EXCEPT ![c] = "send"] /\ Touch(c)
       \/ b2c[c] = "recv" /\ backend[c] = "up" /\ b2c' = [b2c EXCEPT ![c] = "big"] /\ UNCHANGED quiet
       \/ b2c[c] = "recv" /\ backend[c] = "closed" /\ b2c' = [b2c EXCEPT ![c] = "done"] /\ UNCHANGED quiet
       \/ b2c[c] = "send" /\ client[c] = "up" /\ b2c' = [b2c EXCEPT ![c] = "recv"] /\ UNCHANGED quiet
       \/ b2c[c] = "send" /\ client[c] = "gone" /\ b2c' = [b2c EXCEPT ![c] = "error"] /\ UNCHANGED quiet
    /\ UNCHANGED <<pc, from, count, client, backend, c2b, aged, dog, told, http>>

\* The watchdog's look, once a second: idleness first.
Watchdog(c) ==
    /\ pc[c] = "relay" /\ dog[c] = "on"
    /\ \/ Idle /\ quiet[c] /\ dog' = [dog EXCEPT ![c] = "idle"]
       \/ ~(Idle /\ quiet[c]) /\ Lifetime /\ aged[c] /\ dog' = [dog EXCEPT ![c] = "lifetime"]
    /\ UNCHANGED <<pc, from, count, client, backend, c2b, b2c, quiet, aged, told, http>>

Finished(x) == x \in {"done", "error", "big"}
Fired(c) == dog[c] \in {"idle", "lifetime"}

\* asyncio.wait returns: the pumps that still run are cancelled.  A reader that the backend's
\* close has woken is done before the waiter runs.
RelayWakes(c) ==
    /\ pc[c] = "relay" /\ (Finished(c2b[c]) \/ Finished(b2c[c]) \/ Fired(c))
    /\ ~(b2c[c] = "recv" /\ backend[c] = "closed")
    /\ pc' = [pc EXCEPT ![c] = "closing"]
    /\ UNCHANGED <<from, count, sockets, told, http>>

\* What the client's side is closed with; "none": not at all.
CloseWith(c) ==
    CASE Fired(c) -> dog[c]
      [] ~Fired(c) /\ b2c[c] = "big" -> "1009"
      [] ~Fired(c) /\ b2c[c] \in {"done", "error"} -> "backend"
      [] OTHER -> "none"

\* The relay's end, the backend's socket (async with), and the slot.
RelayEnds(c) ==
    /\ pc[c] = "closing" /\ told' = [told EXCEPT ![c] = CloseWith(c)] /\ Over(c)
    /\ backend' = [backend EXCEPT ![c] = IF @ = "up" THEN "shut" ELSE @]
    /\ UNCHANGED <<from, client, c2b, b2c, quiet, aged, dog, http>>

----------------------------------------------------------------------------
(* HTTP                                                                    *)

\* The request is checked and sent; the status it ends with when there is no answer to stream.
ProxyRequest(r) ==
    /\ http[r].st = "new"
    /\ \/ \E s \in {401, 400, 502, 504, 500} : http' = [http EXCEPT ![r] = [st |-> "over", resp |-> "none", status |-> s]]
       \/ http' = [http EXCEPT ![r] = [st |-> "answered", resp |-> "open", status |-> 0]]
    /\ UNCHANGED <<pc, from, count, sockets, told>>

\* The backend's answer: an upgrade is refused and closed, anything else is streamed.
Answer(r) ==
    /\ http[r].st = "answered"
    /\ \/ http' = [http EXCEPT ![r] = [st |-> "over", resp |-> "closed", status |-> 502]]
       \/ http' = [http EXCEPT ![r] = [st |-> "stream", resp |-> "open", status |-> 200]]
    /\ UNCHANGED <<pc, from, count, sockets, told>>

\* stream_generator: its end, a backend that breaks off and a caller that goes away all close the answer.
Stream(r) ==
    /\ http[r].st = "stream" /\ http' = [http EXCEPT ![r].st = "over", ![r].resp = "closed"]
    /\ UNCHANGED <<pc, from, count, sockets, told>>

Relay(c) == Connect(c) \/ ClientToBackend(c) \/ BackendToClient(c) \/ RelayWakes(c) \/ RelayEnds(c)
Next ==
    \/ \E c \in Conns : Accept(c) \/ World(c) \/ Relay(c) \/ Watchdog(c)
    \/ \E r \in Requests : ProxyRequest(r) \/ Answer(r) \/ Stream(r)

Spec == Init /\ [][Next]_vars

----------------------------------------------------------------------------
(* Properties                                                              *)

Live(c) == pc[c] \in {"connect", "relay", "closing"}

\* The tracker counts exactly the connections that hold a slot, over every way a connection ends.
CountExact == Limit > 0 => \A k \in Peers : count[k] = Cardinality({c \in Conns : Live(c) /\ Key(c) = k})

\* An address that is no trusted proxy has at most Limit connections, whatever headers they
\* carry ("X-Forwarded-For is ignored so clients cannot spoof unique keys").
PeerLimit == Limit > 0 => \A p \in Peers \ Trusted : Cardinality({c \in Conns : Live(c) /\ from[c].peer = p}) <= Limit

\* No backend socket outlives its handler.
NoBackendLeak == \A c \in Conns : pc[c] = "over" => backend[c] # "up"

Aged(c) == pc[c] = "relay" /\ aged[c]
Closed(c) == pc[c] = "over"

=============================================================================
