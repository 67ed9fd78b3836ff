---------------------------- MODULE SandboxQueue ----------------------------
(***************************************************************************)
(* SimpleSandboxQueue: the adoptable Sandboxes of a warm pool, in memory.  *)
(* A sync.Map leads from the pool to a queue object with a lock of its     *)
(* own.  An operation first looks the object up and then works on it; the  *)
(* object may have left the map in between.  Entries of different pools    *)
(* share nothing, so one pool is modelled.                                 *)
(*                                                                         *)
(* Callers: the handler of Sandbox events (one goroutine) adds and removes *)
(* keys, the handler of pool events drops the queue, and the workers of    *)
(* the claim controller take keys and put those they do not use back.      *)
(*                                                                         *)
(* extensions/controllers/queue/simple_sandbox_queue.go, and its callers   *)
(* in extensions/controllers/sandboxclaim_controller.go.                   *)
(***************************************************************************)
EXTENDS Integers, Sequences, FiniteSets, SequencesExt

CONSTANTS
    Workers,   \* reconcile workers of the claim controller
    Handler,   \* the goroutine that handles Sandbox events
    Keys,      \* namespace/name of Sandboxes
    Nodes,     \* values of NodeName
    NoNode,    \* the empty NodeName
    Objects,   \* addresses of synchronizedQueue objects, each used once
    NoObject,  \* no entry in the map
    NoItem,    \* no key
    MaxCalls   \* bound on the number of calls

\* A SandboxKey.  The ticket is history: the number of the Add that put it in.
Item == [key : Keys, node : Nodes, ticket : 1..MaxCalls]

ASSUME SandboxQueueAssumption ==
    /\ Handler \notin Workers
    /\ NoNode \in Nodes
    /\ NoObject \notin Objects
    /\ NoItem \notin Item
    /\ MaxCalls \in Nat

VARIABLES
    queue,   \* the pool's entry in SimpleSandboxQueue.queues
    used,    \* addresses allocated so far
    items,   \* synchronizedQueue.items
    set,     \* synchronizedQueue.set
    pc,      \* the next step of each caller
    ref,     \* the object its call looked up
    arg,     \* the key its call works on
    held,    \* the keys a worker took and has not put back
    deleted, \* the pool was deleted, and not made again
    calls    \* calls left

vars == <<queue, used, items, set, pc, ref, arg, held, deleted, calls>>

Callers == Workers \cup {Handler}
Steps == {"idle", "push", "pop", "remove", "snapshot", "take"}

-----------------------------------------------------------------------------
(* A call begins: it looks the queue up; without one it returns at once.   *)
Call(c, step, o, it) ==
    /\ pc[c] = "idle" /\ calls > 0
    /\ pc' = [pc EXCEPT ![c] = step]
    /\ ref' = [ref EXCEPT ![c] = o]
    /\ arg' = [arg EXCEPT ![c] = it]
    /\ calls' = calls - 1
    /\ UNCHANGED <<items, set, deleted>>

\* Faulty: the call goes on with what the map returned, object or not.
LoadUnchecked(c, step, it) == Call(c, step, queue, it) /\ UNCHANGED <<queue, used>>

Load(c, step, it) ==
    /\ queue # NoObject
    /\ Call(c, step, queue, it)
    /\ UNCHANGED <<queue, used>>

\* LoadOrStore: a new object enters the map only when there is none.
Add(c, it) ==
    \/ Load(c, "push", it)
    \/ /\ queue = NoObject
       /\ \E o \in Objects \ used :
             /\ Call(c, "push", o, it)
             /\ queue' = o
             /\ used' = used \cup {o}

\* sandboxEventHandler.Update: adoptable now, or moved to another node.
HandlerAdd(k, n) ==
    /\ Add(Handler, [key |-> k, node |-> n, ticket |-> calls])
    /\ held' = held

\* sandboxEventHandler.Delete
RemoveItem(k) ==
    /\ Load(Handler, "remove", [key |-> k, node |-> NoNode, ticket |-> calls])
    /\ held' = held

\* A pending candidate gets the NodeName of the Sandbox's status, when it has one.
NormalizedNodes(it) == {it.node} \cup (Nodes \ {NoNode})

\* getCandidate and adoptSandboxFromCandidates return a key they do not use.
PutBack(w) ==
    \E it \in held[w] : \E n \in NormalizedNodes(it) :
        /\ Add(w, [it EXCEPT !.node = n])
        /\ held' = [held EXCEPT ![w] = @ \ {it}]

\* The key was adopted, or dropped: a ghost, not adoptable, stale.
Consume(w) ==
    /\ pc[w] = "idle"
    /\ \E it \in held[w] : held' = [held EXCEPT ![w] = @ \ {it}]
    /\ UNCHANGED <<queue, used, items, set, pc, ref, arg, deleted, calls>>

Get(w) == Load(w, "pop", NoItem) /\ held' = held
GetWithStrategy(w) == Load(w, "snapshot", NoItem) /\ held' = held

\* warmPoolEventHandler.Delete
RemoveQueue ==
    /\ ~deleted /\ calls > 0
    /\ queue' = NoObject
    /\ deleted' = TRUE
    /\ calls' = calls - 1
    /\ UNCHANGED <<used, items, set, pc, ref, arg, held>>

\* A pool of the same name is created.
CreatePool ==
    /\ deleted
    /\ deleted' = FALSE
    /\ UNCHANGED <<queue, used, items, set, pc, ref, arg, held, calls>>

-----------------------------------------------------------------------------
(* Steps under the lock of the object ref[c].                              *)
Return(c) ==
    /\ pc' = [pc EXCEPT ![c] = "idle"]
    /\ ref' = [ref EXCEPT ![c] = NoObject]
    /\ arg' = [arg EXCEPT ![c] = NoItem]

\* Shift left, so the rest keeps its order.  Faulty: the last one fills the gap.
DropItemSwapping(s, i) ==
    [j \in 1..(Len(s) - 1) |-> IF j = i THEN s[Len(s)] ELSE s[j]]
DropItem(s, i) == RemoveAt(s, i)

\* The key at position i leaves slice and set.  Faulty: the slice only.
ExtractItemOnly(o, i) ==
    /\ items' = [items EXCEPT ![o] = DropItem(items[o], i)]
    /\ set' = set
Extract(o, i) ==
    /\ items' = [items EXCEPT ![o] = DropItem(items[o], i)]
    /\ set' = [set EXCEPT ![o] = set[o] \ {items[o][i].key}]

\* s with the NodeName of it on the key of it.
Relocate(s, it) ==
    [i \in DOMAIN s |-> IF s[i].key = it.key THEN [s[i] EXCEPT !.node = it.node]
                                             ELSE s[i]]

Push(c) ==
    /\ pc[c] = "push"
    /\ LET o == ref[c] IN
       \/ /\ arg[c].key \notin set[o]
          /\ set' = [set EXCEPT ![o] = set[o] \cup {arg[c].key}]
          /\ items' = [items EXCEPT ![o] = Append(items[o], arg[c])]
       \/ /\ arg[c].key \in set[o]
          /\ set' = set
          /\ items' = [items EXCEPT ![o] = Relocate(items[o], arg[c])]
    /\ Return(c)
    /\ UNCHANGED <<queue, used, held, deleted, calls>>

Pop(w) ==
    /\ pc[w] = "pop"
    /\ \/ /\ items[ref[w]] = <<>>
          /\ UNCHANGED <<items, set, held>>
       \/ /\ items[ref[w]] # <<>>
          /\ held' = [held EXCEPT ![w] = held[w] \cup {items[ref[w]][1]}]
          /\ Extract(ref[w], 1)
    /\ Return(w)
    /\ UNCHANGED <<queue, used, deleted, calls>>

RemoveKey(c) ==
    /\ pc[c] = "remove"
    /\ \/ /\ arg[c].key \notin set[ref[c]]
          /\ UNCHANGED <<items, set>>
       \/ \E i \in DOMAIN items[ref[c]] :
             /\ items[ref[c]][i].key = arg[c].key
             /\ Extract(ref[c], i)
    /\ Return(c)
    /\ UNCHANGED <<queue, used, held, deleted, calls>>

\* The position of the oldest key on one of the nodes with the most keys in the
\* queue, or of the oldest of all when none is scheduled.
pickSmart(s) ==
    LET scheduled == {i \in DOMAIN s : s[i].node # NoNode}
        count(i) == Cardinality({j \in DOMAIN s : s[j].node = s[i].node})
        best == {i \in scheduled : \A j \in scheduled : count(j) <= count(i)}
    IN  {i \in DOMAIN s : IF scheduled = {} THEN i = 1
                          ELSE i \in best /\ \A j \in best : i <= j}

\* PopWithStrategy copies the items, and picks on the copy without the lock.
Snapshot(w) ==
    /\ pc[w] = "snapshot"
    /\ \/ items[ref[w]] = <<>> /\ Return(w)
       \/ /\ \E i \in pickSmart(items[ref[w]]) :
                arg' = [arg EXCEPT ![w] = items[ref[w]][i]]
          /\ pc' = [pc EXCEPT ![w] = "take"]
          /\ ref' = ref
    /\ UNCHANGED <<queue, used, items, set, held, deleted, calls>>

\* The key left the queue since: copy again.  Faulty: try the same key again.
RetrySameKey(w) == pc' = [pc EXCEPT ![w] = "take"]
Retry(w) == pc' = [pc EXCEPT ![w] = "snapshot"]

\* Faulty: the picked key is handed out even when it left the queue.
TakeUnchecked(w) ==
    /\ pc[w] = "take"
    /\ held' = [held EXCEPT ![w] = held[w] \cup {arg[w]}]
    /\ \/ arg[w].key \notin set[ref[w]] /\ UNCHANGED <<items, set>>
       \/ \E i \in DOMAIN items[ref[w]] :
             items[ref[w]][i].key = arg[w].key /\ Extract(ref[w], i)
    /\ Return(w)
    /\ UNCHANGED <<queue, used, deleted, calls>>

\* What is handed out is the copied key, with the NodeName of the copy.
Take(w) ==
    /\ pc[w] = "take"
    /\ \/ /\ arg[w].key \notin set[ref[w]]
          /\ Retry(w)
          /\ UNCHANGED <<items, set, ref, arg, held>>
       \/ /\ \E i \in DOMAIN items[ref[w]] :
                /\ items[ref[w]][i].key = arg[w].key
                /\ held' = [held EXCEPT ![w] = held[w] \cup
                       {[arg[w] EXCEPT !.ticket = items[ref[w]][i].ticket]}]
                /\ Extract(ref[w], i)
          /\ Return(w)
    /\ UNCHANGED <<queue, used, deleted, calls>>

-----------------------------------------------------------------------------
Init ==
    /\ queue = NoObject
    /\ used = {}
    /\ items = [o \in Objects |-> <<>>]
    /\ set = [o \in Objects |-> {}]
    /\ pc = [c \in Callers |-> "idle"]
    /\ ref = [c \in Callers |-> NoObject]
    /\ arg = [c \in Callers |-> NoItem]
    /\ held = [w \in Workers |-> {}]
    /\ deleted = FALSE
    /\ calls = MaxCalls

HandlerStep == Push(Handler) \/ RemoveKey(Handler)
WorkerStep(w) == Push(w) \/ Pop(w) \/ Snapshot(w) \/ Take(w)

Next ==
    \/ \E k \in Keys : RemoveItem(k) \/ \E n \in Nodes : HandlerAdd(k, n)
    \/ \E w \in Workers : PutBack(w) \/ Consume(w) \/ Get(w) \/ GetWithStrategy(w)
    \/ RemoveQueue \/ CreatePool
    \/ HandlerStep
    \/ \E w \in Workers : WorkerStep(w)

Spec == Init /\ [][Next]_vars

\* A goroutine inside a call goes on with it.
Fairness == WF_vars(HandlerStep) /\ \A w \in Workers : WF_vars(WorkerStep(w))

FairSpec == Spec /\ Fairness

-----------------------------------------------------------------------------
\* Every variable stays in its domain; a caller inside a call has an object.
TypeOK ==
    /\ queue \in Objects \cup {NoObject}
    /\ used \subseteq Objects
    /\ items \in [Objects -> Seq(Item)]
    /\ set \in [Objects -> SUBSET Keys]
    /\ pc \in [Callers -> Steps]
    /\ ref \in [Callers -> Objects \cup {NoObject}]
    /\ arg \in [Callers -> Item \cup {NoItem}]
    /\ held \in [Workers -> SUBSET Item]
    /\ deleted \in BOOLEAN
    /\ calls \in 0..MaxCalls
    /\ \A c \in Callers : pc[c] # "idle" => ref[c] \in Objects

\* The set that deduplicates a queue holds exactly the keys of its items, and no
\* key is there twice: Push, Pop, PopWithStrategy and Remove keep the two in step.
SetMatchesItems ==
    \A o \in Objects :
        /\ set[o] = {items[o][i].key : i \in DOMAIN items[o]}
        /\ \A i, j \in DOMAIN items[o] : items[o][i].key = items[o][j].key => i = j

\* What a caller has in hand: keys taken, and the key it is adding.
Hand(c) == (IF c \in Workers THEN held[c] ELSE {})
              \cup (IF pc[c] = "push" THEN {arg[c]} ELSE {})

\* A key that was added once is handed out once: it is in one place of one
\* queue, dropped queues included, or in the hands of one caller
\* (PopWithStrategy looks again before it takes).
HandedOutOnce ==
    /\ \A o1, o2 \in Objects : \A i \in DOMAIN items[o1], j \in DOMAIN items[o2] :
          items[o1][i].ticket = items[o2][j].ticket => o1 = o2 /\ i = j
    /\ \A c \in Callers, o \in Objects : \A x \in Hand(c), i \in DOMAIN items[o] :
          x.ticket # items[o][i].ticket
    /\ \A c, d \in Callers : \A x \in Hand(c), y \in Hand(d) :
          x.ticket = y.ticket => c = d /\ x = y

\* No operation changes the order of the items that stay in a queue: pickSmart's
\* "oldest first" rests on it.
OrderKept ==
    [][\A o \in Objects : \A i, j \in DOMAIN items[o], k, l \in DOMAIN items'[o] :
          /\ i < j
          /\ items[o][i].ticket = items'[o][k].ticket
          /\ items[o][j].ticket = items'[o][l].ticket
          => k < l]_vars

\* Every call returns when the others are finitely many: the loop of
\* PopWithStrategy tries again only because another call took the key.
CallsReturn == \A c \in Callers : pc[c] # "idle" ~> pc[c] = "idle"

-----------------------------------------------------------------------------
\* "RemoveQueue completely deletes a warm pool's queue from the sync.Map to
\* prevent memory leaks when SandboxTemplates or WarmPools are deleted."
NoQueueAfterDeletion == deleted => queue = NoObject
=============================================================================
