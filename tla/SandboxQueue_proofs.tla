------------------------ MODULE SandboxQueue_proofs ------------------------
(***************************************************************************)
(* Theorems about SandboxQueue, for any number of workers, keys, nodes and *)
(* calls: the set of a queue matches its items, a key is handed out once   *)
(* per Add, and operations keep the order of what stays.                   *)
(***************************************************************************)
EXTENDS SandboxQueueTypes_proofs

\* The ticket of the next Add is new.
Tickets ==
    /\ \A o \in Objects : \A i \in DOMAIN items[o] : items[o][i].ticket > calls
    /\ \A c \in Callers : \A x \in Hand(c) : x.ticket > calls

\* A worker that puts a key back no longer holds it.
Letting ==
    \A w \in Workers : pc[w] = "push" =>
        \A x \in held[w] : x.ticket # arg[w].ticket

IInv == TypeOK /\ Roles /\ SetMatchesItems /\ HandedOutOnce /\ Tickets /\ Letting

-----------------------------------------------------------------------------
\* The parts of HandedOutOnce: tickets in queues, in a hand and a queue, in hands.
QueuesApart ==
    \A o1, o2 \in Objects : \A i \in DOMAIN items[o1], j \in DOMAIN items[o2] :
        items[o1][i].ticket = items[o2][j].ticket => o1 = o2 /\ i = j
HandsOffQueues ==
    \A c \in Callers, o \in Objects : \A x \in Hand(c), i \in DOMAIN items[o] :
        x.ticket # items[o][i].ticket
HandsApart ==
    \A c, d \in Callers : \A x \in Hand(c), y \in Hand(d) :
        x.ticket = y.ticket => c = d /\ x = y

\* HandedOutOnce is its three parts, now and in the next state.
LEMMA OnceParts ==
    /\ HandedOutOnce <=> QueuesApart /\ HandsOffQueues /\ HandsApart
    /\ HandedOutOnce' <=> QueuesApart' /\ HandsOffQueues' /\ HandsApart'
  BY Zenon DEF HandedOutOnce, QueuesApart, HandsOffQueues, HandsApart

\* Whatever is in a queue or in a hand is a key with a ticket.
LEMMA Typed ==
    ASSUME TypeOK, Roles
    PROVE  /\ calls \in Int
           /\ \A o \in Objects : \A i \in DOMAIN items[o] :
                 items[o][i] \in Item /\ items[o][i].ticket \in Int
           /\ \A c \in Callers : \A x \in Hand(c) : x \in Item /\ x.ticket \in Int
<1>1. \A o \in Objects : items[o] \in Seq(Item)
  BY DEF TypeOK
<1>2. \A o \in Objects : \A i \in DOMAIN items[o] : items[o][i] \in Item
  BY <1>1, LenProperties, ElementOfSeq
<1>3. \A c \in Callers : \A x \in Hand(c) : x \in Item
  BY DEF Hand, TypeOK, Roles
<1>4. \A x \in Item : x.ticket \in Int
  BY DEF Item
<1>5. calls \in Int
  BY SandboxQueueAssumption DEF TypeOK
<1> QED
  BY <1>2, <1>3, <1>4, <1>5

\* A step that leaves every queue its tickets and fills no hand.
LEMMA OnceQuiet ==
    ASSUME TypeOK, Roles, HandedOutOnce, Tickets, calls' \in Int, calls' <= calls,
           \A o \in Objects : /\ DOMAIN items'[o] = DOMAIN items[o]
                              /\ \A i \in DOMAIN items[o] :
                                    items'[o][i].ticket = items[o][i].ticket,
           \A c \in Callers : Hand(c)' \subseteq Hand(c)
    PROVE  HandedOutOnce' /\ Tickets'
<1>1. QueuesApart' /\ HandsOffQueues' /\ HandsApart'
  <2>1. QueuesApart'
    BY OnceParts DEF QueuesApart
  <2>2. HandsOffQueues'
    BY OnceParts DEF HandsOffQueues
  <2>3. HandsApart'
    BY OnceParts DEF HandsApart
  <2> QED
    BY <2>1, <2>2, <2>3
<1>2. Tickets'
  BY Typed DEF Tickets
<1> QED
  BY <1>1, <1>2, OnceParts

\* A key added with the ticket of this call is in the hand of the one that adds it.
LEMMA OnceFresh ==
    ASSUME TypeOK, Roles, HandedOutOnce, Tickets, items' = items, calls' = calls - 1,
           NEW c \in Callers, NEW x, x.ticket = calls, Hand(c)' = {x},
           \A d \in Callers \ {c} : Hand(d)' \subseteq Hand(d)
    PROVE  HandedOutOnce' /\ Tickets'
<1>0. /\ \A o \in Objects : \A i \in DOMAIN items[o] :
            x.ticket # items[o][i].ticket /\ items[o][i].ticket > calls'
      /\ \A d \in Callers : \A y \in Hand(d) : x.ticket # y.ticket /\ y.ticket > calls'
      /\ x.ticket > calls'
  BY Typed DEF Tickets
<1>1. QueuesApart'
  BY OnceParts DEF QueuesApart
<1>2. HandsOffQueues'
  BY <1>0, OnceParts DEF HandsOffQueues
<1>3. HandsApart'
  BY <1>0, OnceParts DEF HandsApart
<1>4. Tickets'
  BY <1>0 DEF Tickets
<1> QED
  BY <1>1, <1>2, <1>3, <1>4, OnceParts

\* A key in hand is replaced by one with the same ticket.
LEMMA OnceRenewed ==
    ASSUME TypeOK, Roles, HandedOutOnce, Tickets, items' = items, calls' = calls - 1,
           NEW c \in Callers, NEW y \in Hand(c), NEW x, x.ticket = y.ticket,
           Hand(c)' = (Hand(c) \ {y}) \cup {x},
           \A d \in Callers \ {c} : Hand(d)' \subseteq Hand(d)
    PROVE  HandedOutOnce' /\ Tickets'
<1>1. QueuesApart'
  BY OnceParts DEF QueuesApart
<1>2. \A d \in Callers : \A z \in Hand(d)' :
         /\ \E v \in Hand(d) : v.ticket = z.ticket
         /\ \/ z \in Hand(d) /\ (d = c => z # y)
            \/ d = c /\ z = x
  <2> SUFFICES ASSUME NEW d \in Callers, NEW z \in Hand(d)'
               PROVE  /\ \E v \in Hand(d) : v.ticket = z.ticket
                      /\ \/ z \in Hand(d) /\ (d = c => z # y)
                         \/ d = c /\ z = x
    OBVIOUS
  <2>1. CASE d # c
    <3>1. z \in Hand(d)
      BY <2>1
    <3> QED
      BY <2>1, <3>1
  <2>2. CASE d = c /\ z = x
    BY <2>2
  <2>3. CASE d = c /\ z # x
    <3>1. z \in Hand(c) \ {y}
      BY <2>3
    <3> QED
      BY <2>3, <3>1
  <2> QED
    BY <2>1, <2>2, <2>3
<1>3. HandsOffQueues'
  BY <1>2, OnceParts DEF HandsOffQueues
<1>4. HandsApart'
  BY <1>2, OnceParts DEF HandsApart
<1>5. Tickets'
  BY <1>2, Typed DEF Tickets
<1> QED
  BY <1>1, <1>3, <1>4, <1>5, OnceParts

\* An item leaves its queue, and at most one caller has it in hand then.
LEMMA OnceExtract ==
    ASSUME TypeOK, Roles, SetMatchesItems, HandedOutOnce, Tickets, calls' = calls,
           NEW o \in Objects, NEW i \in DOMAIN items[o], Extract(o, i),
           NEW c \in Callers, NEW x, x.ticket = items[o][i].ticket,
           Hand(c)' \subseteq Hand(c) \cup {x},
           \A d \in Callers \ {c} : Hand(d)' \subseteq Hand(d)
    PROVE  HandedOutOnce' /\ Tickets'
<1> DEFINE At(p, j) == IF p # o \/ j < i THEN j ELSE j + 1
<1>1. /\ \A p \in Objects : p # o => items'[p] = items[p]
      /\ DOMAIN items[o] = 1..Len(items[o]) /\ Len(items[o]) \in Nat
      /\ DOMAIN items'[o] = 1..(Len(items[o]) - 1)
      /\ \A j \in DOMAIN items'[o] :
            items'[o][j] = IF j < i THEN items[o][j] ELSE items[o][j + 1]
  BY ExtractStep
<1>2. \A p \in Objects : \A j \in DOMAIN items'[p] :
         /\ At(p, j) \in DOMAIN items[p] /\ items'[p][j] = items[p][At(p, j)]
         /\ p = o => At(p, j) # i
  <2> SUFFICES ASSUME NEW p \in Objects, NEW j \in DOMAIN items'[p]
               PROVE  /\ At(p, j) \in DOMAIN items[p] /\ items'[p][j] = items[p][At(p, j)]
                      /\ p = o => At(p, j) # i
    OBVIOUS
  <2>1. CASE p # o
    BY <1>1, <2>1
  <2>2. CASE p = o /\ j < i
    BY <1>1, <2>2
  <2>3. CASE p = o /\ ~(j < i)
    BY <1>1, <2>3
  <2> QED
    BY <2>1, <2>2, <2>3
<1>3. \A p \in Objects : \A j, l \in DOMAIN items'[p] : At(p, j) = At(p, l) => j = l
  BY <1>1
<1> HIDE DEF At
<1>4. \A p \in Objects : \A j \in DOMAIN items'[p] : items'[p][j].ticket # x.ticket
  BY <1>2, OnceParts DEF QueuesApart
<1>5. \A d \in Callers : \A y \in Hand(d) : y.ticket # x.ticket
  BY OnceParts DEF HandsOffQueues
<1>6. QueuesApart'
  BY <1>2, <1>3, OnceParts DEF QueuesApart
<1>7. HandsOffQueues'
  BY <1>2, <1>4, OnceParts DEF HandsOffQueues
<1>8. HandsApart'
  BY <1>5, OnceParts DEF HandsApart
<1>9. Tickets'
  BY <1>2 DEF Tickets
<1> QED
  BY <1>6, <1>7, <1>8, <1>9, OnceParts

\* A caller puts the key in its hand into a queue.
LEMMA OncePush ==
    ASSUME TypeOK, Roles, SetMatchesItems, HandedOutOnce, Tickets,
           NEW c \in Callers, Push(c), calls' = calls,
           arg[c] \in Hand(c), \A x \in Hand(c)' : x \in Hand(c) /\ x.ticket # arg[c].ticket,
           \A d \in Callers \ {c} : Hand(d)' \subseteq Hand(d)
    PROVE  HandedOutOnce' /\ Tickets'
<1> DEFINE o == ref[c]
           n == Len(items[o]) + 1
<1>1. arg[c] \in Item
  BY DEF Push, Roles
<1>2. /\ o \in Objects
      /\ \A p \in Objects : p # o => items'[p] = items[p]
      /\ DOMAIN items[o] = 1..Len(items[o]) /\ Len(items[o]) \in Nat
      /\ \A j \in DOMAIN items[o] : /\ j \in DOMAIN items'[o]
                                    /\ items'[o][j].ticket = items[o][j].ticket
      /\ \/ DOMAIN items'[o] = DOMAIN items[o]
         \/ DOMAIN items'[o] = 1..n /\ items'[o][n] = arg[c]
  BY <1>1, PushStep
<1>3. CASE DOMAIN items'[o] = DOMAIN items[o]
  <2>1. \A d \in Callers : Hand(d)' \subseteq Hand(d)
    OBVIOUS
  <2>2. \A p \in Objects : /\ DOMAIN items'[p] = DOMAIN items[p]
                           /\ \A i \in DOMAIN items[p] :
                                 items'[p][i].ticket = items[p][i].ticket
    BY <1>2, <1>3
  <2> QED
    BY <2>1, <2>2, Typed, OnceQuiet
<1>4. CASE DOMAIN items'[o] = 1..n /\ items'[o][n] = arg[c]
  <2>1. \A p \in Objects : \A j \in DOMAIN items'[p] :
           \/ j \in DOMAIN items[p] /\ items'[p][j].ticket = items[p][j].ticket
           \/ p = o /\ j = n /\ items'[p][j].ticket = arg[c].ticket
    BY <1>2, <1>4
  <2>2. \A p \in Objects : \A j \in DOMAIN items[p] : items[p][j].ticket # arg[c].ticket
    BY OnceParts DEF HandsOffQueues
  <2>3. \A d \in Callers \ {c} : \A x \in Hand(d) : x.ticket # arg[c].ticket
    BY OnceParts DEF HandsApart
  <2> HIDE DEF n, o
  <2>4. QueuesApart'
    BY <2>1, <2>2, OnceParts DEF QueuesApart
  <2>5. HandsOffQueues'
    BY <2>1, <2>3, OnceParts DEF HandsOffQueues
  <2>6. HandsApart'
    BY OnceParts DEF HandsApart
  <2>7. Tickets'
    BY <2>1 DEF Tickets
  <2> QED
    BY <2>4, <2>5, <2>6, <2>7, OnceParts
<1> QED
  BY <1>2, <1>3, <1>4

\* Every action hands a key out at most once.
LEMMA OnceStep ==
    ASSUME IInv, Next
    PROVE  HandedOutOnce' /\ Tickets' /\ Letting'
<1> USE DEF IInv
<1>0. /\ TypeOK /\ Roles /\ Handler \notin Workers /\ calls \in Int
      /\ pc \in [Callers -> Steps] /\ arg \in [Callers -> Item \cup {NoItem}]
      /\ held \in [Workers -> SUBSET Item] /\ Callers = Workers \cup {Handler}
  BY SandboxQueueAssumption DEF TypeOK, Callers
<1>1. ASSUME items' = items, calls' \in Int, calls' <= calls,
             \A c \in Callers : Hand(c)' \subseteq Hand(c)
      PROVE  HandedOutOnce' /\ Tickets'
  BY <1>1, OnceQuiet
<1>2. ASSUME NEW c \in Callers, NEW step \in {"remove", "pop", "snapshot"}, NEW it,
             Load(c, step, it), held' = held
      PROVE  HandedOutOnce' /\ Tickets' /\ Letting'
  <2>1. \A d \in Callers : Hand(d)' \subseteq Hand(d)
    BY <1>0, <1>2 DEF Load, Call, Hand
  <2>2. Letting'
    BY <1>0, <1>2 DEF Load, Call, Letting
  <2> QED
    BY <1>0, <1>1, <1>2, <2>1, <2>2 DEF Load, Call
<1>3. ASSUME NEW c \in Callers, NEW it, Add(c, it)
      PROVE  \E o : Call(c, "push", o, it)
  BY <1>3 DEF Add, Load
<1>4. ASSUME NEW k \in Keys, NEW n \in Nodes, HandlerAdd(k, n)
      PROVE  HandedOutOnce' /\ Tickets' /\ Letting'
  <2> DEFINE it == [key |-> k, node |-> n, ticket |-> calls]
  <2>1. PICK o : Call(Handler, "push", o, it) /\ held' = held
    BY <1>0, <1>3, <1>4 DEF HandlerAdd
  <2>2. it.ticket = calls
    OBVIOUS
  <2> HIDE DEF it
  <2>3. /\ Hand(Handler)' = {it}
        /\ \A d \in Callers \ {Handler} : Hand(d)' \subseteq Hand(d)
    BY <1>0, <2>1 DEF Call, Hand
  <2>4. HandedOutOnce' /\ Tickets'
    BY <1>0, <2>1, <2>2, <2>3, OnceFresh DEF Call
  <2>5. Letting'
    BY <1>0, <2>1 DEF Call, Letting
  <2> QED
    BY <2>4, <2>5
<1>5. ASSUME NEW w \in Workers, PutBack(w)
      PROVE  HandedOutOnce' /\ Tickets' /\ Letting'
  <2>0. PICK it \in held[w] : \E n \in NormalizedNodes(it) :
               /\ Add(w, [it EXCEPT !.node = n])
               /\ held' = [held EXCEPT ![w] = @ \ {it}]
    BY <1>5, Zenon DEF PutBack
  <2>1. PICK n \in NormalizedNodes(it) :
               /\ Add(w, [it EXCEPT !.node = n])
               /\ held' = [held EXCEPT ![w] = @ \ {it}]
    BY <2>0, Zenon
  <2> DEFINE x == [it EXCEPT !.node = n]
  <2>2. PICK o : Call(w, "push", o, x)
    BY <1>0, <1>3, <2>1
  <2>3. x.ticket = it.ticket
    BY <1>0 DEF Item
  <2> HIDE DEF x
  <2>4. /\ Hand(w) = held[w] /\ it \in Hand(w)
        /\ Hand(w)' = (Hand(w) \ {it}) \cup {x}
        /\ \A d \in Callers \ {w} : Hand(d)' \subseteq Hand(d)
    BY <1>0, <2>1, <2>2 DEF Call, Hand
  <2>5. \A y \in held[w] \ {it} : y.ticket # it.ticket
    BY <1>0, <2>4, OnceParts DEF HandsApart
  <2>6. Letting'
    BY <1>0, <2>1, <2>2, <2>3, <2>5 DEF Call, Letting
  <2>7. HandedOutOnce' /\ Tickets'
    BY <1>0, <2>2, <2>3, <2>4, OnceRenewed DEF Call
  <2> QED
    BY <2>6, <2>7
<1>6. ASSUME NEW w \in Workers, Consume(w)
      PROVE  HandedOutOnce' /\ Tickets' /\ Letting'
  <2>1. \A d \in Callers : Hand(d)' \subseteq Hand(d)
    BY <1>0, <1>6 DEF Consume, Hand
  <2>2. Letting'
    BY <1>0, <1>6 DEF Consume, Letting
  <2> QED
    BY <1>0, <1>1, <1>6, <2>1, <2>2 DEF Consume
<1>7. CASE RemoveQueue \/ CreatePool
  <2>1. /\ UNCHANGED <<items, pc, arg, held>>
        /\ calls' \in Int /\ calls' <= calls
    BY <1>0, <1>7 DEF RemoveQueue, CreatePool
  <2>2. \A d \in Callers : Hand(d)' \subseteq Hand(d)
    BY <2>1 DEF Hand
  <2>3. Letting'
    BY <2>1 DEF Letting
  <2> QED
    BY <1>1, <2>1, <2>2, <2>3
<1>8. ASSUME NEW c \in Callers, Push(c)
      PROVE  HandedOutOnce' /\ Tickets' /\ Letting'
  <2>1. arg[c] \in Hand(c)
    BY <1>8 DEF Push, Hand
  <2>2. /\ \A x \in Hand(c)' : x \in Hand(c) /\ x.ticket # arg[c].ticket
        /\ \A d \in Callers \ {c} : Hand(d)' \subseteq Hand(d)
    BY <1>0, <1>8 DEF Push, Return, Hand, Letting
  <2>3. HandedOutOnce' /\ Tickets'
    BY <1>8, <2>1, <2>2, OncePush DEF Push
  <2>4. Letting'
    BY <1>0, <1>8 DEF Push, Return, Letting
  <2> QED
    BY <2>3, <2>4
<1>9. ASSUME NEW c \in Callers, pc[c] # "push", Return(c), held' = held, calls' = calls,
             items' = items
      PROVE  HandedOutOnce' /\ Tickets' /\ Letting'
  <2>1. \A d \in Callers : Hand(d)' \subseteq Hand(d)
    BY <1>0, <1>9 DEF Return, Hand
  <2>2. Letting'
    BY <1>0, <1>9 DEF Return, Letting
  <2> QED
    BY <1>0, <1>1, <1>9, <2>1, <2>2
<1>10. ASSUME NEW c \in Callers, RemoveKey(c)
       PROVE  HandedOutOnce' /\ Tickets' /\ Letting'
  <2>1. CASE items' = items
    BY <1>9, <1>10, <2>1 DEF RemoveKey
  <2>2. ASSUME NEW i \in DOMAIN items[ref[c]], Extract(ref[c], i)
        PROVE  HandedOutOnce' /\ Tickets' /\ Letting'
    <3>1. ref[c] \in Objects
      BY <1>0, <1>10 DEF RemoveKey, TypeOK
    <3>2. \A d \in Callers : Hand(d)' \subseteq Hand(d)
      BY <1>0, <1>10 DEF RemoveKey, Return, Hand
    <3>3. HandedOutOnce' /\ Tickets'
      <4> DEFINE x == items[ref[c]][i]
      <4>1. Hand(c)' \subseteq Hand(c) \cup {x}
        BY <3>2
      <4> QED
        BY <1>10, <2>2, <3>1, <3>2, <4>1, OnceExtract DEF RemoveKey
    <3>4. Letting'
      BY <1>0, <1>10 DEF RemoveKey, Return, Letting
    <3> QED
      BY <3>3, <3>4
  <2> QED
    BY <1>10, <2>1, <2>2 DEF RemoveKey
<1>11. ASSUME NEW w \in Workers, pc[w] # "push", ref[w] \in Objects,
              NEW i \in DOMAIN items[ref[w]], Extract(ref[w], i), Return(w), calls' = calls,
              NEW x, x.ticket = items[ref[w]][i].ticket,
              held' = [held EXCEPT ![w] = held[w] \cup {x}]
       PROVE  HandedOutOnce' /\ Tickets' /\ Letting'
  <2>1. /\ Hand(w)' \subseteq Hand(w) \cup {x}
        /\ \A d \in Callers \ {w} : Hand(d)' \subseteq Hand(d)
    BY <1>0, <1>11 DEF Return, Hand
  <2>2. HandedOutOnce' /\ Tickets'
    BY <1>0, <1>11, <2>1, OnceExtract
  <2>3. Letting'
    BY <1>0, <1>11 DEF Return, Letting
  <2> QED
    BY <2>2, <2>3
<1>12. ASSUME NEW w \in Workers, Pop(w)
       PROVE  HandedOutOnce' /\ Tickets' /\ Letting'
  <2>0. /\ ref[w] \in Objects /\ items[ref[w]] \in Seq(Item)
        /\ items[ref[w]] # <<>> => 1 \in DOMAIN items[ref[w]]
    <3>1. ref[w] \in Objects /\ items[ref[w]] \in Seq(Item)
      BY <1>0, <1>12 DEF Pop, TypeOK
    <3> QED
      BY <3>1, EmptySeq, LenProperties
  <2>1. CASE items' = items /\ held' = held
    BY <1>0, <1>9, <1>12, <2>1 DEF Pop
  <2>2. CASE /\ items[ref[w]] # <<>>
             /\ held' = [held EXCEPT ![w] = held[w] \cup {items[ref[w]][1]}]
             /\ Extract(ref[w], 1)
    BY <1>11, <1>12, <2>0, <2>2, Zenon DEF Pop
  <2> QED
    BY <1>12, <2>1, <2>2 DEF Pop
<1>13. ASSUME NEW w \in Workers, Snapshot(w)
       PROVE  HandedOutOnce' /\ Tickets' /\ Letting'
  <2>1. CASE Return(w)
    BY <1>0, <1>9, <1>13, <2>1 DEF Snapshot
  <2>2. ASSUME NEW x, arg' = [arg EXCEPT ![w] = x], pc' = [pc EXCEPT ![w] = "take"]
        PROVE  HandedOutOnce' /\ Tickets' /\ Letting'
    <3>1. \A d \in Callers : Hand(d)' \subseteq Hand(d)
      BY <1>0, <1>13, <2>2 DEF Snapshot, Hand
    <3>2. Letting'
      BY <1>0, <1>13, <2>2 DEF Snapshot, Letting
    <3> QED
      BY <1>0, <1>1, <1>13, <3>1, <3>2 DEF Snapshot
  <2> QED
    BY <1>13, <2>1, <2>2 DEF Snapshot
<1>14. ASSUME NEW w \in Workers, Take(w)
       PROVE  HandedOutOnce' /\ Tickets' /\ Letting'
  <2>0. ref[w] \in Objects /\ arg[w] \in Item
    BY <1>0, <1>14 DEF Take, TypeOK, Roles
  <2>1. CASE Retry(w) /\ UNCHANGED <<items, set, ref, arg, held>>
    <3>1. \A d \in Callers : Hand(d)' \subseteq Hand(d)
      BY <1>0, <1>14, <2>1 DEF Take, Retry, Hand
    <3>2. Letting'
      BY <1>0, <1>14, <2>1 DEF Take, Retry, Letting
    <3> QED
      BY <1>0, <1>1, <1>14, <2>1, <3>1, <3>2 DEF Take
  <2>2. ASSUME NEW i \in DOMAIN items[ref[w]], Return(w), Extract(ref[w], i),
               held' = [held EXCEPT ![w] = held[w] \cup
                          {[arg[w] EXCEPT !.ticket = items[ref[w]][i].ticket]}]
        PROVE  HandedOutOnce' /\ Tickets' /\ Letting'
    <3> DEFINE x == [arg[w] EXCEPT !.ticket = items[ref[w]][i].ticket]
    <3>1. x.ticket = items[ref[w]][i].ticket
      BY <2>0 DEF Item
    <3>2. held' = [held EXCEPT ![w] = held[w] \cup {x}]
      BY <2>2
    <3> HIDE DEF x
    <3> QED
      BY <1>11, <1>14, <2>0, <2>2, <3>1, <3>2, Zenon DEF Take
  <2> QED
    BY <1>14, <2>1, <2>2 DEF Take
<1> QED
  BY <1>0, <1>2, <1>4, <1>5, <1>6, <1>7, <1>8, <1>10, <1>12, <1>13, <1>14, Zenon
     DEF Next, HandlerStep, WorkerStep, RemoveItem, Get, GetWithStrategy

-----------------------------------------------------------------------------
\* IInv holds at the start and every step keeps it.
LEMMA Inductive == Spec => []IInv
<1>1. Init => IInv
  <2> SUFFICES ASSUME Init PROVE IInv
    OBVIOUS
  <2>1. \A o \in Objects : items[o] = <<>> /\ set[o] = {} /\ DOMAIN items[o] = {}
    BY EmptySeq, LenProperties DEF Init
  <2>2. \A c \in Callers : pc[c] = "idle" /\ Hand(c) = {}
    BY DEF Init, Hand, Callers
  <2>3. TypeOK
    <3>1. <<>> \in Seq(Item)
      BY EmptySeq
    <3>2. items \in [Objects -> Seq(Item)]
      BY <3>1 DEF Init
    <3>3. calls \in 0..MaxCalls
      BY SandboxQueueAssumption DEF Init
    <3>4. /\ set \in [Objects -> SUBSET Keys]
          /\ ref \in [Callers -> Objects \cup {NoObject}]
          /\ arg \in [Callers -> Item \cup {NoItem}]
          /\ held \in [Workers -> SUBSET Item]
          /\ pc \in [Callers -> Steps]
      BY DEF Init, Steps
    <3>5. queue \in Objects \cup {NoObject} /\ used \subseteq Objects /\ deleted \in BOOLEAN
      BY DEF Init
    <3> QED
      BY <2>2, <3>2, <3>3, <3>4, <3>5 DEF TypeOK
  <2>4. Roles /\ Letting
    BY <2>2 DEF Roles, Letting, Callers
  <2>5. SetMatchesItems
    BY <2>1 DEF SetMatchesItems
  <2>6. HandedOutOnce /\ Tickets
    BY <2>1, <2>2 DEF HandedOutOnce, Tickets
  <2> QED
    BY <2>3, <2>4, <2>5, <2>6 DEF IInv
<1>2. IInv /\ [Next]_vars => IInv'
  <2> SUFFICES ASSUME IInv, [Next]_vars PROVE IInv'
    OBVIOUS
  <2>1. CASE Next
    BY <2>1, StateStep, OnceStep DEF IInv
  <2>2. CASE UNCHANGED vars
    <3>0. UNCHANGED <<queue, used, items, set, pc, ref, arg, held, deleted, calls>>
      BY <2>2 DEF vars
    <3>1. TypeOK'
      BY <3>0 DEF IInv, TypeOK
    <3>2. Roles' /\ SetMatchesItems' /\ Letting'
      BY <3>0 DEF IInv, Roles, SetMatchesItems, Letting
    <3>3. \A c \in Callers : Hand(c)' = Hand(c)
      BY <3>0 DEF Hand
    <3>4. HandedOutOnce' /\ Tickets'
      BY <3>0, <3>3, Typed, OnceQuiet DEF IInv
    <3> QED
      BY <3>1, <3>2, <3>4 DEF IInv
  <2> QED
    BY <2>1, <2>2
<1> QED
  BY <1>1, <1>2, PTL DEF Spec

\* The variables of the queue and of its callers keep their types.
THEOREM TypeCorrect == Spec => []TypeOK
<1>1. IInv => TypeOK
  BY DEF IInv
<1> QED
  BY <1>1, Inductive, PTL

\* The deduplicating set of a queue always holds exactly the keys of its items,
\* each there once.
THEOREM SetInStep == Spec => []SetMatchesItems
<1>1. IInv => SetMatchesItems
  BY DEF IInv
<1> QED
  BY <1>1, Inductive, PTL

\* Whatever the interleaving of Push, Pop, PopWithStrategy, Remove and the drop of
\* the queue, a key added once is in one queue or in one hand.
THEOREM EachHandedOutOnce == Spec => []HandedOutOnce
<1>1. IInv => HandedOutOnce
  BY DEF IInv
<1> QED
  BY <1>1, Inductive, PTL

\* One object keeps the order of what stays in it.
KeepsOrder(o) ==
    \A i, j \in DOMAIN items[o], k, l \in DOMAIN items'[o] :
        /\ i < j
        /\ items[o][i].ticket = items'[o][k].ticket
        /\ items[o][j].ticket = items'[o][l].ticket
        => k < l

\* Every action keeps the order of every queue.
LEMMA OrderStep ==
    ASSUME IInv, [Next]_vars, NEW o \in Objects
    PROVE  KeepsOrder(o)
<1> USE DEF IInv
<1>0. QueuesApart /\ HandsOffQueues
  BY OnceParts
<1>1. CASE items' = items
  BY <1>0, <1>1 DEF QueuesApart, KeepsOrder
<1>2. ASSUME NEW c \in Callers, pc[c] # "idle", NEW n \in DOMAIN items[ref[c]],
             Extract(ref[c], n)
      PROVE  KeepsOrder(o)
  <2>0. ref[c] \in Objects
    BY <1>2 DEF TypeOK
  <2>1. /\ \A p \in Objects : p # ref[c] => items'[p] = items[p]
        /\ DOMAIN items[ref[c]] = 1..Len(items[ref[c]]) /\ Len(items[ref[c]]) \in Nat
        /\ DOMAIN items'[ref[c]] = 1..(Len(items[ref[c]]) - 1)
        /\ \A j \in DOMAIN items'[ref[c]] :
              items'[ref[c]][j] = IF j < n THEN items[ref[c]][j] ELSE items[ref[c]][j + 1]
    BY <1>2, <2>0, ExtractStep
  <2>2. CASE o # ref[c]
    <3>1. items'[o] = items[o]
      BY <2>1, <2>2
    <3>2. \A i \in DOMAIN items[o], k \in DOMAIN items'[o] :
             items[o][i].ticket = items'[o][k].ticket => i = k
      BY <1>0, <3>1 DEF QueuesApart
    <3> QED
      BY <3>2 DEF KeepsOrder
  <2>3. CASE o = ref[c]
    <3> DEFINE At(k) == IF k < n THEN k ELSE k + 1
    <3>1. \A k \in DOMAIN items'[o] : At(k) \in DOMAIN items[o] /\ items'[o][k] = items[o][At(k)]
      BY <2>1, <2>3
    <3>2. \A k, l \in DOMAIN items'[o] : At(k) < At(l) => k < l
      BY <2>1, <2>3
    <3> HIDE DEF At
    <3>3. \A i \in DOMAIN items[o], k \in DOMAIN items'[o] :
             items[o][i].ticket = items'[o][k].ticket => i = At(k)
      BY <1>0, <3>1 DEF QueuesApart
    <3> QED
      BY <3>2, <3>3 DEF KeepsOrder
  <2> QED
    BY <2>2, <2>3
<1>3. ASSUME NEW c \in Callers, Push(c)
      PROVE  KeepsOrder(o)
  <2>0. arg[c] \in Item /\ arg[c] \in Hand(c)
    BY <1>3 DEF Push, Roles, Hand
  <2> DEFINE q == ref[c]
  <2>1. /\ q \in Objects
        /\ \A p \in Objects : p # q => items'[p] = items[p]
        /\ DOMAIN items[q] = 1..Len(items[q]) /\ Len(items[q]) \in Nat
        /\ \A j \in DOMAIN items[q] : /\ j \in DOMAIN items'[q]
                                      /\ items'[q][j].ticket = items[q][j].ticket
        /\ \/ DOMAIN items'[q] = DOMAIN items[q]
           \/ /\ DOMAIN items'[q] = 1..(Len(items[q]) + 1)
              /\ items'[q][Len(items[q]) + 1] = arg[c]
    BY <1>3, <2>0, PushStep, Zenon
  <2>2. \A k \in DOMAIN items'[o] : \/ /\ k \in DOMAIN items[o]
                                       /\ items'[o][k].ticket = items[o][k].ticket
                                    \/ items'[o][k] = arg[c]
    BY <2>1
  <2>3. \A i \in DOMAIN items[o], k \in DOMAIN items'[o] :
           items[o][i].ticket = items'[o][k].ticket => i = k
    BY <1>0, <2>0, <2>2 DEF QueuesApart, HandsOffQueues
  <2> QED
    BY <2>3 DEF KeepsOrder
<1>4. CASE UNCHANGED vars
  BY <1>1, <1>4 DEF vars
<1>5. CASE \E k \in Keys : RemoveItem(k) \/ \E n \in Nodes : HandlerAdd(k, n)
  BY <1>1, <1>5 DEF RemoveItem, HandlerAdd, Add, Load, Call
<1>6. CASE \E w \in Workers : PutBack(w) \/ Consume(w) \/ Get(w) \/ GetWithStrategy(w)
  BY <1>1, <1>6 DEF PutBack, Consume, Get, GetWithStrategy, Add, Load, Call
<1>7. CASE RemoveQueue \/ CreatePool
  BY <1>1, <1>7 DEF RemoveQueue, CreatePool
<1>8. ASSUME NEW c \in Callers, RemoveKey(c)
      PROVE  KeepsOrder(o)
  BY <1>1, <1>2, <1>8 DEF RemoveKey
<1>9. ASSUME NEW w \in Workers, Pop(w)
      PROVE  KeepsOrder(o)
  <2>1. ref[w] \in Objects
    BY <1>9 DEF Pop, TypeOK, Callers
  <2>2. items[ref[w]] \in Seq(Item)
    BY <2>1 DEF TypeOK
  <2>3. items[ref[w]] # <<>> => 1 \in DOMAIN items[ref[w]]
    BY <2>2, EmptySeq, LenProperties
  <2> QED
    BY <1>1, <1>2, <1>9, <2>3 DEF Pop, Callers
<1>10. ASSUME NEW w \in Workers, Snapshot(w) \/ Take(w)
       PROVE  KeepsOrder(o)
  BY <1>1, <1>2, <1>10 DEF Snapshot, Take, Callers
<1> QED
  BY <1>3, <1>4, <1>5, <1>6, <1>7, <1>8, <1>9, <1>10
     DEF Next, HandlerStep, WorkerStep, Callers

\* No operation reorders a queue: "oldest first" means what pickSmart takes it
\* to mean.
THEOREM OrderIsKept == Spec => OrderKept
<1>1. IInv /\ [Next]_vars =>
        [\A o \in Objects : \A i, j \in DOMAIN items[o], k, l \in DOMAIN items'[o] :
            /\ i < j
            /\ items[o][i].ticket = items'[o][k].ticket
            /\ items[o][j].ticket = items'[o][l].ticket
            => k < l]_vars
  BY OrderStep DEF KeepsOrder
<1> QED
  BY <1>1, Inductive, PTL DEF Spec, OrderKept
=============================================================================
