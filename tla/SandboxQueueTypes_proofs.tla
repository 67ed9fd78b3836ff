--------------------- MODULE SandboxQueueTypes_proofs ---------------------
(***************************************************************************)
(* Lemmas about the operations on a queue's slice, and the proof that      *)
(* every action of SandboxQueue keeps the types and keeps the set of a     *)
(* queue in step with its items.                                           *)
(***************************************************************************)
EXTENDS SandboxQueue, SequenceTheorems, TLAPS

\* Only a handler removes by key, only workers take; a step that works on a key
\* has one.
Roles ==
    /\ pc[Handler] \in {"idle", "push", "remove"}
    /\ \A c \in Callers : pc[c] \in {"push", "remove", "take"} => arg[c] \in Item

-----------------------------------------------------------------------------
\* What RemoveAt leaves: the items before position i, and those after it moved
\* one to the left.
LEMMA RemoveAtShifts ==
    ASSUME NEW S, NEW s \in Seq(S), NEW i \in 1..Len(s)
    PROVE  /\ DropItem(s, i) \in Seq(S)
           /\ Len(DropItem(s, i)) = Len(s) - 1
           /\ \A j \in 1..(Len(s) - 1) :
                 DropItem(s, i)[j] = IF j < i THEN s[j] ELSE s[j + 1]
<1> DEFINE a == SubSeq(s, 1, i - 1)
           b == SubSeq(s, i + 1, Len(s))
<1>0. /\ Len(s) \in Nat
      /\ \A j \in 1..Len(s) : s[j] \in S
  BY LenProperties, ElementOfSeq
<1>1. /\ a \in Seq(S) /\ Len(a) = i - 1
      /\ \A j \in 1..(i - 1) : a[j] = s[j]
  <2>1. \A j \in 1..(i - 1) : s[j] \in S
    BY <1>0
  <2>2. /\ a \in Seq(S)
        /\ Len(a) = IF 1 <= i - 1 THEN i - 1 - 1 + 1 ELSE 0
        /\ \A j \in 1..(i - 1 - 1 + 1) : a[j] = s[1 + j - 1]
    BY <1>0, <2>1, SubSeqProperties
  <2> QED
    BY <1>0, <2>2
<1>2. /\ b \in Seq(S) /\ Len(b) = Len(s) - i
      /\ \A j \in 1..(Len(s) - i) : b[j] = s[i + j]
  <2>1. \A j \in (i + 1)..Len(s) : s[j] \in S
    BY <1>0
  <2>2. /\ b \in Seq(S)
        /\ Len(b) = IF i + 1 <= Len(s) THEN Len(s) - (i + 1) + 1 ELSE 0
        /\ \A j \in 1..(Len(s) - (i + 1) + 1) : b[j] = s[i + 1 + j - 1]
    BY <1>0, <2>1, SubSeqProperties
  <2> QED
    BY <1>0, <2>2
<1>3. DropItem(s, i) = a \o b
  BY Zenon DEF DropItem, RemoveAt
<1> HIDE DEF a, b
<1>4. /\ a \o b \in Seq(S)
      /\ Len(a \o b) = Len(a) + Len(b)
      /\ \A j \in 1..(Len(a) + Len(b)) :
            (a \o b)[j] = IF j <= Len(a) THEN a[j] ELSE b[j - Len(a)]
  BY <1>1, <1>2, ConcatProperties
<1>5. ASSUME NEW j \in 1..(Len(s) - 1)
      PROVE  (a \o b)[j] = IF j < i THEN s[j] ELSE s[j + 1]
  <2>1. CASE j < i
    BY <2>1, <1>0, <1>1, <1>2, <1>4
  <2>2. CASE ~(j < i)
    <3>1. j - Len(a) \in 1..(Len(s) - i) /\ i + (j - Len(a)) = j + 1
      BY <2>2, <1>0, <1>1
    <3>2. (a \o b)[j] = b[j - Len(a)]
      BY <2>2, <1>0, <1>1, <1>2, <1>4
    <3> QED
      BY <2>2, <3>1, <3>2, <1>2, Zenon
  <2> QED
    BY <2>1, <2>2, Zenon
<1> QED
  BY <1>0, <1>1, <1>2, <1>3, <1>4, <1>5

KeysOf(s) == {s[i].key : i \in DOMAIN s}
Distinct(s) == \A i, j \in DOMAIN s : s[i].key = s[j].key => i = j

\* Dropping an item drops its key and no other.
LEMMA DropKeys ==
    ASSUME NEW s \in Seq(Item), NEW i \in DOMAIN s, Distinct(s)
    PROVE  /\ KeysOf(DropItem(s, i)) = KeysOf(s) \ {s[i].key}
           /\ Distinct(DropItem(s, i))
<1> DEFINE r == DropItem(s, i)
<1>1. /\ Len(s) \in Nat /\ DOMAIN s = 1..Len(s)
  BY LenProperties
<1>2. /\ r \in Seq(Item) /\ Len(r) = Len(s) - 1
      /\ \A j \in 1..(Len(s) - 1) : r[j] = IF j < i THEN s[j] ELSE s[j + 1]
  BY <1>1, RemoveAtShifts, Zenon
<1>3. DOMAIN r = 1..(Len(s) - 1)
  BY <1>2, LenProperties
<1> HIDE DEF r
<1>4. Distinct(r)
  <2> SUFFICES ASSUME NEW j \in DOMAIN r, NEW l \in DOMAIN r, r[j].key = r[l].key
               PROVE  j = l
    BY DEF Distinct
  <2> DEFINE At(n) == IF n < i THEN n ELSE n + 1
  <2>1. /\ At(j) \in DOMAIN s /\ At(l) \in DOMAIN s
        /\ At(j) = At(l) => j = l
    BY <1>1, <1>3
  <2>2. r[j] = s[At(j)] /\ r[l] = s[At(l)]
    BY <1>2, <1>3
  <2>3. At(j) = At(l)
    BY <2>1, <2>2, Zenon DEF Distinct
  <2> QED
    BY <2>1, <2>3
<1>5. \A j \in DOMAIN r : r[j].key \in KeysOf(s) \ {s[i].key}
  BY <1>1, <1>2, <1>3 DEF Distinct, KeysOf
<1>6. ASSUME NEW j \in DOMAIN s, s[j].key # s[i].key
      PROVE  \E l \in DOMAIN r : r[l].key = s[j].key
  <2>1. CASE j < i
    BY <2>1, <1>1, <1>2, <1>3
  <2>2. CASE j > i
    <3>1. j - 1 \in DOMAIN r /\ r[j - 1] = s[j]
      BY <2>2, <1>1, <1>2, <1>3
    <3> QED
      BY <3>1
  <2> QED
    BY <1>1, <1>6, <2>1, <2>2
<1>7. KeysOf(r) = KeysOf(s) \ {s[i].key}
  BY <1>5, <1>6 DEF KeysOf
<1> QED
  BY <1>4, <1>7 DEF r

\* Appending an item with a new key adds that key.
LEMMA AppendKeys ==
    ASSUME NEW s \in Seq(Item), NEW it \in Item, it.key \notin KeysOf(s), Distinct(s)
    PROVE  /\ KeysOf(Append(s, it)) = KeysOf(s) \cup {it.key}
           /\ Distinct(Append(s, it))
<1> DEFINE r == Append(s, it)
<1>1. Len(s) \in Nat /\ DOMAIN s = 1..Len(s)
  BY LenProperties
<1>2. /\ r \in Seq(Item) /\ Len(r) = Len(s) + 1
      /\ \A j \in 1..Len(s) : r[j] = s[j]
      /\ r[Len(s) + 1] = it
  BY AppendProperties
<1>3. DOMAIN r = 1..(Len(s) + 1)
  BY <1>2, LenProperties
<1> HIDE DEF r
<1>4. Distinct(r)
  BY <1>1, <1>2, <1>3 DEF Distinct, KeysOf
<1>5. \A j \in DOMAIN r : r[j].key \in KeysOf(s) \cup {it.key}
  BY <1>1, <1>2, <1>3 DEF KeysOf
<1>6. \A k \in KeysOf(s) \cup {it.key} : \E j \in DOMAIN r : r[j].key = k
  BY <1>1, <1>2, <1>3 DEF KeysOf
<1>7. KeysOf(r) = KeysOf(s) \cup {it.key}
  BY <1>5, <1>6, Zenon DEF KeysOf
<1> QED
  BY <1>4, <1>7 DEF r

\* Relocating changes node names only.
LEMMA RelocateShape ==
    ASSUME NEW s \in Seq(Item), NEW it \in Item
    PROVE  /\ Relocate(s, it) \in Seq(Item)
           /\ DOMAIN Relocate(s, it) = DOMAIN s
           /\ \A i \in DOMAIN s : /\ Relocate(s, it)[i].key = s[i].key
                                   /\ Relocate(s, it)[i].ticket = s[i].ticket
<1> DEFINE r == Relocate(s, it)
<1>1. Len(s) \in Nat /\ DOMAIN s = 1..Len(s) /\ \A i \in DOMAIN s : s[i] \in Item
  BY LenProperties, ElementOfSeq
<1>2. /\ DOMAIN r = DOMAIN s
      /\ \A i \in DOMAIN s : r[i] = IF s[i].key = it.key THEN [s[i] EXCEPT !.node = it.node]
                                                        ELSE s[i]
  BY DEF Relocate
<1>3. \A i \in DOMAIN s : r[i] \in Item /\ r[i].key = s[i].key /\ r[i].ticket = s[i].ticket
  BY <1>1, <1>2 DEF Item
<1>4. r \in [1..Len(s) -> Item]
  BY <1>1, <1>2, <1>3 DEF Relocate
<1>5. r \in Seq(Item)
  BY <1>1, <1>4, SeqDef
<1> QED
  BY <1>2, <1>3, <1>5

-----------------------------------------------------------------------------
\* What Extract does to slice and set, in terms of the positions before it.
LEMMA ExtractStep ==
    ASSUME TypeOK, SetMatchesItems,
           NEW o \in Objects, NEW i \in DOMAIN items[o], Extract(o, i)
    PROVE  /\ items' \in [Objects -> Seq(Item)]
           /\ set' \in [Objects -> SUBSET Keys]
           /\ SetMatchesItems'
           /\ \A p \in Objects : p # o => items'[p] = items[p]
           /\ DOMAIN items[o] = 1..Len(items[o]) /\ Len(items[o]) \in Nat
           /\ DOMAIN items'[o] = 1..(Len(items[o]) - 1)
           /\ \A j \in DOMAIN items'[o] :
                 items'[o][j] = IF j < i THEN items[o][j] ELSE items[o][j + 1]
<1> DEFINE s == items[o]
           r == DropItem(s, i)
<1>1. s \in Seq(Item)
  BY DEF TypeOK
<1>2. Len(s) \in Nat /\ DOMAIN s = 1..Len(s)
  BY <1>1, LenProperties
<1>3. /\ r \in Seq(Item) /\ Len(r) = Len(s) - 1
      /\ \A j \in 1..(Len(s) - 1) : r[j] = IF j < i THEN s[j] ELSE s[j + 1]
  BY <1>1, <1>2, RemoveAtShifts
<1>4. DOMAIN r = 1..(Len(s) - 1)
  BY <1>3, LenProperties
<1>5. \A p \in Objects : Distinct(items[p]) /\ set[p] = KeysOf(items[p])
  BY DEF SetMatchesItems, Distinct, KeysOf
<1>6. KeysOf(r) = KeysOf(s) \ {s[i].key} /\ Distinct(r)
  BY <1>1, <1>5, DropKeys
<1>7. /\ items' = [items EXCEPT ![o] = r]
      /\ set' = [set EXCEPT ![o] = set[o] \ {s[i].key}]
  BY DEF Extract
<1> HIDE DEF r
<1>8. /\ items'[o] = r /\ set'[o] = KeysOf(r)
      /\ \A p \in Objects : p # o => items'[p] = items[p] /\ set'[p] = set[p]
  BY <1>5, <1>6, <1>7 DEF TypeOK
<1>9. SetMatchesItems'
  <2>1. \A p \in Objects : Distinct(items'[p]) /\ set'[p] = KeysOf(items'[p])
    BY <1>5, <1>6, <1>8
  <2> QED
    BY <2>1 DEF SetMatchesItems, Distinct, KeysOf
<1>10. items' \in [Objects -> Seq(Item)] /\ set' \in [Objects -> SUBSET Keys]
  BY <1>3, <1>7 DEF TypeOK
<1> QED
  BY <1>2, <1>3, <1>4, <1>8, <1>9, <1>10

\* What Push does to slice and set.
LEMMA PushStep ==
    ASSUME TypeOK, SetMatchesItems, NEW c \in Callers, Push(c), arg[c] \in Item
    PROVE  /\ ref[c] \in Objects
           /\ items' \in [Objects -> Seq(Item)]
           /\ set' \in [Objects -> SUBSET Keys]
           /\ SetMatchesItems'
           /\ \A p \in Objects : p # ref[c] => items'[p] = items[p]
           /\ DOMAIN items[ref[c]] = 1..Len(items[ref[c]]) /\ Len(items[ref[c]]) \in Nat
           /\ \A j \in DOMAIN items[ref[c]] :
                 /\ j \in DOMAIN items'[ref[c]]
                 /\ items'[ref[c]][j].ticket = items[ref[c]][j].ticket
           /\ \/ DOMAIN items'[ref[c]] = DOMAIN items[ref[c]]
              \/ /\ DOMAIN items'[ref[c]] = 1..(Len(items[ref[c]]) + 1)
                 /\ items'[ref[c]][Len(items[ref[c]]) + 1] = arg[c]
<1> DEFINE o == ref[c]
           s == items[o]
<1>0. o \in Objects
  BY DEF Push, TypeOK
<1>1. s \in Seq(Item)
  BY <1>0 DEF TypeOK
<1>2. Len(s) \in Nat /\ DOMAIN s = 1..Len(s)
  BY <1>1, LenProperties
<1>3. \A p \in Objects : Distinct(items[p]) /\ set[p] = KeysOf(items[p])
  BY DEF SetMatchesItems, Distinct, KeysOf
<1>4. arg[c].key \in Keys
  BY DEF Item
<1>5. CASE /\ arg[c].key \notin set[o]
           /\ set' = [set EXCEPT ![o] = set[o] \cup {arg[c].key}]
           /\ items' = [items EXCEPT ![o] = Append(items[o], arg[c])]
  <2> DEFINE r == Append(s, arg[c])
  <2>1. KeysOf(r) = KeysOf(s) \cup {arg[c].key} /\ Distinct(r)
    BY <1>0, <1>1, <1>3, <1>5, AppendKeys
  <2>2. /\ r \in Seq(Item) /\ Len(r) = Len(s) + 1
        /\ \A j \in 1..Len(s) : r[j] = s[j]
        /\ r[Len(s) + 1] = arg[c]
    BY <1>1, AppendProperties
  <2>3. DOMAIN r = 1..(Len(s) + 1)
    BY <2>2, LenProperties
  <2> HIDE DEF r
  <2>4. items' = [items EXCEPT ![o] = r]
    BY <1>5 DEF r
  <2>5. /\ items'[o] = r /\ set'[o] = KeysOf(r)
        /\ \A p \in Objects : p # o => items'[p] = items[p] /\ set'[p] = set[p]
    BY <1>0, <1>3, <1>5, <2>1, <2>4 DEF TypeOK
  <2>6. SetMatchesItems'
    <3>1. \A p \in Objects : Distinct(items'[p]) /\ set'[p] = KeysOf(items'[p])
      BY <1>3, <2>1, <2>5
    <3> QED
      BY <3>1 DEF SetMatchesItems, Distinct, KeysOf
  <2>7. items' \in [Objects -> Seq(Item)] /\ set' \in [Objects -> SUBSET Keys]
    BY <1>0, <1>4, <1>5, <2>2, <2>4 DEF TypeOK
  <2>8. \A j \in DOMAIN s : j \in DOMAIN r /\ r[j].ticket = s[j].ticket
    BY <1>2, <2>2, <2>3
  <2> QED
    BY <1>0, <1>2, <2>2, <2>3, <2>5, <2>6, <2>7, <2>8
<1>6. CASE /\ arg[c].key \in set[o]
           /\ set' = set
           /\ items' = [items EXCEPT ![o] = Relocate(items[o], arg[c])]
  <2> DEFINE r == Relocate(s, arg[c])
  <2>1. /\ r \in Seq(Item) /\ DOMAIN r = DOMAIN s
        /\ \A i \in DOMAIN s : r[i].key = s[i].key /\ r[i].ticket = s[i].ticket
    BY <1>1, RelocateShape, Zenon
  <2> HIDE DEF r
  <2>2. items' = [items EXCEPT ![o] = r]
    BY <1>6 DEF r
  <2>3. /\ items'[o] = r
        /\ \A p \in Objects : p # o => items'[p] = items[p]
    BY <1>0, <2>2 DEF TypeOK
  <2>4. KeysOf(r) = KeysOf(s) /\ Distinct(r)
    BY <1>0, <1>3, <2>1 DEF KeysOf, Distinct
  <2>5. SetMatchesItems'
    <3>1. \A p \in Objects : Distinct(items'[p]) /\ set'[p] = KeysOf(items'[p])
      BY <1>3, <1>6, <2>3, <2>4
    <3> QED
      BY <3>1 DEF SetMatchesItems, Distinct, KeysOf
  <2>6. items' \in [Objects -> Seq(Item)] /\ set' \in [Objects -> SUBSET Keys]
    BY <1>0, <1>6, <2>1, <2>2 DEF TypeOK
  <2> QED
    BY <1>0, <1>2, <2>1, <2>3, <2>5, <2>6
<1> QED
  BY <1>5, <1>6 DEF Push

-----------------------------------------------------------------------------
\* A call that begins keeps the types and the roles, and touches no queue.
LEMMA CallTypes ==
    ASSUME TypeOK, Roles, NEW c \in Callers, NEW step \in Steps,
           NEW o \in Objects, NEW it \in Item \cup {NoItem},
           Call(c, step, o, it), queue' \in Objects \cup {NoObject}, used' \subseteq Objects,
           held' \in [Workers -> SUBSET Item],
           c = Handler => step \in {"push", "remove"},
           step \in {"push", "remove", "take"} => it \in Item
    PROVE  TypeOK' /\ Roles'
<1>1. calls' \in 0..MaxCalls
  BY SandboxQueueAssumption DEF Call, TypeOK
<1>2. TypeOK'
  BY <1>1 DEF Call, TypeOK
<1>3. Roles'
  BY DEF Call, TypeOK, Roles, Callers
<1> QED
  BY <1>2, <1>3

\* A step inside a call ends it, or goes on: types and roles are kept.
LEMMA StepTypes ==
    ASSUME TypeOK, Roles, NEW c \in Callers,
           items' \in [Objects -> Seq(Item)], set' \in [Objects -> SUBSET Keys],
           held' \in [Workers -> SUBSET Item],
           Return(c), UNCHANGED <<queue, used, deleted, calls>>
    PROVE  TypeOK' /\ Roles'
<1>1. TypeOK'
  BY DEF TypeOK, Return, Steps
<1>2. Roles'
  BY DEF TypeOK, Roles, Return, Callers
<1> QED
  BY <1>1, <1>2

\* Every action keeps the types, the roles, and set and slice in step.
LEMMA StateStep ==
    ASSUME TypeOK, Roles, SetMatchesItems, Next
    PROVE  TypeOK' /\ Roles' /\ SetMatchesItems'
<1> USE DEF Callers
<1>0. /\ \A c \in Callers : pc[c] # "idle" => ref[c] \in Objects
      /\ \A o \in Objects : items[o] \in Seq(Item)
      /\ \A o \in Objects : \A i \in DOMAIN items[o] : items[o][i] \in Item
  <2>1. \A o \in Objects : items[o] \in Seq(Item)
    BY DEF TypeOK
  <2>2. \A o \in Objects : \A i \in DOMAIN items[o] : items[o][i] \in Item
    BY <2>1, LenProperties, ElementOfSeq
  <2> QED
    BY <2>1, <2>2 DEF TypeOK
<1>1. ASSUME items' = items, set' = set
      PROVE  SetMatchesItems'
  BY <1>1 DEF SetMatchesItems
<1>2. ASSUME NEW k \in Keys, RemoveItem(k)
      PROVE  TypeOK' /\ Roles' /\ SetMatchesItems'
  <2> DEFINE it == [key |-> k, node |-> NoNode, ticket |-> calls]
  <2>1. Load(Handler, "remove", it) /\ held' = held
    BY <1>2 DEF RemoveItem
  <2>2. it \in Item
    BY <2>1, SandboxQueueAssumption DEF Load, Call, Item, TypeOK
  <2> HIDE DEF it
  <2>3. TypeOK' /\ Roles'
    BY <2>1, <2>2, CallTypes, Zenon DEF Load, Steps, TypeOK
  <2> QED
    BY <1>1, <2>1, <2>3 DEF Load, Call
<1>3. ASSUME NEW c \in Callers, NEW it \in Item, Add(c, it), held' \in [Workers -> SUBSET Item]
      PROVE  TypeOK' /\ Roles' /\ SetMatchesItems'
  <2>1. PICK o \in Objects : /\ Call(c, "push", o, it)
                             /\ queue' \in Objects /\ used' \subseteq Objects
    BY <1>3 DEF Add, Load, TypeOK
  <2>2. TypeOK' /\ Roles'
    BY <1>3, <2>1, CallTypes DEF Steps
  <2> QED
    BY <1>1, <2>1, <2>2 DEF Call
<1>4. ASSUME NEW k \in Keys, NEW n \in Nodes, HandlerAdd(k, n)
      PROVE  TypeOK' /\ Roles' /\ SetMatchesItems'
  <2> DEFINE it == [key |-> k, node |-> n, ticket |-> calls]
  <2>1. Add(Handler, it) /\ held' = held
    BY <1>4 DEF HandlerAdd
  <2>2. it \in Item
    BY <2>1 DEF Add, Load, Call, Item, TypeOK
  <2> HIDE DEF it
  <2> QED
    BY <1>3, <2>1, <2>2, Zenon DEF TypeOK
<1>5. ASSUME NEW w \in Workers, PutBack(w)
      PROVE  TypeOK' /\ Roles' /\ SetMatchesItems'
  <2>0. PICK it \in held[w] : \E n \in NormalizedNodes(it) :
               /\ Add(w, [it EXCEPT !.node = n])
               /\ held' = [held EXCEPT ![w] = @ \ {it}]
    BY <1>5, Zenon DEF PutBack
  <2>1. PICK n \in NormalizedNodes(it) :
               /\ Add(w, [it EXCEPT !.node = n])
               /\ held' = [held EXCEPT ![w] = @ \ {it}]
    BY <2>0, Zenon
  <2>2. it \in Item /\ held' \in [Workers -> SUBSET Item]
    BY <2>1 DEF TypeOK
  <2>3. [it EXCEPT !.node = n] \in Item
    BY <2>2 DEF Item, NormalizedNodes
  <2> QED
    BY <1>3, <2>1, <2>2, <2>3
<1>6. ASSUME NEW w \in Workers, Consume(w)
      PROVE  TypeOK' /\ Roles' /\ SetMatchesItems'
  BY <1>1, <1>6 DEF Consume, TypeOK, Roles
<1>7. ASSUME NEW w \in Workers, NEW step \in {"pop", "snapshot"},
             Load(w, step, NoItem), held' = held
      PROVE  TypeOK' /\ Roles' /\ SetMatchesItems'
  <2>0. /\ w # Handler /\ step \in Steps
        /\ queue \in Objects /\ queue' = queue /\ used' \subseteq Objects
        /\ held' \in [Workers -> SUBSET Item] /\ Call(w, step, queue, NoItem)
    BY <1>7, SandboxQueueAssumption DEF Load, Steps, TypeOK
  <2>1. TypeOK' /\ Roles'
    BY <2>0, CallTypes
  <2> QED
    BY <1>1, <1>7, <2>1 DEF Load, Call
<1>8. CASE RemoveQueue
  BY <1>1, <1>8, SandboxQueueAssumption DEF RemoveQueue, TypeOK, Roles
<1>9. CASE CreatePool
  BY <1>1, <1>9, Zenon DEF CreatePool, TypeOK, Roles
<1>10. ASSUME NEW c \in Callers, Push(c)
       PROVE  TypeOK' /\ Roles' /\ SetMatchesItems'
  <2>1. arg[c] \in Item
    BY <1>10 DEF Push, Roles
  <2>2. /\ items' \in [Objects -> Seq(Item)] /\ set' \in [Objects -> SUBSET Keys]
        /\ SetMatchesItems'
    BY <1>10, <2>1, PushStep
  <2>3. held' \in [Workers -> SUBSET Item]
    BY <1>10 DEF Push, TypeOK
  <2>4. TypeOK' /\ Roles'
    BY <1>10, <2>2, <2>3, StepTypes DEF Push
  <2> QED
    BY <2>2, <2>4
<1>11. ASSUME NEW c \in Callers, RemoveKey(c)
       PROVE  TypeOK' /\ Roles' /\ SetMatchesItems'
  <2>0. ref[c] \in Objects
    BY <1>0, <1>11 DEF RemoveKey
  <2>1. /\ items' \in [Objects -> Seq(Item)] /\ set' \in [Objects -> SUBSET Keys]
        /\ SetMatchesItems'
    <3>1. CASE items' = items /\ set' = set
      BY <1>1, <3>1 DEF TypeOK
    <3>2. CASE \E i \in DOMAIN items[ref[c]] : Extract(ref[c], i)
      BY <2>0, <3>2, ExtractStep
    <3> QED
      BY <1>11, <3>1, <3>2 DEF RemoveKey
  <2>2. TypeOK' /\ Roles'
    BY <1>11, <2>1, StepTypes, Zenon DEF RemoveKey, TypeOK
  <2> QED
    BY <2>1, <2>2
<1>12. ASSUME NEW w \in Workers, Pop(w)
       PROVE  TypeOK' /\ Roles' /\ SetMatchesItems'
  <2>0. ref[w] \in Objects
    BY <1>0, <1>12 DEF Pop
  <2>1. /\ items' \in [Objects -> Seq(Item)] /\ set' \in [Objects -> SUBSET Keys]
        /\ held' \in [Workers -> SUBSET Item] /\ SetMatchesItems'
    <3>1. CASE items' = items /\ set' = set /\ held' = held
      BY <1>1, <3>1 DEF TypeOK
    <3>2. CASE /\ items[ref[w]] # <<>>
               /\ held' = [held EXCEPT ![w] = held[w] \cup {items[ref[w]][1]}]
               /\ Extract(ref[w], 1)
      <4>1. 1 \in DOMAIN items[ref[w]]
        BY <1>0, <2>0, <3>2, EmptySeq, LenProperties
      <4>2. held' \in [Workers -> SUBSET Item]
        BY <1>0, <2>0, <3>2, <4>1 DEF TypeOK
      <4> QED
        BY <2>0, <3>2, <4>1, <4>2, ExtractStep
    <3> QED
      BY <1>12, <3>1, <3>2 DEF Pop
  <2>2. TypeOK' /\ Roles'
    BY <1>12, <2>1, StepTypes DEF Pop
  <2> QED
    BY <2>1, <2>2
<1>13. ASSUME NEW w \in Workers, Snapshot(w)
       PROVE  TypeOK' /\ Roles' /\ SetMatchesItems'
  <2>0. ref[w] \in Objects /\ w # Handler
    BY <1>0, <1>13, SandboxQueueAssumption DEF Snapshot
  <2>1. CASE Return(w)
    BY <1>1, <1>13, <2>1, StepTypes DEF Snapshot, TypeOK
  <2>2. CASE /\ \E i \in pickSmart(items[ref[w]]) :
                   arg' = [arg EXCEPT ![w] = items[ref[w]][i]]
             /\ pc' = [pc EXCEPT ![w] = "take"]
             /\ ref' = ref
    <3>1. PICK i \in DOMAIN items[ref[w]] : arg' = [arg EXCEPT ![w] = items[ref[w]][i]]
      BY <2>2, Zenon DEF pickSmart
    <3>2. items[ref[w]][i] \in Item
      BY <1>0, <2>0
    <3>3. TypeOK'
      BY <1>13, <2>0, <2>2, <3>1, <3>2 DEF Snapshot, TypeOK, Steps
    <3>4. Roles'
      BY <2>0, <2>2, <3>1, <3>2 DEF Roles, TypeOK
    <3> QED
      BY <1>1, <1>13, <3>3, <3>4 DEF Snapshot
  <2> QED
    BY <1>13, <2>1, <2>2 DEF Snapshot
<1>14. ASSUME NEW w \in Workers, Take(w)
       PROVE  TypeOK' /\ Roles' /\ SetMatchesItems'
  <2>0. ref[w] \in Objects /\ w # Handler /\ arg[w] \in Item
    BY <1>0, <1>14, SandboxQueueAssumption DEF Take, Roles
  <2>1. CASE Retry(w) /\ UNCHANGED <<items, set, ref, arg, held>>
    <3>1. TypeOK'
      BY <1>14, <2>0, <2>1 DEF Take, Retry, TypeOK, Steps
    <3>2. Roles'
      BY <2>0, <2>1 DEF Retry, Roles, TypeOK
    <3> QED
      BY <1>1, <2>1, <3>1, <3>2
  <2>2. ASSUME NEW i \in DOMAIN items[ref[w]], Return(w), Extract(ref[w], i),
               held' = [held EXCEPT ![w] = held[w] \cup
                          {[arg[w] EXCEPT !.ticket = items[ref[w]][i].ticket]}]
        PROVE  TypeOK' /\ Roles' /\ SetMatchesItems'
    <3>1. [arg[w] EXCEPT !.ticket = items[ref[w]][i].ticket] \in Item
      BY <1>0, <2>0, Zenon DEF Item
    <3>2. held' \in [Workers -> SUBSET Item]
      BY <2>2, <3>1, Zenon DEF TypeOK
    <3>3. /\ items' \in [Objects -> Seq(Item)] /\ set' \in [Objects -> SUBSET Keys]
          /\ SetMatchesItems'
      BY <2>0, <2>2, ExtractStep
    <3>4. TypeOK' /\ Roles'
      BY <1>14, <2>2, <3>2, <3>3, StepTypes DEF Take
    <3> QED
      BY <3>3, <3>4
  <2> QED
    BY <1>14, <2>1, <2>2 DEF Take
<1> QED
  BY <1>2, <1>4, <1>5, <1>6, <1>7, <1>8, <1>9, <1>10, <1>11, <1>12, <1>13, <1>14
     DEF Next, HandlerStep, WorkerStep, Get, GetWithStrategy
=============================================================================
