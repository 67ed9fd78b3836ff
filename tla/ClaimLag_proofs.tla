--------------------------- MODULE ClaimLag_proofs ---------------------------
(***************************************************************************)
(* Ownership in ClaimAdoption when a pass may begin with a claim from the  *)
(* past, as long as its Sandboxes are current and the controller neither   *)
(* restarts nor meets a request that fails for other reasons than a        *)
(* conflict: what a stale claim makes a worker do is stopped by the lock   *)
(* on the claim, the fresh reads and the place of each key.                *)
(***************************************************************************)
EXTENDS ClaimAdoption_proofs

\* Nobody deletes Sandboxes, no request fails but in conflicts, nothing restarts; claims may
\* be read late, deleted, and expire.
Calm == "boxes" \notin Lag /\ MaxDeletes = 0 /\ Faults \subseteq {"busy", "expire", "drop"}

\* The keys in the hand of a worker: those it keeps while it picks, and its candidate until
\* the claim refers to it.
Hand(c) ==
    Kept(wk[c]) \cup (IF wk[c].pc \in {"assign", "reassign"} THEN {wk[c].cand} ELSE {})

\* What the worker and the cache know of the reference of the claim, which only ever goes from
\* none to one Sandbox; what the claim owns; and that a reference in use is to a Sandbox that
\* is the claim's or still the pool's.
LagOf(c) ==
    /\ seenClaim[c].ann \in {"none", claim[c].ann}
    /\ wk[c].pc # "idle" => wk[c].view.ann \in {"none", claim[c].ann}
    /\ wk[c].pc \in {"byname", "pick", "assign"} => wk[c].view.ann = "none"
    /\ wk[c].pc = "create" => claim[c].ann = "none"
    /\ wk[c].pc \in {"pick", "assign", "reassign"} => box[c] # c
    /\ wk[c].pc \in {"complete", "resolve"} => claim[c].ann = wk[c].cand
    /\ wk[c].pc \in {"unref", "clear"} => ~claim[c].live
    /\ wk[c].pc \in {"mark", "expire"} => c \in expired
    /\ wk[c].pc \in {"lookup", "byname"} => \A s \in Boxes : box[s] = c => seenBox[s] = c
    /\ wk[c].pc # "pick" => wk[c].skip = {} /\ wk[c].fall = "none"
    /\ wk[c].fall \notin wk[c].skip
    /\ c \in ForceCold => claim[c].ann = "none" /\ wk[c].pc \notin {"pick", "assign", "reassign"}
    /\ \A s \in Warm : box[s] = c => claim[c].ann = s
    /\ \A s \in Claims : box[s] = c => s = c /\ claim[c].ann = "none"
    /\ claim[c].live /\ (c \in expired => wk[c].pc \notin {"idle", "mark", "expire"}) =>
         \A s \in Warm : claim[c].ann = s => box[s] \in {"pool", c}

\* A warm Sandbox is a key of the queue, in the hand of one worker, or the reference of one
\* claim, and in the first two cases it is the pool's.
Tokens ==
    /\ \A s \in queue : box[s] = "pool" /\ \A c \in Claims : s \notin Hand(c) /\ claim[c].ann # s
    /\ \A c \in Claims : \A s \in Hand(c) : box[s] = "pool" /\ \A d \in Claims : claim[d].ann # s
    /\ \A c, d \in Claims : c # d =>
         Hand(c) \cap Hand(d) = {} /\ (claim[c].ann = "none" \/ claim[c].ann # claim[d].ann)

\* A cold Sandbox is of the claim it is named after, and the cache of the Sandboxes is behind,
\* never wrong about an owner.
Behind ==
    \A s \in Boxes :
        /\ box[s] = "pool" => seenBox[s] = "pool"
        /\ seenBox[s] \in Claims => box[s] \in {seenBox[s], "none"}
        /\ s \in Claims => box[s] \in {"none", s} /\ seenBox[s] \in {"none", s}

\* Everything the proofs need of a state.
LagInv == TypeInv /\ Behind /\ Tokens /\ \A c \in Claims : LagOf(c)

\* What a step of the worker of c does with the keys: it makes none, it holds none that is
\* in the queue, and one that the claim refers to from now on it lets go.
Passes(c) ==
    /\ queue' \cup Hand(c)' \subseteq queue \cup Hand(c)
    /\ queue' \cap Hand(c)' = {}
    /\ \/ claim'[c].ann = claim[c].ann
       \/ claim'[c].ann \in Hand(c) \ (queue' \cup Hand(c)')

\* What holds of a claim stays when its worker and its reference stay, it owns no more, and
\* the Sandbox it refers to stays its own or the pool's.
LEMMA LagFrame ==
    ASSUME NEW d \in Claims, LagOf(d), UNCHANGED wk[d],
           claim'[d].ann = claim[d].ann, claim'[d].live => claim[d].live,
           seenClaim'[d].ann \in {"none", claim[d].ann}, expired \subseteq expired',
           \A s \in Boxes : box'[s] = d => box[s] = d,
           \A s \in Boxes : box'[s] = d /\ seenBox[s] = d => seenBox'[s] = d,
           \A s \in Warm : claim'[d].live /\ claim[d].ann = s /\ box[s] \in {"pool", d} =>
               box'[s] \in {"pool", d}
    PROVE  LagOf(d)'
  BY DEF LagOf, Boxes

\* The keys stay in their places when the worker of c passes them on, and only the Sandbox
\* that its claim refers to leaves the pool.
LEMMA TokensStep ==
    ASSUME LagInv, NEW c \in Claims, Work(c), Passes(c),
           \A s \in Warm : box'[s] = box[s] \/ box[s] # "pool" \/ claim[c].ann = s
    PROVE  Tokens'
  <1> DEFINE Mine == queue \cup Hand(c)
             Mine1 == queue' \cup Hand(c)'
  <1>1. \A d \in Claims \ {c} : wk'[d] = wk[d] /\ claim'[d] = claim[d] /\ Hand(d)' = Hand(d)
    BY WorkFrame DEF LagInv, Hand
  <1>2. /\ \A s \in Mine : box[s] = "pool" /\ \A d \in Claims : claim[d].ann # s
        /\ \A d \in Claims \ {c} : Mine \cap Hand(d) = {}
    BY DEF LagInv, Tokens
  <1>3. \A d \in Claims : \A s \in Hand(d) : box[s] = "pool" /\ \A e \in Claims : claim[e].ann # s
    BY DEF LagInv, Tokens
  <1>4. ASSUME NEW d \in Claims PROVE Hand(d) \subseteq Warm /\ queue \subseteq Warm
    <2>1. wk[d] \in WorkerRecords /\ HandOf(wk[d]) /\ queue \subseteq Warm
      BY DEF LagInv, TypeInv, TypeOK, Hands
    <2> QED
      BY <2>1 DEF Hand, Kept, WorkerRecords, HandOf
  <1>5. Mine1 \subseteq Mine /\ queue' \cap Hand(c)' = {}
    BY DEF Passes
  <1>6. \A d \in Claims : \A s \in queue \cup Hand(d) : box'[s] = "pool"
    BY <1>2, <1>3, <1>4
  <1>7. \/ claim'[c].ann = claim[c].ann
        \/ claim'[c].ann \in Mine \ Mine1
    BY DEF Passes
  <1> HIDE DEF Mine, Mine1
  <1>8. \A s \in Mine1 : \A d \in Claims : claim'[d].ann # s
    BY <1>1, <1>2, <1>5, <1>7
  <1>9. \A d \in Claims \ {c} : \A s \in Hand(d) : \A e \in Claims : claim'[e].ann # s
    BY <1>1, <1>2, <1>3, <1>7
  <1>10. \A d \in Claims \ {c} : Mine1 \cap Hand(d)' = {}
    BY <1>1, <1>2, <1>5
  <1>11. ASSUME NEW a \in Claims, NEW d \in Claims, a # d
         PROVE  claim'[a].ann = "none" \/ claim'[a].ann # claim'[d].ann
    BY <1>1, <1>2, <1>7, <1>11 DEF LagInv, Tokens
  <1> USE DEF Mine, Mine1
  <1>12. \A x \in queue' : box'[x] = "pool" /\ \A d \in Claims : x \notin Hand(d)' /\ claim'[d].ann # x
    <2> SUFFICES ASSUME NEW x \in queue', NEW d \in Claims
                 PROVE  box'[x] = "pool" /\ x \notin Hand(d)' /\ claim'[d].ann # x
      OBVIOUS
    <2> QED
      BY <1>5, <1>6, <1>8, <1>10
  <1>13. \A d \in Claims : \A x \in Hand(d)' : box'[x] = "pool" /\ \A e \in Claims : claim'[e].ann # x
    BY <1>1, <1>5, <1>6, <1>8, <1>9
  <1>14. \A a, d \in Claims : a # d => Hand(a)' \cap Hand(d)' = {}
    BY <1>1, <1>10 DEF LagInv, Tokens
  <1> QED
    BY <1>11, <1>12, <1>13, <1>14 DEF Tokens

\* Only the Sandbox a claim refers to, or one it has, changes hands by its worker.
LEMMA WorkMoves ==
    ASSUME LagInv, NEW c \in Claims, Work(c)
    PROVE  \A s \in Warm : box'[s] = box[s] \/ box[s] \in {c, "none"} \/ claim[c].ann = s
  <1>0. box \in [Boxes -> Owners] /\ wk[c] \in WorkerRecords
    BY DEF LagInv, TypeInv, TypeOK
  <1>1. CASE Complete(c) \/ Resolve(c)
    <2>1. claim[c].ann = wk[c].cand
      BY <1>1 DEF Complete, Resolve, LagInv, LagOf
    <2> QED
      BY <1>0, <1>1, <2>1 DEF Complete, Resolve, Boxes
  <1>2. CASE Create(c)
    BY <1>0, <1>2, ClaimAdoptionAssumption DEF Create, Boxes
  <1>3. CASE ReconcileExpired(c)
    <2> DEFINE s == IF wk[c].view.status # "none" THEN wk[c].view.status ELSE c
    <2>1. ASSUME box' # box PROVE seenBox[s] = c /\ box' = [box EXCEPT ![s] = "none"]
      BY <1>3, <2>1 DEF ReconcileExpired
    <2>2. s \in Boxes
      BY <1>0 DEF WorkerRecords, ClaimRecords, Boxes
    <2>3. seenBox[s] = c => box[s] \in {c, "none"}
      BY <2>2 DEF LagInv, Behind
    <2> HIDE DEF s
    <2> QED
      BY <1>0, <2>1, <2>3 DEF Boxes
  <1> QED
    BY <1>1, <1>2, <1>3 DEF Work, Start, Lookup, Unref, ByName, PopKey, QueueEmpty, Assign,
       Reassign, Clear, Confirm, Publish, MarkExpired

\* The other claims stay as they are.
LEMMA OthersLag ==
    ASSUME LagInv, NEW c \in Claims, NEW d \in Claims \ {c}, Work(c)
    PROVE  LagOf(d)'
  <1>1. /\ UNCHANGED <<wk[d], claim[d], seenBox>>
        /\ \A s \in Boxes : box'[s] = d => box[s] = d
    BY WorkFrame, ClaimAdoptionAssumption DEF LagInv
  <1>2. UNCHANGED <<seenClaim, expired>>
    BY DEF Work, World, Start, Lookup, Unref, ByName, PopKey, QueueEmpty, Assign, Reassign,
           Complete, Resolve, Clear, Confirm, Create, Publish, MarkExpired, ReconcileExpired
  <1>3. LagOf(d)
    BY DEF LagInv
  <1>4. \A s \in Warm : claim[d].ann = s => claim[c].ann # s
    BY ClaimAdoptionAssumption DEF LagInv, Tokens
  <1>5. \A s \in Warm : claim[d].ann = s /\ box[s] \in {"pool", d} => box'[s] \in {"pool", d}
    BY <1>4, WorkMoves, ClaimAdoptionAssumption
  <1>6. seenClaim[d].ann \in {"none", claim[d].ann}
    BY <1>3 DEF LagOf
  <1> QED
    BY <1>1, <1>2, <1>3, <1>5, <1>6, LagFrame

\* A pass that ends with its keys back in the queue.
LEMMA EndsLag ==
    ASSUME LagInv, NEW c \in Claims, wk' = [wk EXCEPT ![c] = Idle],
           UNCHANGED <<seenBox, seenClaim, expired>>,
           claim'[c].ann = claim[c].ann, claim'[c].live = claim[c].live,
           UNCHANGED box \/ c \in expired,
           \A s \in Boxes : box'[s] = c => box[s] = c
    PROVE  LagOf(c)' /\ (queue' \subseteq queue \cup Hand(c) => Passes(c))
  <1>1. wk'[c].pc = "idle" /\ wk'[c].skip = {} /\ wk'[c].fall = "none"
    BY DEF LagInv, TypeInv, TypeOK, Idle
  <1>2. LagOf(c)
    BY DEF LagInv
  <1>3. LagOf(c)'
    BY <1>1, <1>2 DEF LagOf, Boxes
  <1>4. Hand(c)' = {}
    BY <1>1 DEF Hand, Kept
  <1> QED
    BY <1>3, <1>4 DEF Passes

\* At these points a worker has no keys in its hand.
LEMMA EmptyHand ==
    ASSUME NEW c \in Claims, LagOf(c), wk[c].pc \notin {"pick", "assign", "reassign"}
    PROVE  Hand(c) = {}
  BY DEF LagOf, Hand, Kept

\* A pass begins with the cached claim and the Sandboxes of now.
LEMMA StartLag ==
    ASSUME LagInv, Calm, NEW c \in Claims, Start(c)
    PROVE  LagOf(c)' /\ Passes(c)
  <1> DEFINE w == wk[c]
  <1>0. /\ w \in WorkerRecords /\ HandOf(w) /\ LagOf(c) /\ claim[c] \in ClaimRecords
        /\ wk \in [Claims -> WorkerRecords] /\ claim \in [Claims -> ClaimRecords]
        /\ box \in [Boxes -> Owners] /\ queue \subseteq Warm /\ "none" \notin Warm
        /\ claim'[c].live = claim[c].live /\ UNCHANGED <<seenBox, seenClaim, expired>>
    <2>1. Work(c)
      BY DEF Work
    <2>2. UNCHANGED <<seenBox, seenClaim, expired>>
      BY DEF World, Start
    <2> QED
      BY <2>1, <2>2, LiveStays, ClaimAdoptionAssumption DEF LagInv, TypeInv, TypeOK, Hands
  <1>1. /\ w.pc = "idle" /\ UNCHANGED <<claim, box, queue>> /\ w.skip = {} /\ w.fall = "none"
        /\ Hand(c) = {}
    BY <1>0, EmptyHand DEF Start, LagOf
  <1>2. seenBox = box
    BY DEF Start, Calm
  <1>3. CASE ~seenClaim[c].live
    <2>1. wk' = wk
      BY <1>3 DEF Start
    <2> QED
      BY <1>0, <1>1, <2>1 DEF LagOf, Passes, Hand
  <1>4. CASE seenClaim[c].live
    <2> DEFINE r == [Idle EXCEPT !.view = seenClaim[c],
                                !.pc = IF c \notin expired THEN "lookup"
                                       ELSE IF seenClaim[c].exp THEN "expire" ELSE "mark"]
    <2>1. /\ r.view = seenClaim[c] /\ r.skip = {} /\ r.fall = "none"
          /\ c \notin expired => r.pc = "lookup"
          /\ c \in expired => r.pc \in {"mark", "expire"}
      BY DEF Idle
    <2>2. wk'[c] = r
      BY <1>0, <1>4 DEF Start
    <2> HIDE DEF r
    <2>3. LagOf(c)'
      BY <1>0, <1>1, <1>2, <2>1, <2>2 DEF LagOf
    <2>4. Hand(c)' = {}
      BY <2>1, <2>2 DEF Hand, Kept
    <2> QED
      BY <1>1, <2>3, <2>4 DEF Passes
  <1> QED
    BY <1>3, <1>4

\* A live claim never finds its reference lost.
LEMMA LookupLag ==
    ASSUME LagInv, Calm, NEW c \in Claims, Lookup(c)
    PROVE  LagOf(c)' /\ Passes(c)
  <1> DEFINE w == wk[c]
  <1>0. /\ w \in WorkerRecords /\ HandOf(w) /\ LagOf(c) /\ claim[c] \in ClaimRecords
        /\ wk \in [Claims -> WorkerRecords] /\ claim \in [Claims -> ClaimRecords]
        /\ box \in [Boxes -> Owners] /\ queue \subseteq Warm /\ "none" \notin Warm
        /\ claim'[c].live = claim[c].live /\ UNCHANGED <<seenBox, seenClaim, expired>>
    <2>1. Work(c)
      BY DEF Work
    <2>2. UNCHANGED <<seenBox, seenClaim, expired>>
      BY DEF World, Lookup
    <2> QED
      BY <2>1, <2>2, LiveStays, ClaimAdoptionAssumption DEF LagInv, TypeInv, TypeOK, Hands
  <1>1. /\ w.pc = "lookup" /\ UNCHANGED <<claim, box, queue>> /\ w.skip = {} /\ w.fall = "none"
        /\ Hand(c) = {}
    BY <1>0, EmptyHand DEF Lookup, LagOf
  <1>2. ASSUME NEW s, wk'[c] = [w EXCEPT !.pc = "publish", !.cand = s] PROVE LagOf(c)' /\ Passes(c)
    <2>1. /\ wk'[c].pc = "publish" /\ wk'[c].skip = {} /\ wk'[c].fall = "none"
          /\ wk'[c].view = w.view
      BY <1>0, <1>1, <1>2 DEF WorkerRecords
    <2>2. LagOf(c)'
      BY <1>0, <1>1, <1>2, <2>1 DEF LagOf
    <2>3. Hand(c)' = {}
      BY <2>1 DEF Hand, Kept
    <2> QED
      BY <1>1, <2>2, <2>3 DEF Passes
  <1>3. CASE wk'[c] = [w EXCEPT !.pc = "byname"] /\ w.view.ann = "none"
    <2>1. /\ wk'[c].pc = "byname" /\ wk'[c].skip = {} /\ wk'[c].fall = "none"
          /\ wk'[c].view = w.view
      BY <1>0, <1>1, <1>3 DEF WorkerRecords
    <2>2. LagOf(c)'
      BY <1>0, <1>1, <1>3, <2>1 DEF LagOf
    <2>3. Hand(c)' = {}
      BY <2>1 DEF Hand, Kept
    <2> QED
      BY <1>1, <2>2, <2>3 DEF Passes
  <1>4. CASE wk'[c] = [w EXCEPT !.pc = "complete", !.cand = w.view.ann] /\ w.view.ann # "none"
    <2>1. /\ wk'[c].pc = "complete" /\ wk'[c].skip = {} /\ wk'[c].fall = "none"
          /\ wk'[c].view = w.view /\ wk'[c].cand = w.view.ann
      BY <1>0, <1>1, <1>4 DEF WorkerRecords
    <2>2. LagOf(c)'
      BY <1>0, <1>1, <1>4, <2>1 DEF LagOf
    <2>3. Hand(c)' = {}
      BY <2>1 DEF Hand, Kept
    <2> QED
      BY <1>1, <2>2, <2>3 DEF Passes
  <1>5. CASE /\ wk'[c] = [w EXCEPT !.pc = "unref"] /\ w.view.ann # "none"
             /\ seenBox[w.view.ann] \notin {"pool", c}
    <2>0. ~claim[c].live
      <3>1. w.view.ann \in Warm /\ claim[c].ann = w.view.ann
        BY <1>0, <1>1, <1>5 DEF WorkerRecords, ClaimRecords, LagOf
      <3>2. box[w.view.ann] \notin {"pool", c}
        BY <1>0, <1>1, <1>5, <3>1 DEF LagInv, Behind, LagOf, Boxes
      <3> QED
        BY <1>0, <1>1, <3>1, <3>2 DEF LagOf
    <2>1. /\ wk'[c].pc = "unref" /\ wk'[c].skip = {} /\ wk'[c].fall = "none"
          /\ wk'[c].view = w.view
      BY <1>0, <1>1, <1>5 DEF WorkerRecords
    <2>2. LagOf(c)'
      BY <1>0, <1>1, <1>5, <2>1, <2>0 DEF LagOf
    <2>3. Hand(c)' = {}
      BY <2>1 DEF Hand, Kept
    <2> QED
      BY <1>1, <2>2, <2>3 DEF Passes
  <1> QED
    BY <1>0, <1>2, <1>3, <1>4, <1>5 DEF Lookup, Goto, Refers

\* Only a deleted claim gets here, and its pass ends.
LEMMA UnrefLag ==
    ASSUME LagInv, Calm, NEW c \in Claims, Unref(c)
    PROVE  LagOf(c)' /\ Passes(c)
  <1> DEFINE w == wk[c]
  <1>0. /\ w \in WorkerRecords /\ HandOf(w) /\ LagOf(c) /\ claim[c] \in ClaimRecords
        /\ wk \in [Claims -> WorkerRecords] /\ claim \in [Claims -> ClaimRecords]
        /\ box \in [Boxes -> Owners] /\ queue \subseteq Warm /\ "none" \notin Warm
        /\ claim'[c].live = claim[c].live /\ UNCHANGED <<seenBox, seenClaim, expired>>
    <2>1. Work(c)
      BY DEF Work
    <2>2. UNCHANGED <<seenBox, seenClaim, expired>>
      BY DEF World, Unref
    <2> QED
      BY <2>1, <2>2, LiveStays, ClaimAdoptionAssumption DEF LagInv, TypeInv, TypeOK, Hands
  <1>1. ~claim[c].live /\ Hand(c) = {}
    BY <1>0, EmptyHand DEF Unref, LagOf
  <1>2. Retry(c) /\ UNCHANGED <<claim, box, queue>>
    BY <1>1 DEF Unref
  <1> QED
    BY <1>0, <1>2, EndsLag DEF Retry

\* The cold Sandbox is seen if it is there.
LEMMA ByNameLag ==
    ASSUME LagInv, Calm, NEW c \in Claims, ByName(c)
    PROVE  LagOf(c)' /\ Passes(c)
  <1> DEFINE w == wk[c]
  <1>0. /\ w \in WorkerRecords /\ HandOf(w) /\ LagOf(c) /\ claim[c] \in ClaimRecords
        /\ wk \in [Claims -> WorkerRecords] /\ claim \in [Claims -> ClaimRecords]
        /\ box \in [Boxes -> Owners] /\ queue \subseteq Warm /\ "none" \notin Warm
        /\ claim'[c].live = claim[c].live /\ UNCHANGED <<seenBox, seenClaim, expired>>
    <2>1. Work(c)
      BY DEF Work
    <2>2. UNCHANGED <<seenBox, seenClaim, expired>>
      BY DEF World, ByName
    <2> QED
      BY <2>1, <2>2, LiveStays, ClaimAdoptionAssumption DEF LagInv, TypeInv, TypeOK, Hands
  <1>1. /\ w.pc = "byname" /\ UNCHANGED <<claim, box, queue>> /\ w.skip = {} /\ w.fall = "none"
        /\ Hand(c) = {}
    BY <1>0, EmptyHand DEF ByName, LagOf
  <1>2. CASE Retry(c)
    BY <1>0, <1>1, <1>2, EndsLag DEF Retry
  <1>3. CASE wk'[c] = [w EXCEPT !.pc = "publish", !.cand = c]
    <2>1. /\ wk'[c].pc = "publish" /\ wk'[c].skip = {} /\ wk'[c].fall = "none"
          /\ wk'[c].view = w.view
      BY <1>0, <1>1, <1>3 DEF WorkerRecords
    <2>2. LagOf(c)'
      BY <1>0, <1>1, <1>3, <2>1 DEF LagOf
    <2>3. Hand(c)' = {}
      BY <2>1 DEF Hand, Kept
    <2> QED
      BY <1>1, <2>2, <2>3 DEF Passes
  <1>4. CASE wk'[c] = [w EXCEPT !.pc = "create"] /\ c \in ForceCold
    <2>1. /\ wk'[c].pc = "create" /\ wk'[c].skip = {} /\ wk'[c].fall = "none"
          /\ wk'[c].view = w.view
      BY <1>0, <1>1, <1>4 DEF WorkerRecords
    <2>2. LagOf(c)'
      BY <1>0, <1>1, <1>4, <2>1 DEF LagOf
    <2>3. Hand(c)' = {}
      BY <2>1 DEF Hand, Kept
    <2> QED
      BY <1>1, <2>2, <2>3 DEF Passes
  <1>5. CASE wk'[c] = [w EXCEPT !.pc = "pick"] /\ c \notin ForceCold /\ seenBox[c] # c
    <2>0. box[c] # c
      BY <1>0, <1>1, <1>5 DEF LagOf, Boxes
    <2>1. /\ wk'[c].pc = "pick" /\ wk'[c].skip = {} /\ wk'[c].fall = "none"
          /\ wk'[c].view = w.view
      BY <1>0, <1>1, <1>5 DEF WorkerRecords
    <2>2. LagOf(c)'
      BY <1>0, <1>1, <1>5, <2>1, <2>0 DEF LagOf
    <2>3. Hand(c)' = {}
      BY <2>1 DEF Hand, Kept
    <2> QED
      BY <1>1, <2>2, <2>3 DEF Passes
  <1> QED
    BY <1>0, <1>2, <1>3, <1>4, <1>5 DEF ByName, Goto

\* A key popped is in no other hand.
LEMMA PopKeyLag ==
    ASSUME LagInv, Calm, NEW c \in Claims, PopKey(c)
    PROVE  LagOf(c)' /\ Passes(c)
  <1> DEFINE w == wk[c]
  <1>0. /\ w \in WorkerRecords /\ HandOf(w) /\ LagOf(c) /\ claim[c] \in ClaimRecords
        /\ wk \in [Claims -> WorkerRecords] /\ claim \in [Claims -> ClaimRecords]
        /\ box \in [Boxes -> Owners] /\ queue \subseteq Warm /\ "none" \notin Warm
        /\ claim'[c].live = claim[c].live /\ UNCHANGED <<seenBox, seenClaim, expired>>
    <2>1. Work(c)
      BY DEF Work
    <2>2. UNCHANGED <<seenBox, seenClaim, expired>>
      BY DEF World, PopKey
    <2> QED
      BY <2>1, <2>2, LiveStays, ClaimAdoptionAssumption DEF LagInv, TypeInv, TypeOK, Hands
  <1>1. /\ w.pc = "pick" /\ UNCHANGED <<claim, box>>
        /\ Hand(c) = Kept(w)
    BY <1>0 DEF PopKey, Hand
  <1>2. PICK s \in queue :
           \/ queue' = queue \ {s} /\ UNCHANGED wk
           \/ /\ queue' = (queue \ {s}) \cup Kept(w)
              /\ wk'[c] = [w EXCEPT !.pc = "assign", !.cand = s, !.popped = TRUE,
                                    !.skip = {}, !.fall = "none"]
           \/ queue' = queue \ {s} /\ wk'[c] = [w EXCEPT !.fall = s] /\ w.fall = "none"
           \/ queue' = queue \ {s} /\ wk'[c] = [w EXCEPT !.skip = @ \cup {s}]
    BY <1>0 DEF PopKey, Goto
  <1>3. s \in Warm /\ s # "none" /\ s \notin Kept(w)
    BY <1>0, <1>1 DEF LagInv, Tokens
  <1>4. Kept(w) \cap queue = {}
    BY <1>1 DEF LagInv, Tokens
  <1>5. CASE queue' = queue \ {s} /\ UNCHANGED wk
    <2>1. LagOf(c)'
      BY <1>0, <1>1, <1>5 DEF LagOf
    <2>2. Hand(c)' = Hand(c)
      BY <1>5 DEF Hand
    <2> QED
      BY <1>1, <1>4, <1>5, <2>1, <2>2 DEF Passes
  <1>6. CASE /\ queue' = (queue \ {s}) \cup Kept(w)
             /\ wk'[c] = [w EXCEPT !.pc = "assign", !.cand = s, !.popped = TRUE,
                                   !.skip = {}, !.fall = "none"]
    <2>1. /\ wk'[c].pc = "assign" /\ wk'[c].cand = s /\ wk'[c].skip = {} /\ wk'[c].fall = "none"
          /\ wk'[c].view = w.view
      BY <1>0, <1>6 DEF WorkerRecords
    <2>2. LagOf(c)'
      BY <1>0, <1>1, <2>1 DEF LagOf
    <2>3. Hand(c)' = {s}
      BY <2>1 DEF Hand, Kept
    <2> QED
      BY <1>1, <1>3, <1>4, <1>6, <2>2, <2>3 DEF Passes
  <1>7. CASE queue' = queue \ {s} /\ wk'[c] = [w EXCEPT !.fall = s] /\ w.fall = "none"
    <2>1. /\ wk'[c].pc = "pick" /\ wk'[c].skip = w.skip /\ wk'[c].fall = s
          /\ wk'[c].view = w.view
      BY <1>0, <1>1, <1>7 DEF WorkerRecords
    <2>2. LagOf(c)'
      BY <1>0, <1>1, <1>3, <2>1 DEF LagOf, Kept
    <2>3. Hand(c)' = Kept(w) \cup {s}
      BY <1>3, <1>7, <2>1 DEF Hand, Kept
    <2> QED
      BY <1>1, <1>3, <1>4, <1>7, <2>2, <2>3 DEF Passes
  <1>8. CASE queue' = queue \ {s} /\ wk'[c] = [w EXCEPT !.skip = @ \cup {s}]
    <2>1. /\ wk'[c].pc = "pick" /\ wk'[c].skip = w.skip \cup {s} /\ wk'[c].fall = w.fall
          /\ wk'[c].view = w.view
      BY <1>0, <1>1, <1>8 DEF WorkerRecords
    <2>2. w.fall # s
      BY <1>3 DEF Kept
    <2>3. LagOf(c)'
      BY <1>0, <1>1, <2>1, <2>2 DEF LagOf
    <2>4. Hand(c)' = Kept(w) \cup {s}
      BY <2>1 DEF Hand, Kept
    <2> QED
      BY <1>1, <1>3, <1>4, <1>8, <2>3, <2>4 DEF Passes
  <1> QED
    BY <1>2, <1>5, <1>6, <1>7, <1>8

\* At the end of the queue the fallback is the candidate, and the rest goes back.
LEMMA QueueEmptyLag ==
    ASSUME LagInv, Calm, NEW c \in Claims, QueueEmpty(c)
    PROVE  LagOf(c)' /\ Passes(c)
  <1> DEFINE w == wk[c]
  <1>0. /\ w \in WorkerRecords /\ HandOf(w) /\ LagOf(c) /\ claim[c] \in ClaimRecords
        /\ wk \in [Claims -> WorkerRecords] /\ claim \in [Claims -> ClaimRecords]
        /\ box \in [Boxes -> Owners] /\ queue \subseteq Warm /\ "none" \notin Warm
        /\ claim'[c].live = claim[c].live /\ UNCHANGED <<seenBox, seenClaim, expired>>
    <2>1. Work(c)
      BY DEF Work
    <2>2. UNCHANGED <<seenBox, seenClaim, expired>>
      BY DEF World, QueueEmpty
    <2> QED
      BY <2>1, <2>2, LiveStays, ClaimAdoptionAssumption DEF LagInv, TypeInv, TypeOK, Hands
  <1>1. /\ w.pc = "pick" /\ UNCHANGED <<claim, box>> /\ queue' = w.skip
        /\ Hand(c) = Kept(w) /\ w.fall \notin w.skip
    BY <1>0 DEF QueueEmpty, Hand, LagOf
  <1>2. CASE /\ wk'[c] = [w EXCEPT !.pc = "assign", !.cand = w.fall, !.popped = TRUE,
                                   !.skip = {}, !.fall = "none"]
             /\ w.fall # "none"
    <2>1. /\ wk'[c].pc = "assign" /\ wk'[c].cand = w.fall /\ wk'[c].skip = {} /\ wk'[c].fall = "none"
          /\ wk'[c].view = w.view
      BY <1>0, <1>2 DEF WorkerRecords
    <2>2. LagOf(c)'
      BY <1>0, <1>1, <2>1 DEF LagOf
    <2>3. Hand(c)' = {w.fall}
      BY <2>1 DEF Hand, Kept
    <2> QED
      BY <1>1, <1>2, <2>2, <2>3 DEF Passes, Kept
  <1>3. CASE Retry(c)
    BY <1>0, <1>1, <1>3, EndsLag DEF Retry, Kept
  <1>4. CASE wk'[c] = [w EXCEPT !.pc = "confirm", !.skip = {}] /\ w.fall = "none"
    <2>1. /\ wk'[c].pc = "confirm" /\ wk'[c].skip = {} /\ wk'[c].fall = "none"
          /\ wk'[c].view = w.view
      BY <1>0, <1>4 DEF WorkerRecords
    <2>2. LagOf(c)'
      BY <1>0, <1>1, <2>1 DEF LagOf
    <2>3. Hand(c)' = {}
      BY <2>1 DEF Hand, Kept
    <2> QED
      BY <1>1, <2>2, <2>3 DEF Passes, Kept
  <1> QED
    BY <1>0, <1>2, <1>3, <1>4 DEF QueueEmpty, Goto

\* A claim that is as it was read has no reference yet, and the candidate is its alone.
LEMMA AssignLag ==
    ASSUME LagInv, Calm, NEW c \in Claims, Assign(c)
    PROVE  LagOf(c)' /\ Passes(c)
  <1> DEFINE w == wk[c]
  <1>0. /\ w \in WorkerRecords /\ HandOf(w) /\ LagOf(c) /\ claim[c] \in ClaimRecords
        /\ wk \in [Claims -> WorkerRecords] /\ claim \in [Claims -> ClaimRecords]
        /\ box \in [Boxes -> Owners] /\ queue \subseteq Warm /\ "none" \notin Warm
        /\ claim'[c].live = claim[c].live /\ UNCHANGED <<seenBox, seenClaim, expired>>
    <2>1. Work(c)
      BY DEF Work
    <2>2. UNCHANGED <<seenBox, seenClaim, expired>>
      BY DEF World, Assign
    <2> QED
      BY <2>1, <2>2, LiveStays, ClaimAdoptionAssumption DEF LagInv, TypeInv, TypeOK, Hands
  <1>1. /\ w.pc = "assign" /\ UNCHANGED box /\ w.skip = {} /\ w.fall = "none" /\ w.cand \in Warm
        /\ Hand(c) = {w.cand} /\ c \notin ForceCold /\ box[c] # c
    BY <1>0 DEF Assign, LagOf, Hand, Kept, HandOf
  <1>2. box[w.cand] = "pool" /\ w.cand \notin queue /\ claim[c].ann # w.cand
    BY <1>1 DEF LagInv, Tokens
  <1>3. ASSUME claim[c].ann = "none", claim' = [claim EXCEPT ![c].ann = w.cand], UNCHANGED queue,
               wk'[c] = [w EXCEPT !.pc = "complete", !.view = claim'[c]]
        PROVE  LagOf(c)' /\ Passes(c)
    <2>1. claim'[c].ann = w.cand
      BY <1>0, <1>3
    <2>2. /\ wk'[c].pc = "complete" /\ wk'[c].cand = w.cand /\ wk'[c].skip = {}
          /\ wk'[c].fall = "none" /\ wk'[c].view.ann = w.cand
      BY <1>0, <1>1, <1>3, <2>1 DEF WorkerRecords
    <2>3. \A s \in Boxes : box[s] # c
      BY <1>0, <1>1, <1>3 DEF LagOf, Boxes
    <2>4. LagOf(c)'
      BY <1>0, <1>1, <1>2, <1>3, <2>1, <2>2, <2>3 DEF LagOf, Boxes
    <2>5. Hand(c)' = {}
      BY <2>2 DEF Hand, Kept
    <2> QED
      BY <1>1, <1>2, <1>3, <2>1, <2>4, <2>5 DEF Passes
  <1>4. CASE PutBack(c) /\ Retry(c) /\ UNCHANGED claim
    <2>1. queue' \subseteq queue \cup Hand(c)
      BY <1>1, <1>4 DEF PutBack
    <2> QED
      BY <1>0, <1>1, <1>4, <2>1, EndsLag DEF Retry
  <1>5. CASE wk'[c] = [w EXCEPT !.pc = "reassign"] /\ UNCHANGED <<claim, queue>>
    <2>1. /\ wk'[c].pc = "reassign" /\ wk'[c].cand = w.cand /\ wk'[c].skip = {}
          /\ wk'[c].fall = "none" /\ wk'[c].view = w.view
      BY <1>0, <1>1, <1>5 DEF WorkerRecords
    <2>2. LagOf(c)'
      BY <1>0, <1>1, <1>5, <2>1 DEF LagOf
    <2>3. Hand(c)' = {w.cand}
      BY <2>1 DEF Hand, Kept
    <2> QED
      BY <1>1, <1>2, <1>5, <2>2, <2>3 DEF Passes
  <1>6. claim[c] = w.view => claim[c].ann = "none"
    BY <1>0, <1>1 DEF LagOf
  <1> QED
    BY <1>0, <1>3, <1>4, <1>5, <1>6 DEF Assign, Goto

\* On a fresh base the same, and no other worker gave the claim this candidate.
LEMMA ReassignLag ==
    ASSUME LagInv, Calm, NEW c \in Claims, Reassign(c)
    PROVE  LagOf(c)' /\ Passes(c)
  <1> DEFINE w == wk[c]
  <1>0. /\ w \in WorkerRecords /\ HandOf(w) /\ LagOf(c) /\ claim[c] \in ClaimRecords
        /\ wk \in [Claims -> WorkerRecords] /\ claim \in [Claims -> ClaimRecords]
        /\ box \in [Boxes -> Owners] /\ queue \subseteq Warm /\ "none" \notin Warm
        /\ claim'[c].live = claim[c].live /\ UNCHANGED <<seenBox, seenClaim, expired>>
    <2>1. Work(c)
      BY DEF Work
    <2>2. UNCHANGED <<seenBox, seenClaim, expired>>
      BY DEF World, Reassign
    <2> QED
      BY <2>1, <2>2, LiveStays, ClaimAdoptionAssumption DEF LagInv, TypeInv, TypeOK, Hands
  <1>1. /\ w.pc = "reassign" /\ UNCHANGED box /\ w.skip = {} /\ w.fall = "none" /\ w.cand \in Warm
        /\ Hand(c) = {w.cand} /\ c \notin ForceCold /\ box[c] # c
    BY <1>0 DEF Reassign, LagOf, Hand, Kept, HandOf
  <1>2. box[w.cand] = "pool" /\ w.cand \notin queue /\ claim[c].ann # w.cand
    BY <1>1 DEF LagInv, Tokens
  <1>3. ASSUME claim[c].ann = "none", claim' = [claim EXCEPT ![c].ann = w.cand], UNCHANGED queue,
               wk'[c] = [w EXCEPT !.pc = "complete", !.view = claim'[c]]
        PROVE  LagOf(c)' /\ Passes(c)
    <2>1. claim'[c].ann = w.cand
      BY <1>0, <1>3
    <2>2. /\ wk'[c].pc = "complete" /\ wk'[c].cand = w.cand /\ wk'[c].skip = {}
          /\ wk'[c].fall = "none" /\ wk'[c].view.ann = w.cand
      BY <1>0, <1>1, <1>3, <2>1 DEF WorkerRecords
    <2>3. \A s \in Boxes : box[s] # c
      BY <1>0, <1>1, <1>3 DEF LagOf, Boxes
    <2>4. LagOf(c)'
      BY <1>0, <1>1, <1>2, <1>3, <2>1, <2>2, <2>3 DEF LagOf, Boxes
    <2>5. Hand(c)' = {}
      BY <2>2 DEF Hand, Kept
    <2> QED
      BY <1>1, <1>2, <1>3, <2>1, <2>4, <2>5 DEF Passes
  <1>4. CASE PutBack(c) /\ Retry(c) /\ UNCHANGED claim
    <2>1. queue' \subseteq queue \cup Hand(c)
      BY <1>1, <1>4 DEF PutBack
    <2> QED
      BY <1>0, <1>1, <1>4, <2>1, EndsLag DEF Retry
  <1> QED
    BY <1>0, <1>2, <1>3, <1>4 DEF Reassign, Goto

\* The Sandbox referred to is taken over.
LEMMA CompleteLag ==
    ASSUME LagInv, Calm, NEW c \in Claims, Complete(c)
    PROVE  LagOf(c)' /\ Passes(c)
  <1> DEFINE w == wk[c]
  <1>0. /\ w \in WorkerRecords /\ HandOf(w) /\ LagOf(c) /\ claim[c] \in ClaimRecords
        /\ wk \in [Claims -> WorkerRecords] /\ claim \in [Claims -> ClaimRecords]
        /\ box \in [Boxes -> Owners] /\ queue \subseteq Warm /\ "none" \notin Warm
        /\ claim'[c].live = claim[c].live /\ UNCHANGED <<seenBox, seenClaim, expired>>
    <2>1. Work(c)
      BY DEF Work
    <2>2. UNCHANGED <<seenBox, seenClaim, expired>>
      BY DEF World, Complete
    <2> QED
      BY <2>1, <2>2, LiveStays, ClaimAdoptionAssumption DEF LagInv, TypeInv, TypeOK, Hands
  <1>1. /\ w.pc = "complete" /\ w.skip = {} /\ w.fall = "none" /\ UNCHANGED <<claim, queue>>
        /\ w.cand \in Warm /\ claim[c].ann = w.cand /\ Hand(c) = {}
    BY <1>0, EmptyHand DEF Complete, LagOf, HandOf, Calm, Fault
  <1>2. CASE box' = [box EXCEPT ![w.cand] = c] /\ wk'[c] = [w EXCEPT !.pc = "publish"]
    <2>0. /\ box'[w.cand] = c /\ w.cand \notin Claims
          /\ \A s \in Boxes \ {w.cand} : box'[s] = box[s]
      BY <1>0, <1>1, <1>2, ClaimAdoptionAssumption DEF Boxes
    <2>1. /\ wk'[c].pc = "publish" /\ wk'[c].skip = {} /\ wk'[c].fall = "none"
          /\ wk'[c].view = w.view
      BY <1>0, <1>1, <1>2 DEF WorkerRecords
    <2>2. LagOf(c)'
      BY <1>0, <1>1, <1>2, <2>1, <2>0 DEF LagOf, Boxes
    <2>3. Hand(c)' = {}
      BY <2>1 DEF Hand, Kept
    <2> QED
      BY <1>1, <2>2, <2>3 DEF Passes
  <1>3. CASE UNCHANGED box /\ wk'[c] = [w EXCEPT !.pc = "resolve"]
    <2>1. /\ wk'[c].pc = "resolve" /\ wk'[c].skip = {} /\ wk'[c].fall = "none"
          /\ wk'[c].view = w.view /\ wk'[c].cand = w.cand
      BY <1>0, <1>1, <1>3 DEF WorkerRecords
    <2>2. LagOf(c)'
      BY <1>0, <1>1, <1>3, <2>1 DEF LagOf
    <2>3. Hand(c)' = {}
      BY <2>1 DEF Hand, Kept
    <2> QED
      BY <1>1, <2>2, <2>3 DEF Passes
  <1> QED
    BY <1>0, <1>2, <1>3 DEF Complete, Goto, Calm, Fault

\* A Sandbox of somebody else is the reference of a deleted claim only.
LEMMA ResolveLag ==
    ASSUME LagInv, Calm, NEW c \in Claims, Resolve(c)
    PROVE  LagOf(c)' /\ Passes(c)
  <1> DEFINE w == wk[c]
  <1>0. /\ w \in WorkerRecords /\ HandOf(w) /\ LagOf(c) /\ claim[c] \in ClaimRecords
        /\ wk \in [Claims -> WorkerRecords] /\ claim \in [Claims -> ClaimRecords]
        /\ box \in [Boxes -> Owners] /\ queue \subseteq Warm /\ "none" \notin Warm
        /\ claim'[c].live = claim[c].live /\ UNCHANGED <<seenBox, seenClaim, expired>>
    <2>1. Work(c)
      BY DEF Work
    <2>2. UNCHANGED <<seenBox, seenClaim, expired>>
      BY DEF World, Resolve
    <2> QED
      BY <2>1, <2>2, LiveStays, ClaimAdoptionAssumption DEF LagInv, TypeInv, TypeOK, Hands
  <1>1. /\ w.pc = "resolve" /\ w.skip = {} /\ w.fall = "none" /\ UNCHANGED <<claim, queue>>
        /\ w.cand \in Warm /\ claim[c].ann = w.cand /\ Hand(c) = {}
    BY <1>0, EmptyHand DEF Resolve, LagOf, HandOf, Calm, Fault
  <1>2. CASE box' = [box EXCEPT ![w.cand] = c] /\ wk'[c] = [w EXCEPT !.pc = "publish"]
    <2>0. /\ box'[w.cand] = c /\ w.cand \notin Claims
          /\ \A s \in Boxes \ {w.cand} : box'[s] = box[s]
      BY <1>0, <1>1, <1>2, ClaimAdoptionAssumption DEF Boxes
    <2>1. /\ wk'[c].pc = "publish" /\ wk'[c].skip = {} /\ wk'[c].fall = "none"
          /\ wk'[c].view = w.view
      BY <1>0, <1>1, <1>2 DEF WorkerRecords
    <2>2. LagOf(c)'
      BY <1>0, <1>1, <1>2, <2>1, <2>0 DEF LagOf, Boxes
    <2>3. Hand(c)' = {}
      BY <2>1 DEF Hand, Kept
    <2> QED
      BY <1>1, <2>2, <2>3 DEF Passes
  <1>3. CASE UNCHANGED box /\ wk'[c] = [w EXCEPT !.pc = "clear"] /\ box[w.cand] \notin {"pool", c}
    <2>0. ~claim[c].live
      BY <1>0, <1>1, <1>3 DEF LagOf
    <2>1. /\ wk'[c].pc = "clear" /\ wk'[c].skip = {} /\ wk'[c].fall = "none"
          /\ wk'[c].view = w.view
      BY <1>0, <1>1, <1>3 DEF WorkerRecords
    <2>2. LagOf(c)'
      BY <1>0, <1>1, <1>3, <2>1, <2>0 DEF LagOf
    <2>3. Hand(c)' = {}
      BY <2>1 DEF Hand, Kept
    <2> QED
      BY <1>1, <2>2, <2>3 DEF Passes
  <1>4. CASE Retry(c) /\ UNCHANGED box
    BY <1>0, <1>1, <1>4, EndsLag DEF Retry
  <1> QED
    BY <1>0, <1>2, <1>3, <1>4 DEF Resolve, Goto

\* Only a deleted claim gets here, and nothing is removed.
LEMMA ClearLag ==
    ASSUME LagInv, Calm, NEW c \in Claims, Clear(c)
    PROVE  LagOf(c)' /\ Passes(c)
  <1> DEFINE w == wk[c]
  <1>0. /\ w \in WorkerRecords /\ HandOf(w) /\ LagOf(c) /\ claim[c] \in ClaimRecords
        /\ wk \in [Claims -> WorkerRecords] /\ claim \in [Claims -> ClaimRecords]
        /\ box \in [Boxes -> Owners] /\ queue \subseteq Warm /\ "none" \notin Warm
        /\ claim'[c].live = claim[c].live /\ UNCHANGED <<seenBox, seenClaim, expired>>
    <2>1. Work(c)
      BY DEF Work
    <2>2. UNCHANGED <<seenBox, seenClaim, expired>>
      BY DEF World, Clear
    <2> QED
      BY <2>1, <2>2, LiveStays, ClaimAdoptionAssumption DEF LagInv, TypeInv, TypeOK, Hands
  <1>1. ~claim[c].live /\ Hand(c) = {}
    BY <1>0, EmptyHand DEF Clear, LagOf
  <1>2. Retry(c) /\ UNCHANGED <<claim, box, queue>>
    BY <1>1 DEF Clear
  <1> QED
    BY <1>0, <1>2, EndsLag DEF Retry

\* A cold start is for a claim without a reference.
LEMMA ConfirmLag ==
    ASSUME LagInv, Calm, NEW c \in Claims, Confirm(c)
    PROVE  LagOf(c)' /\ Passes(c)
  <1> DEFINE w == wk[c]
  <1>0. /\ w \in WorkerRecords /\ HandOf(w) /\ LagOf(c) /\ claim[c] \in ClaimRecords
        /\ wk \in [Claims -> WorkerRecords] /\ claim \in [Claims -> ClaimRecords]
        /\ box \in [Boxes -> Owners] /\ queue \subseteq Warm /\ "none" \notin Warm
        /\ claim'[c].live = claim[c].live /\ UNCHANGED <<seenBox, seenClaim, expired>>
    <2>1. Work(c)
      BY DEF Work
    <2>2. UNCHANGED <<seenBox, seenClaim, expired>>
      BY DEF World, Confirm
    <2> QED
      BY <2>1, <2>2, LiveStays, ClaimAdoptionAssumption DEF LagInv, TypeInv, TypeOK, Hands
  <1>1. /\ w.pc = "confirm" /\ UNCHANGED <<claim, box, queue>> /\ w.skip = {} /\ w.fall = "none"
        /\ Hand(c) = {}
    BY <1>0, EmptyHand DEF Confirm, LagOf
  <1>2. CASE Retry(c) \/ Finish(c)
    BY <1>0, <1>1, <1>2, EndsLag DEF Retry, Finish
  <1>3. CASE wk'[c] = [w EXCEPT !.pc = "create"] /\ claim[c].ann = "none"
    <2>1. /\ wk'[c].pc = "create" /\ wk'[c].skip = {} /\ wk'[c].fall = "none"
          /\ wk'[c].view = w.view
      BY <1>0, <1>1, <1>3 DEF WorkerRecords
    <2>2. LagOf(c)'
      BY <1>0, <1>1, <1>3, <2>1 DEF LagOf
    <2>3. Hand(c)' = {}
      BY <2>1 DEF Hand, Kept
    <2> QED
      BY <1>1, <2>2, <2>3 DEF Passes
  <1> QED
    BY <1>0, <1>2, <1>3 DEF Confirm, Goto, Calm, Fault

\* The cold Sandbox is the only one.
LEMMA CreateLag ==
    ASSUME LagInv, Calm, NEW c \in Claims, Create(c)
    PROVE  LagOf(c)' /\ Passes(c)
  <1> DEFINE w == wk[c]
  <1>0. /\ w \in WorkerRecords /\ HandOf(w) /\ LagOf(c) /\ claim[c] \in ClaimRecords
        /\ wk \in [Claims -> WorkerRecords] /\ claim \in [Claims -> ClaimRecords]
        /\ box \in [Boxes -> Owners] /\ queue \subseteq Warm /\ "none" \notin Warm
        /\ claim'[c].live = claim[c].live /\ UNCHANGED <<seenBox, seenClaim, expired>>
    <2>1. Work(c)
      BY DEF Work
    <2>2. UNCHANGED <<seenBox, seenClaim, expired>>
      BY DEF World, Create
    <2> QED
      BY <2>1, <2>2, LiveStays, ClaimAdoptionAssumption DEF LagInv, TypeInv, TypeOK, Hands
  <1>1. /\ w.pc = "create" /\ w.skip = {} /\ w.fall = "none" /\ UNCHANGED <<claim, queue>>
        /\ claim[c].ann = "none" /\ Hand(c) = {}
    BY <1>0, EmptyHand DEF Create, LagOf
  <1>2. CASE box' = [box EXCEPT ![c] = c] /\ wk'[c] = [w EXCEPT !.pc = "publish", !.cand = c]
    <2>0. \A s \in Boxes : box'[s] = IF s = c THEN c ELSE box[s]
      BY <1>0, <1>2 DEF Boxes
    <2>4. c \notin Warm
      BY ClaimAdoptionAssumption
    <2>1. /\ wk'[c].pc = "publish" /\ wk'[c].skip = {} /\ wk'[c].fall = "none"
          /\ wk'[c].view = w.view
      BY <1>0, <1>1, <1>2 DEF WorkerRecords
    <2>2. LagOf(c)'
      BY <1>0, <1>1, <1>2, <2>1, <2>0, <2>4 DEF LagOf, Boxes
    <2>3. Hand(c)' = {}
      BY <2>1 DEF Hand, Kept
    <2> QED
      BY <1>1, <2>2, <2>3 DEF Passes
  <1> QED
    BY <1>0, <1>2 DEF Create, Goto, Calm, Fault

\* The end of a pass leaves the reference; an expired claim gives up what is its own.
LEMMA StatusLag ==
    ASSUME LagInv, Calm, NEW c \in Claims, Publish(c) \/ MarkExpired(c) \/ ReconcileExpired(c)
    PROVE  LagOf(c)' /\ Passes(c)
  <1>1. /\ LagOf(c) /\ TypeInv /\ UNCHANGED <<queue, seenBox, seenClaim, expired>> /\ Work(c)
        /\ box \in [Boxes -> Owners]
    BY DEF LagInv, Publish, MarkExpired, ReconcileExpired, World, Work, TypeInv, TypeOK
  <1>2. claim'[c].ann = claim[c].ann /\ claim'[c].live = claim[c].live
    BY <1>1, StatusAnn, LiveStays DEF Publish, MarkExpired, ReconcileExpired
  <1>3. wk' = [wk EXCEPT ![c] = Idle]
    BY DEF Publish, MarkExpired, ReconcileExpired, Retry, Finish
  <1>4. UNCHANGED box \/ c \in expired
    BY <1>1 DEF Publish, MarkExpired, ReconcileExpired, LagOf
  <1>5. \A s \in Boxes : box'[s] = c => box[s] = c
    BY <1>1, ClaimAdoptionAssumption DEF Publish, MarkExpired, ReconcileExpired
  <1> QED
    BY <1>1, <1>2, <1>3, <1>4, <1>5, EndsLag

\* The cache is behind, never wrong, whatever happens.
LEMMA BehindNext ==
    ASSUME TypeInv, Behind, [Next]_vars
    PROVE  Behind'
  <1>0. box \in [Boxes -> Owners] /\ seenBox \in [Boxes -> Owners]
    BY DEF TypeInv, TypeOK
  <1>1. ASSUME NEW s \in Boxes
        PROVE  /\ box'[s] = "pool" => box[s] = "pool"
               /\ box[s] \in Claims => box'[s] \in {box[s], "none"}
               /\ s \notin Claims /\ box[s] = "none" => box'[s] = "none"
               /\ s \in Claims => box'[s] \in {"none", s}
    <2> USE ClaimAdoptionAssumption DEF Boxes, Behind
    <2>1. ASSUME NEW c \in Claims, Complete(c) \/ Resolve(c)
          PROVE  \/ UNCHANGED box
                 \/ wk[c].cand \in Warm /\ box[wk[c].cand] \in {"pool", c} /\ box' = [box EXCEPT ![wk[c].cand] = c]
      BY <2>1 DEF Complete, Resolve, TypeInv, Hands, HandOf
    <2>2. ASSUME NEW c \in Claims, Create(c)
          PROVE  UNCHANGED box \/ box' = [box EXCEPT ![c] = c]
      BY <2>2 DEF Create
    <2>3. ASSUME NEW c \in Claims, ReconcileExpired(c)
          PROVE  UNCHANGED box \/ \E t : box' = [box EXCEPT ![t] = "none"]
      BY <2>3 DEF ReconcileExpired
    <2>4. ASSUME NEW c \in Claims, Collect(c)
          PROVE  box' = [t \in Boxes |-> IF box[t] = c THEN "none" ELSE box[t]]
      BY <2>4 DEF Collect
    <2>5. ASSUME NEW t \in Boxes, DeleteBox(t) PROVE box' = [box EXCEPT ![t] = "none"]
      BY <2>5 DEF DeleteBox
    <2>6. \/ UNCHANGED box
          \/ \E c \in Claims : Complete(c) \/ Resolve(c) \/ Create(c) \/ ReconcileExpired(c) \/ Collect(c)
          \/ \E t \in Boxes : DeleteBox(t)
      BY DEF Next, vars, Deliver, Others, DeliverClaim, DeliverBox, Crash, DeleteClaim, GrowOld,
         Expire, Network, Work, Start, Lookup, Unref, ByName, PopKey, QueueEmpty, Assign,
         Reassign, Clear, Confirm, Publish, MarkExpired
    <2> QED
      BY <1>0, <1>1, <2>1, <2>2, <2>3, <2>4, <2>5, <2>6
  <1>2. ASSUME NEW s \in Boxes
        PROVE  \/ seenBox'[s] = seenBox[s]
               \/ seenBox'[s] = box[s] /\ box'[s] = box[s]
    <2>1. ASSUME NEW c \in Claims, Work(c) PROVE UNCHANGED seenBox
      BY <2>1, WorkFrame
    <2> QED
      BY <1>0, <2>1 DEF Next, vars, Deliver, Others, DeliverClaim, DeliverBox, Crash, DeleteClaim,
         Collect, GrowOld, Expire, Network, DeleteBox
  <1>3. ASSUME NEW s \in Boxes
        PROVE  /\ box'[s] = "pool" => seenBox'[s] = "pool"
               /\ seenBox'[s] \in Claims => box'[s] \in {seenBox'[s], "none"}
               /\ s \in Claims => box'[s] \in {"none", s} /\ seenBox'[s] \in {"none", s}
    <2>1. /\ box[s] = "pool" => seenBox[s] = "pool"
          /\ seenBox[s] \in Claims => box[s] \in {seenBox[s], "none"}
          /\ s \in Claims => box[s] \in {"none", s} /\ seenBox[s] \in {"none", s}
      BY DEF Behind
    <2> QED
      BY <1>1, <1>2, <2>1
  <1> QED
    BY <1>3 DEF Behind

\* The surroundings leave the claims as they are.
LEMMA EnvironmentLag ==
    ASSUME LagInv, Calm, Deliver \/ Others, NEW d \in Claims
    PROVE  LagOf(d)'
  <1> USE DEF LagInv, TypeInv, TypeOK
  <1>0. LagOf(d) /\ seenClaim[d].ann \in {"none", claim[d].ann}
    BY DEF LagOf
  <1>1. ASSUME NEW c \in Claims, DeliverClaim(c) PROVE LagOf(d)'
    BY <1>0, <1>1, LagFrame DEF DeliverClaim
  <1>2. ASSUME NEW s \in Boxes, DeliverBox(s) PROVE LagOf(d)'
    BY <1>0, <1>2, LagFrame DEF DeliverBox
  <1>3. ~Crash /\ \A s \in Boxes : ~DeleteBox(s)
    BY DEF Crash, DeleteBox, Calm, Fault
  <1>4. ASSUME NEW c \in Claims, DeleteClaim(c) PROVE LagOf(d)'
    <2>1. claim'[d].ann = claim[d].ann /\ (claim'[d].live => claim[d].live)
      BY <1>4 DEF DeleteClaim, ClaimRecords
    <2> QED
      BY <1>0, <1>4, <2>1, LagFrame DEF DeleteClaim
  <1>5. ASSUME NEW c \in Claims, Collect(c) PROVE LagOf(d)'
    <2>1. \A s \in Boxes : box'[s] = IF box[s] = c THEN "none" ELSE box[s]
      BY <1>5 DEF Collect
    <2>2. claim[d].live => d # c
      BY <1>5 DEF Collect
    <2>3. \A s \in Warm : claim[d].live /\ box[s] \in {"pool", d} => box'[s] \in {"pool", d}
      BY <2>1, <2>2, ClaimAdoptionAssumption DEF Boxes
    <2> QED
      BY <1>0, <1>5, <2>1, <2>3, LagFrame, ClaimAdoptionAssumption DEF Collect
  <1>6. ASSUME NEW c \in Claims, GrowOld(c) \/ Expire(c) PROVE LagOf(d)'
    BY <1>0, <1>6, LagFrame DEF GrowOld, Expire
  <1>7. ASSUME NEW s \in Boxes, Network(s) PROVE LagOf(d)'
    BY <1>0, <1>7, LagFrame DEF Network
  <1> QED
    BY <1>1, <1>2, <1>3, <1>4, <1>5, <1>6, <1>7 DEF Deliver, Others

\* And the keys in their places.
LEMMA EnvironmentTokens ==
    ASSUME LagInv, Calm, Deliver \/ Others
    PROVE  Tokens'
  <1> USE DEF LagInv, TypeInv, TypeOK
  <1>1. ~Crash /\ \A s \in Boxes : ~DeleteBox(s)
    BY DEF Crash, DeleteBox, Calm, Fault
  <1>2. UNCHANGED wk /\ queue' \subseteq queue
    BY <1>1 DEF Deliver, Others, DeliverClaim, DeliverBox, DeleteClaim, Collect, GrowOld, Expire,
       Network
  <1>3. \A c \in Claims : claim'[c].ann = claim[c].ann
    BY <1>1 DEF ClaimRecords, Deliver, Others, DeliverClaim, DeliverBox, DeleteClaim, Collect,
       GrowOld, Expire, Network
  <1>4. \A s \in Warm : box[s] = "pool" => box'[s] = "pool"
    BY <1>1, ClaimAdoptionAssumption DEF Boxes, Deliver, Others, DeliverClaim, DeliverBox,
       DeleteClaim, Collect, GrowOld, Expire, Network
  <1>5. \A c \in Claims : Hand(c)' = Hand(c)
    BY <1>2 DEF Hand
  <1>6. ASSUME NEW c \in Claims PROVE Hand(c) \subseteq Warm
    <2>1. wk[c] \in WorkerRecords /\ HandOf(wk[c])
      BY DEF Hands
    <2> QED
      BY <2>1 DEF Hand, Kept, WorkerRecords, HandOf
  <1> QED
    BY <1>2, <1>3, <1>4, <1>5, <1>6 DEF Tokens

\* The inductive invariant, with claims from the past: it holds at the start,
LEMMA LagInit == Init => LagInv
  <1> SUFFICES ASSUME Init PROVE LagInv
    OBVIOUS
  <1>1. TypeInv
    BY TypeInit
  <1>2. ASSUME NEW c \in Claims
        PROVE  /\ wk[c].pc = "idle" /\ wk[c].skip = {} /\ wk[c].fall = "none"
               /\ claim[c].ann = "none" /\ seenClaim[c].ann = "none"
    BY DEF Init, Idle, New
  <1>3. \A s \in Boxes : box[s] = (IF s \in Warm THEN "pool" ELSE "none") /\ seenBox[s] = box[s]
    BY DEF Init
  <1>4. ASSUME NEW c \in Claims PROVE LagOf(c) /\ Hand(c) = {}
    BY <1>2, <1>3, ClaimAdoptionAssumption DEF LagOf, Hand, Kept, Boxes
  <1>5. Tokens
    BY <1>2, <1>3, <1>4, ClaimAdoptionAssumption DEF Tokens, Init, Boxes
  <1>6. Behind
    BY <1>3, ClaimAdoptionAssumption DEF Behind, Boxes
  <1> QED
    BY <1>1, <1>4, <1>5, <1>6 DEF LagInv

\* and every step keeps it.
LEMMA LagNext == ASSUME Calm PROVE LagInv /\ [Next]_vars => LagInv'
  <1> SUFFICES ASSUME LagInv, [Next]_vars PROVE LagInv'
    OBVIOUS
  <1>1. TypeInv' /\ Behind'
    BY TypeNext, BehindNext DEF LagInv
  <1>2. ASSUME NEW c \in Claims, Work(c) PROVE Tokens' /\ \A d \in Claims : LagOf(d)'
    <2>1. LagOf(c)' /\ Passes(c)
      BY <1>2, StartLag, LookupLag, UnrefLag, ByNameLag, PopKeyLag, QueueEmptyLag, AssignLag,
         ReassignLag, CompleteLag, ResolveLag, ClearLag, ConfirmLag, CreateLag, StatusLag DEF Work
    <2>2. \A s \in Warm : box'[s] = box[s] \/ box[s] # "pool" \/ claim[c].ann = s
      BY <1>2, WorkMoves, ClaimAdoptionAssumption
    <2>3. Tokens'
      BY <1>2, <2>1, <2>2, TokensStep
    <2> QED
      BY <1>2, <2>1, <2>3, OthersLag
  <1>3. CASE Deliver \/ Others
    BY <1>1, <1>3, EnvironmentLag, EnvironmentTokens DEF LagInv
  <1>4. CASE UNCHANGED vars
    <2>1. Tokens'
      BY <1>4 DEF LagInv, Tokens, Hand, vars
    <2>2. ASSUME NEW d \in Claims PROVE LagOf(d)'
      <3>1. LagOf(d) /\ seenClaim[d].ann \in {"none", claim[d].ann}
        BY DEF LagInv, LagOf
      <3> QED
        BY <1>4, <3>1, LagFrame DEF vars
    <2> QED
      BY <1>1, <2>1, <2>2 DEF LagInv
  <1> QED
    BY <1>1, <1>2, <1>3, <1>4 DEF Next, LagInv

\* So it always holds.
LEMMA LagAlways == ASSUME Calm PROVE Spec => []LagInv
  BY LagInit, LagNext, PTL DEF Spec

\* It says what ownership needs.
LEMMA LagOwned == LagInv => TypeInv /\ Owned
  BY DEF LagInv, LagOf, Owned

\* A claim never has two Sandboxes though its passes may begin with a claim from the past:
\* the lock on the claim, the reread before a retry and the one before a cold start stop a
\* worker that does not know what an earlier pass assigned.
THEOREM OneSandboxLag == ASSUME Calm PROVE Spec => []OneSandboxPerClaim
  BY LagAlways, LagOwned, OwnedOne, PTL

\* And the adoption still implements ClaimAssignment.
THEOREM ImplementsLag == ASSUME Calm PROVE Spec => ImplementsAssignment
  BY OwnedInit, OwnedStep, LagOwned, LagAlways, PTL
  DEF Spec, ImplementsAssignment, Ownership!Assignment

\* Nor is a key lost, when no claim is deleted either: the reference that keeps the key of a
\* contended Sandbox is never removed.
THEOREM KeysKeptLag ==
    ASSUME Calm, "drop" \notin Faults PROVE Spec => []NoLostCandidate
  <1>1. Init => LagInv /\ Keys
    BY LagInit, KeyInit
  <1>2. LagInv => TypeInv /\ Refs
    BY DEF LagInv, LagOf, Refs
  <1>3. LagInv /\ Keys /\ [Next]_vars => (LagInv /\ Keys)'
    BY <1>2, LagNext, KeyNext DEF KeyInv, Kind
  <1> QED
    BY <1>1, <1>2, <1>3, KeysFound, PTL DEF Spec
=============================================================================
