------------------------ MODULE ClaimAdoption_proofs ------------------------
(***************************************************************************)
(* Ownership in ClaimAdoption when every pass begins with current caches,  *)
(* whatever fails, crashes, expires or is deleted: a claim never has two   *)
(* Sandboxes, and the adoption implements ClaimAssignment.                 *)
(***************************************************************************)
EXTENDS ClaimAdoptionTypes_proofs, FiniteSetTheorems

\* What the worker of a claim knows, and what the claim's reference says of the Sandboxes
\* the claim owns: the one adopted is the one referred to, and the cold one goes with none.
LedgerOf(c) ==
    /\ wk[c].pc # "idle" => wk[c].view.ann = claim[c].ann
    /\ \A s \in Warm : box[s] = c => claim[c].ann = s
    /\ \A s \in Claims : box[s] = c => s = c /\ claim[c].ann = "none"
    /\ wk[c].pc \in {"byname", "pick", "assign", "reassign", "confirm", "create"} =>
         claim[c].ann = "none"
    /\ wk[c].pc \in {"pick", "assign", "reassign"} => box[c] # c
    /\ wk[c].pc \in {"complete", "resolve"} => claim[c].ann = wk[c].cand
    /\ wk[c].pc \in {"lookup", "unref", "byname"} => \A s \in Boxes : box[s] = c => seenBox[s] = c
    /\ wk[c].pc = "unref" => \A s \in Warm : box[s] # c
    /\ wk[c].pc = "clear" => box[wk[c].cand] # c

Ledger == \A c \in Claims : LedgerOf(c)

\* Everything the proofs need of a state.
Inv == TypeInv /\ Ledger

\* The ledger of a claim stays when its worker stays or ends, its reference stays, it owns
\* no more than before, and the cache forgets nothing of what it owns.
LEMMA Frame ==
    ASSUME NEW d \in Claims, LedgerOf(d),
           UNCHANGED wk[d] \/ wk'[d].pc = "idle",
           claim'[d].ann = claim[d].ann,
           \A s \in Boxes : box'[s] = d => box[s] = d,
           \A s \in Boxes : box'[s] = d /\ seenBox[s] = d => seenBox'[s] = d,
           TypeInv
    PROVE  LedgerOf(d)'
  <1>1. wk[d].pc = "clear" => wk[d].cand \in Boxes
    BY DEF TypeInv, Hands, HandOf, Boxes
  <1> QED
    BY <1>1 DEF LedgerOf, Boxes

\* What a step of the worker of c leaves alone.
LEMMA WorkFrame ==
    ASSUME TypeInv, NEW c \in Claims, Work(c)
    PROVE  /\ UNCHANGED seenBox
           /\ \A d \in Claims \ {c} : UNCHANGED <<wk[d], claim[d]>>
           /\ \A s \in Boxes : box'[s] \in {box[s], c, "none"}
  <1> USE DEF TypeInv, TypeOK
  <1>1. UNCHANGED seenBox
    BY DEF Work, World, Start, Lookup, Unref, ByName, PopKey, QueueEmpty, Assign, Reassign,
           Complete, Resolve, Clear, Confirm, Create, Publish, MarkExpired, ReconcileExpired
  <1>2. ASSUME NEW d \in Claims \ {c} PROVE UNCHANGED <<wk[d], claim[d]>>
    <2>1. CASE Start(c) \/ Lookup(c) \/ ByName(c) \/ PopKey(c) \/ QueueEmpty(c)
      BY <1>2, <2>1 DEF Start, Lookup, ByName, PopKey, QueueEmpty, Goto, Retry
    <2>2. CASE Unref(c) \/ Assign(c) \/ Reassign(c) \/ Clear(c)
      BY <1>2, <2>2 DEF Unref, Assign, Reassign, Clear, Goto, Retry
    <2>3. CASE Complete(c) \/ Resolve(c) \/ Confirm(c) \/ Create(c)
      BY <1>2, <2>3 DEF Complete, Resolve, Confirm, Create, Goto, Retry, Finish
    <2>4. CASE Publish(c) \/ MarkExpired(c) \/ ReconcileExpired(c)
      BY <1>2, <2>4 DEF Publish, MarkExpired, ReconcileExpired, UpdateStatus, Retry, Finish
    <2> QED
      BY <2>1, <2>2, <2>3, <2>4 DEF Work
  <1>3. ASSUME NEW s \in Boxes PROVE box'[s] \in {box[s], c, "none"}
    BY DEF Work, Start, Lookup, Unref, ByName, PopKey, QueueEmpty, Assign, Reassign,
           Complete, Resolve, Clear, Confirm, Create, Publish, MarkExpired, ReconcileExpired
  <1> QED
    BY <1>1, <1>2, <1>3

\* The ledgers of the other claims stay.
LEMMA OthersLedger ==
    ASSUME Inv, NEW c \in Claims, NEW d \in Claims \ {c}, Work(c)
    PROVE  LedgerOf(d)'
  <1>1. /\ UNCHANGED <<wk[d], claim[d], seenBox>>
        /\ \A s \in Boxes : box'[s] = d => box[s] = d
    BY WorkFrame, ClaimAdoptionAssumption DEF Inv
  <1>2. LedgerOf(d)
    BY DEF Inv, Ledger
  <1> QED
    BY <1>1, <1>2, Frame DEF Inv

\* A pass that ends, leaving the reference and owning no more, keeps the ledger.
LEMMA EndsLedger ==
    ASSUME Inv, NEW c \in Claims, Work(c), Retry(c) \/ Finish(c),
           claim'[c].ann = claim[c].ann, \A s \in Boxes : box'[s] = c => box[s] = c
    PROVE  LedgerOf(c)'
  <1>1. wk'[c].pc = "idle"
    BY DEF Inv, TypeInv, TypeOK, Retry, Finish, Idle
  <1>2. UNCHANGED seenBox /\ LedgerOf(c)
    BY WorkFrame DEF Inv, Ledger
  <1> QED
    BY <1>1, <1>2, Frame DEF Inv

\* A pass that begins with current caches knows the reference and what is owned.
LEMMA StartLedger ==
    ASSUME Inv, NEW c \in Claims, Start(c), Lag = {}
    PROVE  LedgerOf(c)'
  <1> DEFINE w == wk[c]
  <1>0. /\ w \in WorkerRecords /\ HandOf(w) /\ LedgerOf(c)
        /\ claim \in [Claims -> ClaimRecords] /\ wk \in [Claims -> WorkerRecords]
        /\ box \in [Boxes -> Owners]
    BY DEF Inv, TypeInv, TypeOK, Hands, Ledger
  <1>1. seenClaim[c] = claim[c] /\ seenBox = box
    BY DEF Start
  <1>2. CASE ~seenClaim[c].live
    BY <1>0, <1>1, <1>2 DEF Start, World, LedgerOf
  <1>3. CASE seenClaim[c].live
    <2> DEFINE r == [Idle EXCEPT !.view = seenClaim[c],
                                !.pc = IF c \notin expired THEN "lookup"
                                       ELSE IF seenClaim[c].exp THEN "expire" ELSE "mark"]
    <2>1. r.view = claim[c] /\ r.pc \in {"lookup", "mark", "expire"}
      BY <1>1 DEF Idle
    <2>2. wk'[c] = r
      BY <1>0, <1>3 DEF Start
    <2> HIDE DEF r
    <2> QED
      BY <1>0, <1>1, <2>1, <2>2 DEF Start, World, LedgerOf
  <1> QED
    BY <1>2, <1>3

\* The reference of a Sandbox that the cache shows as lost is not of one that is owned.
LEMMA LookupLedger ==
    ASSUME Inv, NEW c \in Claims, Lookup(c)
    PROVE  LedgerOf(c)'
  <1> DEFINE w == wk[c]
  <1>0. /\ w \in WorkerRecords /\ HandOf(w) /\ LedgerOf(c)
        /\ claim \in [Claims -> ClaimRecords] /\ wk \in [Claims -> WorkerRecords]
        /\ box \in [Boxes -> Owners]
    BY DEF Inv, TypeInv, TypeOK, Hands, Ledger
  <1>1. UNCHANGED <<claim, box, seenBox>>
    BY DEF Lookup, World
  <1>2. w.view.ann = claim[c].ann /\ \A s \in Boxes : box[s] = c => seenBox[s] = c
    BY <1>0 DEF Lookup, LedgerOf
  <1>3. ASSUME NEW s, wk'[c] = [w EXCEPT !.pc = "publish", !.cand = s] PROVE LedgerOf(c)'
    <2>1. wk'[c].pc = "publish" /\ wk'[c].view = w.view
      BY <1>0, <1>3 DEF WorkerRecords
    <2> QED
      BY <1>0, <1>1, <1>2, <2>1 DEF LedgerOf
  <1>4. CASE wk'[c] = [w EXCEPT !.pc = "byname"] /\ w.view.ann = "none"
    <2>1. wk'[c].pc = "byname" /\ wk'[c].view = w.view
      BY <1>0, <1>4 DEF WorkerRecords
    <2> QED
      BY <1>0, <1>1, <1>2, <1>4, <2>1 DEF LedgerOf
  <1>5. CASE wk'[c] = [w EXCEPT !.pc = "complete", !.cand = w.view.ann]
    <2>1. wk'[c].pc = "complete" /\ wk'[c].view = w.view /\ wk'[c].cand = w.view.ann
      BY <1>0, <1>5 DEF WorkerRecords
    <2> QED
      BY <1>0, <1>1, <1>2, <2>1 DEF LedgerOf
  <1>6. CASE wk'[c] = [w EXCEPT !.pc = "unref"] /\ seenBox[w.view.ann] # c
    <2>1. wk'[c].pc = "unref" /\ wk'[c].view = w.view
      BY <1>0, <1>6 DEF WorkerRecords
    <2>2. \A s \in Warm : box[s] # c
      BY <1>0, <1>2, <1>6 DEF LedgerOf, Boxes
    <2> QED
      BY <1>0, <1>1, <1>2, <2>1, <2>2 DEF LedgerOf
  <1> QED
    BY <1>0, <1>3, <1>4, <1>5, <1>6 DEF Lookup, Goto, Refers

\* A removed reference was of no Sandbox that is owned.
LEMMA UnrefLedger ==
    ASSUME Inv, NEW c \in Claims, Unref(c)
    PROVE  LedgerOf(c)'
  <1> DEFINE w == wk[c]
  <1>0. /\ w \in WorkerRecords /\ HandOf(w) /\ LedgerOf(c)
        /\ claim \in [Claims -> ClaimRecords] /\ wk \in [Claims -> WorkerRecords]
        /\ box \in [Boxes -> Owners]
    BY DEF Inv, TypeInv, TypeOK, Hands, Ledger
  <1>1. CASE Retry(c) /\ UNCHANGED claim
    BY <1>1, EndsLedger DEF Unref, Work
  <1>2. CASE /\ claim' = [claim EXCEPT ![c].ann = "none"]
             /\ wk'[c] = [w EXCEPT !.pc = "byname", !.view = claim'[c]]
    <2>1. wk'[c].pc = "byname" /\ wk'[c].view = claim'[c]
      BY <1>0, <1>2 DEF WorkerRecords
    <2>2. claim'[c].ann = "none"
      BY <1>0, <1>2 DEF ClaimRecords
    <2> QED
      BY <1>0, <2>1, <2>2 DEF Unref, World, LedgerOf
  <1> QED
    BY <1>0, <1>1, <1>2 DEF Unref, Goto

\* A claim that goes to the queue owns no cold Sandbox.
LEMMA ByNameLedger ==
    ASSUME Inv, NEW c \in Claims, ByName(c)
    PROVE  LedgerOf(c)'
  <1> DEFINE w == wk[c]
  <1>0. /\ w \in WorkerRecords /\ HandOf(w) /\ LedgerOf(c)
        /\ claim \in [Claims -> ClaimRecords] /\ wk \in [Claims -> WorkerRecords]
        /\ box \in [Boxes -> Owners]
    BY DEF Inv, TypeInv, TypeOK, Hands, Ledger
  <1>1. UNCHANGED <<claim, box, seenBox>> /\ w.pc = "byname"
    BY DEF ByName, World
  <1>2. CASE Retry(c)
    BY <1>1, <1>2, EndsLedger DEF ByName, Work
  <1>3. CASE wk'[c] = [w EXCEPT !.pc = "publish", !.cand = c]
    <2>1. wk'[c].pc = "publish" /\ wk'[c].view = w.view
      BY <1>0, <1>3 DEF WorkerRecords
    <2> QED
      BY <1>0, <1>1, <2>1 DEF LedgerOf
  <1>4. CASE wk'[c] = [w EXCEPT !.pc = "create"]
    <2>1. wk'[c].pc = "create" /\ wk'[c].view = w.view
      BY <1>0, <1>4 DEF WorkerRecords
    <2> QED
      BY <1>0, <1>1, <2>1 DEF LedgerOf
  <1>5. CASE wk'[c] = [w EXCEPT !.pc = "pick"] /\ seenBox[c] # c
    <2>1. wk'[c].pc = "pick" /\ wk'[c].view = w.view
      BY <1>0, <1>5 DEF WorkerRecords
    <2>2. box[c] # c
      BY <1>0, <1>1, <1>5 DEF LedgerOf, Boxes
    <2> QED
      BY <1>0, <1>1, <2>1, <2>2 DEF LedgerOf
  <1> QED
    BY <1>0, <1>2, <1>3, <1>4, <1>5 DEF ByName, Goto

\* Picking changes neither the reference nor what is owned.
LEMMA PopKeyLedger ==
    ASSUME Inv, NEW c \in Claims, PopKey(c)
    PROVE  LedgerOf(c)'
  <1> DEFINE w == wk[c]
  <1>0. /\ w \in WorkerRecords /\ HandOf(w) /\ LedgerOf(c)
        /\ claim \in [Claims -> ClaimRecords] /\ wk \in [Claims -> WorkerRecords]
        /\ box \in [Boxes -> Owners]
    BY DEF Inv, TypeInv, TypeOK, Hands, Ledger
  <1>1. UNCHANGED <<claim, box, seenBox>> /\ w.pc = "pick"
    BY DEF PopKey, World
  <1>2. CASE UNCHANGED wk
    BY <1>0, <1>1, <1>2 DEF LedgerOf
  <1>3. ASSUME NEW s, wk'[c] = [w EXCEPT !.pc = "assign", !.cand = s, !.popped = TRUE,
                                        !.skip = {}, !.fall = "none"]
        PROVE  LedgerOf(c)'
    <2>1. wk'[c].pc = "assign" /\ wk'[c].view = w.view
      BY <1>0, <1>1, <1>3 DEF WorkerRecords
    <2> QED
      BY <1>0, <1>1, <2>1 DEF LedgerOf
  <1>4. ASSUME NEW s, wk'[c] = [w EXCEPT !.fall = s] PROVE LedgerOf(c)'
    <2>1. wk'[c].pc = "pick" /\ wk'[c].view = w.view
      BY <1>0, <1>1, <1>4 DEF WorkerRecords
    <2> QED
      BY <1>0, <1>1, <2>1 DEF LedgerOf
  <1>5. ASSUME NEW s, wk'[c] = [w EXCEPT !.skip = @ \cup {s}] PROVE LedgerOf(c)'
    <2>1. wk'[c].pc = "pick" /\ wk'[c].view = w.view
      BY <1>0, <1>1, <1>5 DEF WorkerRecords
    <2> QED
      BY <1>0, <1>1, <2>1 DEF LedgerOf
  <1> QED
    BY <1>0, <1>2, <1>3, <1>4, <1>5 DEF PopKey, Goto

\* Nor does the end of the queue.
LEMMA QueueEmptyLedger ==
    ASSUME Inv, NEW c \in Claims, QueueEmpty(c)
    PROVE  LedgerOf(c)'
  <1> DEFINE w == wk[c]
  <1>0. /\ w \in WorkerRecords /\ HandOf(w) /\ LedgerOf(c)
        /\ claim \in [Claims -> ClaimRecords] /\ wk \in [Claims -> WorkerRecords]
        /\ box \in [Boxes -> Owners]
    BY DEF Inv, TypeInv, TypeOK, Hands, Ledger
  <1>1. UNCHANGED <<claim, box, seenBox>> /\ w.pc = "pick"
    BY DEF QueueEmpty, World
  <1>2. CASE Retry(c)
    BY <1>1, <1>2, EndsLedger DEF QueueEmpty, Work
  <1>3. ASSUME NEW s, wk'[c] = [w EXCEPT !.pc = "assign", !.cand = s, !.popped = TRUE,
                                        !.skip = {}, !.fall = "none"]
        PROVE  LedgerOf(c)'
    <2>1. wk'[c].pc = "assign" /\ wk'[c].view = w.view
      BY <1>0, <1>1, <1>3 DEF WorkerRecords
    <2> QED
      BY <1>0, <1>1, <2>1 DEF LedgerOf
  <1>4. CASE wk'[c] = [w EXCEPT !.pc = "confirm", !.skip = {}]
    <2>1. wk'[c].pc = "confirm" /\ wk'[c].view = w.view
      BY <1>0, <1>1, <1>4 DEF WorkerRecords
    <2> QED
      BY <1>0, <1>1, <2>1 DEF LedgerOf
  <1> QED
    BY <1>0, <1>2, <1>3, <1>4 DEF QueueEmpty, Goto

\* A claim gets a reference when it owns nothing.
LEMMA AssignLedger ==
    ASSUME Inv, NEW c \in Claims, Assign(c)
    PROVE  LedgerOf(c)'
  <1> DEFINE w == wk[c]
  <1>0. /\ w \in WorkerRecords /\ HandOf(w) /\ LedgerOf(c)
        /\ claim \in [Claims -> ClaimRecords] /\ wk \in [Claims -> WorkerRecords]
        /\ box \in [Boxes -> Owners]
    BY DEF Inv, TypeInv, TypeOK, Hands, Ledger
  <1>1. UNCHANGED <<box, seenBox>> /\ w.pc = "assign"
    BY DEF Assign, World
  <1>2. CASE /\ claim' = [claim EXCEPT ![c].ann = w.cand]
             /\ wk'[c] = [w EXCEPT !.pc = "complete", !.view = claim'[c]]
    <2>1. wk'[c].pc = "complete" /\ wk'[c].view = claim'[c] /\ wk'[c].cand = w.cand
      BY <1>0, <1>2 DEF WorkerRecords
    <2>2. claim'[c].ann = w.cand
      BY <1>0, <1>2 DEF ClaimRecords
    <2>3. \A s \in Boxes : box[s] # c
      BY <1>0, <1>1, ClaimAdoptionAssumption DEF LedgerOf, Boxes
    <2> QED
      BY <1>0, <1>1, <2>1, <2>2, <2>3 DEF LedgerOf, Boxes
  <1>3. CASE UNCHANGED claim /\ wk'[c] = [w EXCEPT !.pc = "reassign"]
    <2>1. wk'[c].pc = "reassign" /\ wk'[c].view = w.view
      BY <1>0, <1>3 DEF WorkerRecords
    <2> QED
      BY <1>0, <1>1, <1>3, <2>1 DEF LedgerOf
  <1>4. CASE UNCHANGED claim /\ Retry(c)
    BY <1>1, <1>4, EndsLedger DEF Assign, Work
  <1> QED
    BY <1>0, <1>2, <1>3, <1>4 DEF Assign, Goto

\* Also on a fresh base.
LEMMA ReassignLedger ==
    ASSUME Inv, NEW c \in Claims, Reassign(c)
    PROVE  LedgerOf(c)'
  <1> DEFINE w == wk[c]
  <1>0. /\ w \in WorkerRecords /\ HandOf(w) /\ LedgerOf(c)
        /\ claim \in [Claims -> ClaimRecords] /\ wk \in [Claims -> WorkerRecords]
        /\ box \in [Boxes -> Owners]
    BY DEF Inv, TypeInv, TypeOK, Hands, Ledger
  <1>1. UNCHANGED <<box, seenBox>> /\ w.pc = "reassign"
    BY DEF Reassign, World
  <1>2. CASE /\ claim' = [claim EXCEPT ![c].ann = w.cand]
             /\ wk'[c] = [w EXCEPT !.pc = "complete", !.view = claim'[c]]
    <2>1. wk'[c].pc = "complete" /\ wk'[c].view = claim'[c] /\ wk'[c].cand = w.cand
      BY <1>0, <1>2 DEF WorkerRecords
    <2>2. claim'[c].ann = w.cand
      BY <1>0, <1>2 DEF ClaimRecords
    <2>3. \A s \in Boxes : box[s] # c
      BY <1>0, <1>1, ClaimAdoptionAssumption DEF LedgerOf, Boxes
    <2> QED
      BY <1>0, <1>1, <2>1, <2>2, <2>3 DEF LedgerOf, Boxes
  <1>3. CASE UNCHANGED claim /\ Retry(c)
    BY <1>1, <1>3, EndsLedger DEF Reassign, Work
  <1> QED
    BY <1>0, <1>2, <1>3 DEF Reassign, Goto

\* What is taken over is what the reference says.
LEMMA CompleteLedger ==
    ASSUME Inv, NEW c \in Claims, Complete(c)
    PROVE  LedgerOf(c)'
  <1> DEFINE w == wk[c]
  <1>0. /\ w \in WorkerRecords /\ HandOf(w) /\ LedgerOf(c)
        /\ claim \in [Claims -> ClaimRecords] /\ wk \in [Claims -> WorkerRecords]
        /\ box \in [Boxes -> Owners]
    BY DEF Inv, TypeInv, TypeOK, Hands, Ledger
  <1>1. UNCHANGED <<claim, seenBox>> /\ w.pc = "complete"
    BY DEF Complete, World
  <1>2. CASE box' = [box EXCEPT ![w.cand] = c] /\ wk'[c] = [w EXCEPT !.pc = "publish"]
    <2>1. wk'[c].pc = "publish" /\ wk'[c].view = w.view
      BY <1>0, <1>2 DEF WorkerRecords
    <2>2. claim[c].ann = w.cand /\ w.cand # "none" /\ w.cand \notin Claims
      BY <1>0, <1>1, ClaimAdoptionAssumption DEF LedgerOf, HandOf
    <2>3. \A s \in Boxes : box'[s] = c => s = w.cand \/ box[s] = c
      BY <1>0, <1>2
    <2> QED
      BY <1>0, <1>1, <2>1, <2>2, <2>3 DEF LedgerOf, Boxes
  <1>3. CASE UNCHANGED box /\ wk'[c] = [w EXCEPT !.pc = "resolve"]
    <2>1. wk'[c].pc = "resolve" /\ wk'[c].view = w.view /\ wk'[c].cand = w.cand
      BY <1>0, <1>3 DEF WorkerRecords
    <2> QED
      BY <1>0, <1>1, <1>3, <2>1 DEF LedgerOf
  <1>4. CASE UNCHANGED box /\ Retry(c)
    BY <1>1, <1>4, EndsLedger DEF Complete, Work
  <1> QED
    BY <1>0, <1>2, <1>3, <1>4 DEF Complete, Goto

\* After a conflict as well; a Sandbox given up is not owned.
LEMMA ResolveLedger ==
    ASSUME Inv, NEW c \in Claims, Resolve(c)
    PROVE  LedgerOf(c)'
  <1> DEFINE w == wk[c]
  <1>0. /\ w \in WorkerRecords /\ HandOf(w) /\ LedgerOf(c)
        /\ claim \in [Claims -> ClaimRecords] /\ wk \in [Claims -> WorkerRecords]
        /\ box \in [Boxes -> Owners]
    BY DEF Inv, TypeInv, TypeOK, Hands, Ledger
  <1>1. UNCHANGED <<claim, seenBox>> /\ w.pc = "resolve"
    BY DEF Resolve, World
  <1>2. CASE box' = [box EXCEPT ![w.cand] = c] /\ wk'[c] = [w EXCEPT !.pc = "publish"]
    <2>1. wk'[c].pc = "publish" /\ wk'[c].view = w.view
      BY <1>0, <1>2 DEF WorkerRecords
    <2>2. claim[c].ann = w.cand /\ w.cand # "none" /\ w.cand \notin Claims
      BY <1>0, <1>1, ClaimAdoptionAssumption DEF LedgerOf, HandOf
    <2>3. \A s \in Boxes : box'[s] = c => s = w.cand \/ box[s] = c
      BY <1>0, <1>2
    <2> QED
      BY <1>0, <1>1, <2>1, <2>2, <2>3 DEF LedgerOf, Boxes
  <1>3. CASE UNCHANGED box /\ box[w.cand] # c /\ wk'[c] = [w EXCEPT !.pc = "clear"]
    <2>1. wk'[c].pc = "clear" /\ wk'[c].view = w.view /\ wk'[c].cand = w.cand
      BY <1>0, <1>3 DEF WorkerRecords
    <2> QED
      BY <1>0, <1>1, <1>3, <2>1 DEF LedgerOf
  <1>4. CASE UNCHANGED box /\ Retry(c)
    BY <1>1, <1>4, EndsLedger DEF Resolve, Work
  <1> QED
    BY <1>0, <1>2, <1>3, <1>4 DEF Resolve, Goto

\* The reference that is removed was lost to another.
LEMMA ClearLedger ==
    ASSUME Inv, NEW c \in Claims, Clear(c)
    PROVE  LedgerOf(c)'
  <1> DEFINE w == wk[c]
  <1>0. /\ w \in WorkerRecords /\ HandOf(w) /\ LedgerOf(c)
        /\ claim \in [Claims -> ClaimRecords] /\ wk \in [Claims -> WorkerRecords]
        /\ box \in [Boxes -> Owners]
    BY DEF Inv, TypeInv, TypeOK, Hands, Ledger
  <1>1. UNCHANGED <<box, seenBox>> /\ w.pc = "clear" /\ wk'[c].pc = "idle"
    BY <1>0 DEF Clear, World, Retry, Idle
  <1>2. CASE UNCHANGED claim
    BY <1>1, <1>2, EndsLedger DEF Clear, Work
  <1>3. CASE claim' = [claim EXCEPT ![c].ann = "none"] /\ claim[c].ann = w.cand
    <2>1. claim'[c].ann = "none"
      BY <1>0, <1>3 DEF ClaimRecords
    <2>2. \A s \in Warm : box[s] # c
      BY <1>0, <1>1, <1>3 DEF LedgerOf
    <2> QED
      BY <1>0, <1>1, <2>1, <2>2 DEF LedgerOf
  <1> QED
    BY <1>2, <1>3 DEF Clear

\* The fresh read changes nothing.
LEMMA ConfirmLedger ==
    ASSUME Inv, NEW c \in Claims, Confirm(c)
    PROVE  LedgerOf(c)'
  <1> DEFINE w == wk[c]
  <1>0. /\ w \in WorkerRecords /\ HandOf(w) /\ LedgerOf(c)
        /\ claim \in [Claims -> ClaimRecords] /\ wk \in [Claims -> WorkerRecords]
        /\ box \in [Boxes -> Owners]
    BY DEF Inv, TypeInv, TypeOK, Hands, Ledger
  <1>1. UNCHANGED <<claim, box, seenBox>> /\ w.pc = "confirm"
    BY DEF Confirm, World
  <1>2. CASE Retry(c) \/ Finish(c)
    BY <1>1, <1>2, EndsLedger DEF Confirm, Work
  <1>3. CASE wk'[c] = [w EXCEPT !.pc = "create"]
    <2>1. wk'[c].pc = "create" /\ wk'[c].view = w.view
      BY <1>0, <1>3 DEF WorkerRecords
    <2> QED
      BY <1>0, <1>1, <2>1 DEF LedgerOf
  <1> QED
    BY <1>0, <1>2, <1>3 DEF Confirm, Goto

\* A claim that creates its own Sandbox refers to none.
LEMMA CreateLedger ==
    ASSUME Inv, NEW c \in Claims, Create(c)
    PROVE  LedgerOf(c)'
  <1> DEFINE w == wk[c]
  <1>0. /\ w \in WorkerRecords /\ HandOf(w) /\ LedgerOf(c)
        /\ claim \in [Claims -> ClaimRecords] /\ wk \in [Claims -> WorkerRecords]
        /\ box \in [Boxes -> Owners]
    BY DEF Inv, TypeInv, TypeOK, Hands, Ledger
  <1>1. UNCHANGED <<claim, seenBox>> /\ w.pc = "create"
    BY DEF Create, World
  <1>2. CASE box' = [box EXCEPT ![c] = c] /\ wk'[c] = [w EXCEPT !.pc = "publish", !.cand = c]
    <2>1. wk'[c].pc = "publish" /\ wk'[c].view = w.view
      BY <1>0, <1>2 DEF WorkerRecords
    <2>2. \A s \in Boxes : box'[s] = c => s = c \/ box[s] = c
      BY <1>0, <1>2
    <2>3. c \notin Warm
      BY ClaimAdoptionAssumption
    <2> QED
      BY <1>0, <1>1, <2>1, <2>2, <2>3 DEF LedgerOf, Boxes
  <1>3. CASE UNCHANGED box /\ Retry(c)
    BY <1>1, <1>3, EndsLedger DEF Create, Work
  <1> QED
    BY <1>0, <1>2, <1>3 DEF Create, Goto

\* The writes of the status leave the reference alone.
LEMMA StatusAnn ==
    ASSUME TypeInv, NEW c \in Claims, NEW s, NEW up, NEW exp, UpdateStatus(c, s, up, exp)
    PROVE  claim'[c].ann = claim[c].ann
  <1>1. claim \in [Claims -> ClaimRecords] /\ claim[c] \in ClaimRecords
    BY DEF TypeInv, TypeOK
  <1>2. CASE claim' = [claim EXCEPT ![c].status = s, ![c].up = up, ![c].exp = exp]
    BY <1>1, <1>2 DEF ClaimRecords
  <1> QED
    BY <1>2 DEF UpdateStatus

\* The end of a pass, published, marked or expired, takes a Sandbox away at most.
LEMMA StatusLedger ==
    ASSUME Inv, NEW c \in Claims, Publish(c) \/ MarkExpired(c) \/ ReconcileExpired(c)
    PROVE  LedgerOf(c)'
  <1>1. Retry(c) \/ Finish(c)
    BY DEF Publish, MarkExpired, ReconcileExpired
  <1>2. claim'[c].ann = claim[c].ann
    BY StatusAnn DEF Inv, Publish, MarkExpired, ReconcileExpired
  <1>3. \A s \in Boxes : box'[s] = c => box[s] = c
    BY ClaimAdoptionAssumption DEF Inv, TypeInv, TypeOK, Publish, MarkExpired, ReconcileExpired
  <1>4. Work(c)
    BY DEF Work
  <1> QED
    BY <1>1, <1>2, <1>3, <1>4, EndsLedger

\* The caches, the network, the users and the collector keep the ledger: they give a claim
\* nothing, and what the cache shows of a Sandbox is what it is.
LEMMA EnvironmentLedger ==
    ASSUME Inv, Deliver \/ Others, NEW d \in Claims
    PROVE  LedgerOf(d)'
  <1> USE DEF Inv, TypeInv, TypeOK, Ledger
  <1>0. LedgerOf(d)
    OBVIOUS
  <1>1. ASSUME NEW c \in Claims, DeliverClaim(c) PROVE LedgerOf(d)'
    BY <1>0, <1>1, Frame DEF DeliverClaim
  <1>2. ASSUME NEW s \in Boxes, DeliverBox(s) PROVE LedgerOf(d)'
    BY <1>0, <1>2, Frame DEF DeliverBox
  <1>3. CASE Crash
    <2>1. wk'[d].pc = "idle"
      BY <1>3 DEF Crash, Idle
    <2> QED
      BY <1>0, <1>3, <2>1, Frame DEF Crash
  <1>4. ASSUME NEW c \in Claims, DeleteClaim(c) PROVE LedgerOf(d)'
    <2>1. claim'[d].ann = claim[d].ann
      BY <1>4 DEF DeleteClaim, ClaimRecords
    <2> QED
      BY <1>0, <1>4, <2>1, Frame DEF DeleteClaim
  <1>5. ASSUME NEW c \in Claims, Collect(c) PROVE LedgerOf(d)'
    BY <1>0, <1>5, Frame, ClaimAdoptionAssumption DEF Collect
  <1>6. ASSUME NEW c \in Claims, GrowOld(c) \/ Expire(c) PROVE LedgerOf(d)'
    BY <1>0, <1>6, Frame DEF GrowOld, Expire
  <1>7. ASSUME NEW s \in Boxes, Network(s) PROVE LedgerOf(d)'
    BY <1>0, <1>7, Frame DEF Network
  <1>8. ASSUME NEW s \in Boxes, DeleteBox(s) PROVE LedgerOf(d)'
    BY <1>0, <1>8, Frame, ClaimAdoptionAssumption DEF DeleteBox
  <1> QED
    BY <1>1, <1>2, <1>3, <1>4, <1>5, <1>6, <1>7, <1>8 DEF Deliver, Others

\* The inductive invariant, with current caches.
LEMMA InvInit == Init => Inv
  <1> SUFFICES ASSUME Init PROVE Inv
    OBVIOUS
  <1>1. TypeInv
    BY TypeInit
  <1>2. ASSUME NEW c \in Claims PROVE LedgerOf(c)
    <2>1. wk[c].pc = "idle" /\ \A s \in Boxes : box[s] # c
      BY ClaimAdoptionAssumption DEF Init, Idle
    <2> QED
      BY <2>1 DEF LedgerOf, Boxes
  <1> QED
    BY <1>1, <1>2 DEF Inv, Ledger

\* It is inductive,
LEMMA InvNext == ASSUME Lag = {} PROVE Inv /\ [Next]_vars => Inv'
  <1> SUFFICES ASSUME Inv, [Next]_vars PROVE Inv'
    OBVIOUS
  <1>1. TypeInv'
    BY TypeNext DEF Inv
  <1>2. ASSUME NEW d \in Claims PROVE LedgerOf(d)'
    <2>1. CASE Work(d)
      BY <2>1, StartLedger, LookupLedger, UnrefLedger, ByNameLedger, PopKeyLedger,
         QueueEmptyLedger, AssignLedger, ReassignLedger, CompleteLedger, ResolveLedger,
         ClearLedger, ConfirmLedger, CreateLedger, StatusLedger DEF Work
    <2>2. ASSUME NEW c \in Claims \ {d}, Work(c) PROVE LedgerOf(d)'
      BY <2>2, OthersLedger
    <2>3. CASE UNCHANGED vars
      BY <2>3, Frame DEF vars, Inv, Ledger
    <2> QED
      BY <2>1, <2>2, <2>3, EnvironmentLedger DEF Next
  <1> QED
    BY <1>1, <1>2 DEF Inv, Ledger

\* and so always holds.
LEMMA InvAlways == ASSUME Lag = {} PROVE Spec => []Inv
  BY InvInit, InvNext, PTL DEF Spec

-----------------------------------------------------------------------------
\* What ownership needs of a state: the warm Sandbox a claim owns is the one it refers to, the
\* cold one goes with no reference, and the worker that takes one over knows which.
Owned ==
    \A c \in Claims :
        /\ \A s \in Warm : box[s] = c => claim[c].ann = s
        /\ \A s \in Claims : box[s] = c => s = c /\ claim[c].ann = "none"
        /\ wk[c].pc \in {"complete", "resolve"} => claim[c].ann = wk[c].cand
        /\ wk[c].pc = "create" => claim[c].ann = "none"

\* Then no claim has two.
LEMMA OwnedOne == TypeInv /\ Owned => OneSandboxPerClaim
  <1> SUFFICES ASSUME TypeInv, Owned, NEW c \in Claims
               PROVE  Cardinality({s \in Boxes : box[s] = c}) <= 1
    BY DEF OneSandboxPerClaim
  <1> DEFINE H == {s \in Boxes : box[s] = c}
  <1>1. \A s, t \in H : s = t
    BY ClaimAdoptionAssumption DEF Owned, Boxes
  <1>2. ASSUME H = {} PROVE Cardinality(H) <= 1
    BY <1>2, FS_EmptySet
  <1>3. ASSUME H # {} PROVE Cardinality(H) <= 1
    <2>1. PICK s : H = {s}
      BY <1>1, <1>3
    <2>2. Cardinality({s}) = 1
      BY FS_Singleton
    <2> HIDE DEF H
    <2> QED
      BY <2>1, <2>2
  <1> QED
    BY <1>2, <1>3

\* And every step is one of ClaimAssignment or leaves the owners alone.
LEMMA OwnedStep == TypeInv /\ Owned /\ [Next]_vars => [Ownership!NextAssignment]_box
  <1> SUFFICES ASSUME TypeInv, Owned, Next, box' # box PROVE Ownership!NextAssignment
    BY DEF vars
  <1>0. Boxes = Ownership!Boxes /\ box \in [Boxes -> Owners]
    BY DEF Boxes, Ownership!Boxes, TypeInv, TypeOK
  <1>1. ASSUME NEW c \in Claims, Complete(c) \/ Resolve(c) PROVE Ownership!NextAssignment
    <2> DEFINE s == wk[c].cand
    <2>1. s \in Warm /\ box[s] = "pool" /\ box' = [box EXCEPT ![s] = c]
      BY <1>0, <1>1 DEF Complete, Resolve, TypeInv, Hands, HandOf, Boxes
    <2>2. claim[c].ann = s
      BY <1>1 DEF Complete, Resolve, Owned
    <2>3. \A t \in Boxes : box[t] # c
      BY <2>1, <2>2, ClaimAdoptionAssumption DEF Owned, Boxes
    <2>4. Ownership!Adopt(c, s)
      BY <1>0, <2>1, <2>3 DEF Ownership!Adopt, Ownership!HeldBy
    <2> QED
      BY <2>1, <2>4 DEF Ownership!NextAssignment
  <1>2. ASSUME NEW c \in Claims, Create(c) PROVE Ownership!NextAssignment
    <2>1. box[c] = "none" /\ box' = [box EXCEPT ![c] = c] /\ c \in Boxes
      BY <1>0, <1>2 DEF Create, Boxes
    <2>2. claim[c].ann = "none"
      BY <1>2 DEF Create, Owned
    <2>3. \A t \in Boxes : box[t] # c
      BY <2>1, <2>2, ClaimAdoptionAssumption DEF Owned, Boxes
    <2>4. Ownership!CreateCold(c)
      BY <1>0, <2>1, <2>3 DEF Ownership!CreateCold, Ownership!HeldBy
    <2> QED
      BY <2>4 DEF Ownership!NextAssignment
  <1>3. ASSUME NEW s \in Boxes, box' = [box EXCEPT ![s] = "none"] PROVE Ownership!NextAssignment
    <2>1. Ownership!Release(s)
      BY <1>0, <1>3 DEF Ownership!Release
    <2> QED
      BY <1>0, <2>1 DEF Ownership!NextAssignment
  <1>4. ASSUME NEW c \in Claims, ReconcileExpired(c) PROVE Ownership!NextAssignment
    <2> DEFINE s == IF wk[c].view.status # "none" THEN wk[c].view.status ELSE c
    <2>1. s \in Boxes /\ box' = [box EXCEPT ![s] = "none"]
      BY <1>4 DEF ReconcileExpired, TypeInv, TypeOK, WorkerRecords, ClaimRecords, Boxes
    <2> QED
      BY <1>3, <2>1
  <1>5. ASSUME NEW c \in Claims, Collect(c) PROVE Ownership!NextAssignment
    <2>1. Ownership!Collect(c)
      BY <1>0, <1>5 DEF Collect, Ownership!Collect, Ownership!HeldBy
    <2> QED
      BY <2>1 DEF Ownership!NextAssignment
  <1>6. ASSUME NEW s \in Boxes, DeleteBox(s) PROVE Ownership!NextAssignment
    BY <1>3, <1>6 DEF DeleteBox
  <1>7. ASSUME NEW c \in Claims, Work(c) PROVE Complete(c) \/ Resolve(c) \/ Create(c) \/ ReconcileExpired(c)
    BY <1>7 DEF Work, Start, Lookup, Unref, ByName, PopKey, QueueEmpty, Assign, Reassign,
       Clear, Confirm, Publish, MarkExpired
  <1> QED
    BY <1>1, <1>2, <1>4, <1>5, <1>6, <1>7 DEF Next, Deliver, Others, DeliverClaim, DeliverBox,
       Crash, DeleteClaim, GrowOld, Expire, Network

\* The initial owners are those of ClaimAssignment.
LEMMA OwnedInit == Init => Ownership!InitAssignment
  BY DEF Init, Ownership!InitAssignment, Ownership!Boxes, Boxes

\* The ledger says it.
LEMMA LedgerOwned == Inv => TypeInv /\ Owned
  BY DEF Inv, Ledger, LedgerOf, Owned

\* A claim never has two Sandboxes when every pass begins with current caches, whatever else
\* fails: the warm ones it owns are the one it refers to, and the cold one goes with none.
THEOREM OneSandbox == ASSUME Lag = {} PROVE Spec => []OneSandboxPerClaim
  BY InvAlways, LedgerOwned, OwnedOne, PTL

\* The adoption implements ClaimAssignment, with the owner of a Sandbox as its holder:
\* completeAdoption and its resolution adopt for a claim that holds nothing, createSandbox
\* makes a cold one for such a claim, deletions release, the collector collects, and every
\* other step leaves the owners alone.
THEOREM Implements == ASSUME Lag = {} PROVE Spec => ImplementsAssignment
  BY OwnedInit, OwnedStep, LedgerOwned, InvAlways, PTL
  DEF Spec, ImplementsAssignment, Ownership!Assignment

-----------------------------------------------------------------------------
\* The keys of the warm Sandboxes. A worker holds the keys it keeps while it picks, and its
\* candidate once popped.
HeldBy(c, s) == s \in Kept(wk[c]) \/ (wk[c].popped /\ wk[c].cand = s)

\* Where the key of a Sandbox of the pool is. After conflicts only the reference keeps it.
Found(s) ==
    \/ s \in queue
    \/ \E c \in Claims : HeldBy(c, s)
    \/ "busy" \in Faults /\ \E c \in Claims : claim[c].ann = s

KeysOf(c) ==
    /\ wk[c].pc # "pick" => wk[c].skip = {} /\ wk[c].fall = "none"
    /\ wk[c].pc \in {"assign", "reassign"} => wk[c].popped
    /\ wk[c].pc \notin {"assign", "reassign", "complete", "resolve", "clear", "publish"} => ~wk[c].popped
    /\ wk[c].pc = "publish" /\ wk[c].popped => box[wk[c].cand] # "pool"
    /\ wk[c].pc = "clear" => box[wk[c].cand] # "pool"
    /\ "busy" \notin Faults /\ wk[c].pc = "resolve" => box[wk[c].cand] # "pool"
    /\ "busy" \in Faults /\ wk[c].pc = "unref" =>
         wk[c].view.ann \in Warm /\ box[wk[c].view.ann] # "pool"
    /\ "busy" \in Faults => claim[c].live

Keys ==
    /\ \A c \in Claims : KeysOf(c)
    /\ \A s \in Boxes : box[s] = "pool" => seenBox[s] = "pool"
    /\ \A s \in Warm \ Stale : box[s] = "pool" => Found(s)

\* There are no conflicts, or no claim is deleted.
Kind == "busy" \notin Faults \/ "drop" \notin Faults

\* What the keys need of the references when there are conflicts.
Refs ==
    \A c \in Claims :
        /\ wk[c].pc = "assign" => wk[c].view.ann = "none"
        /\ wk[c].pc = "resolve" => claim[c].ann = wk[c].cand
        /\ wk[c].pc = "unref" => claim[c].ann = wk[c].view.ann \/ ~claim[c].live

KeyInv == TypeInv /\ Keys /\ ("busy" \in Faults => Refs)

\* What a step of the worker of c does with the keys: each stays in the queue, passes to or
\* from the worker's hand, or stays with the reference of the claim.
Carries(c) ==
    \A s \in Warm \ Stale : box'[s] = "pool" =>
        /\ s \in queue => s \in queue' \/ HeldBy(c, s)'
        /\ HeldBy(c, s) =>
             s \in queue' \/ HeldBy(c, s)' \/ ("busy" \in Faults /\ claim'[c].ann = s)
        /\ "busy" \in Faults /\ claim[c].ann = s => claim'[c].ann = s

\* No Sandbox returns to the pool.
LEMMA NoReturn ==
    ASSUME TypeInv, [Next]_vars, NEW s \in Boxes, box'[s] = "pool"
    PROVE  box[s] = "pool"
  <1>1. ASSUME NEW c \in Claims, Work(c) PROVE box[s] = "pool"
    BY <1>1, WorkFrame, ClaimAdoptionAssumption
  <1>2. CASE Deliver \/ Others
    BY <1>2 DEF TypeInv, TypeOK, Deliver, Others, DeliverClaim, DeliverBox, Crash, DeleteClaim,
       Collect, GrowOld, Expire, Network, DeleteBox
  <1> QED
    BY <1>1, <1>2 DEF Next, vars

\* What holds of a worker's keys stays when the worker and the life of its claim stay.
LEMMA KeysFrame ==
    ASSUME TypeInv, [Next]_vars, NEW d \in Claims, KeysOf(d), UNCHANGED wk[d],
           claim'[d].live = claim[d].live
    PROVE  KeysOf(d)'
  <1>1. \A s \in Boxes : box'[s] = "pool" => box[s] = "pool"
    BY NoReturn
  <1>2. /\ wk[d].pc \in {"resolve", "clear", "publish"} => wk[d].cand \in Boxes
        /\ Warm \subseteq Boxes
    BY DEF TypeInv, Hands, HandOf, Boxes
  <1> QED
    BY <1>1, <1>2 DEF KeysOf

\* An idle worker has no keys.
LEMMA IdleKeys ==
    ASSUME TypeInv, NEW d \in Claims, KeysOf(d), wk'[d] = Idle, claim'[d].live = claim[d].live
    PROVE  KeysOf(d)'
  BY DEF KeysOf, Idle

\* A worker's step that keeps its own keys keeps those of the others.
LEMMA KeyStep ==
    ASSUME KeyInv, NEW c \in Claims, Work(c), KeysOf(c)', Carries(c)
    PROVE  Keys'
  <1>1. TypeInv /\ Keys /\ [Next]_vars
    BY DEF KeyInv, Next
  <1>2. /\ UNCHANGED seenBox
        /\ \A d \in Claims \ {c} : UNCHANGED <<wk[d], claim[d]>>
    BY <1>1, WorkFrame
  <1>3. ASSUME NEW d \in Claims PROVE KeysOf(d)'
    BY <1>1, <1>2, KeysFrame DEF Keys
  <1>4. ASSUME NEW s \in Boxes, box'[s] = "pool" PROVE seenBox'[s] = "pool"
    BY <1>1, <1>2, <1>4, NoReturn DEF Keys
  <1>5. ASSUME NEW s \in Warm \ Stale, box'[s] = "pool" PROVE Found(s)'
    <2>1. Found(s)
      BY <1>1, <1>5, NoReturn DEF Keys, Boxes
    <2>2. \A d \in Claims \ {c} : HeldBy(d, s) => HeldBy(d, s)'
      BY <1>2 DEF HeldBy
    <2> QED
      BY <1>2, <1>5, <2>1, <2>2 DEF Found, Carries
  <1> QED
    BY <1>3, <1>4, <1>5 DEF Keys

\* The worker of a claim does not delete it.
LEMMA LiveStays ==
    ASSUME TypeInv, NEW c \in Claims, Work(c)
    PROVE  claim'[c].live = claim[c].live
  <1>1. claim \in [Claims -> ClaimRecords] /\ claim[c] \in ClaimRecords
    BY DEF TypeInv, TypeOK
  <1>2. ASSUME NEW a, claim' = [claim EXCEPT ![c].ann = a] PROVE claim'[c].live = claim[c].live
    BY <1>1, <1>2 DEF ClaimRecords
  <1>3. ASSUME NEW t, NEW up, NEW exp, UpdateStatus(c, t, up, exp)
        PROVE  claim'[c].live = claim[c].live
    <2>1. CASE claim' = [claim EXCEPT ![c].status = t, ![c].up = up, ![c].exp = exp]
      BY <1>1, <2>1 DEF ClaimRecords
    <2> QED
      BY <1>3, <2>1 DEF UpdateStatus
  <1>4. CASE UNCHANGED claim
    BY <1>4
  <1> QED
    BY <1>2, <1>3, <1>4 DEF Work, Start, Lookup, Unref, ByName, PopKey, QueueEmpty, Assign,
       Reassign, Complete, Resolve, Clear, Confirm, Create, Publish, MarkExpired, ReconcileExpired

\* At these points a worker has no keys.
Bare == {"idle", "lookup", "unref", "byname", "confirm", "create", "mark", "expire"}

\* So it loses none when it leaves the queue alone.
LEMMA BareCarries ==
    ASSUME NEW c \in Claims, KeysOf(c), wk[c].pc \in Bare, UNCHANGED queue,
           \A s \in Warm : "busy" \in Faults /\ box'[s] = "pool" /\ claim[c].ann = s =>
               claim'[c].ann = s
    PROVE  Carries(c)
  <1>1. \A s \in Warm : ~HeldBy(c, s)
    BY ClaimAdoptionAssumption DEF KeysOf, HeldBy, Kept, Bare
  <1> QED
    BY <1>1 DEF Carries

\* A pass begins with no keys.
LEMMA StartKeys ==
    ASSUME KeyInv, NEW c \in Claims, Start(c)
    PROVE  KeysOf(c)' /\ Carries(c)
  <1> DEFINE w == wk[c]
  <1>0. /\ w \in WorkerRecords /\ HandOf(w) /\ KeysOf(c) /\ TypeInv
        /\ wk \in [Claims -> WorkerRecords] /\ claim'[c].live = claim[c].live
    <2>1. Work(c)
      BY DEF Work
    <2> QED
      BY <2>1, LiveStays DEF KeyInv, TypeInv, TypeOK, Hands, Keys
  <1>1. Carries(c)
    BY <1>0, BareCarries DEF Start, Bare
  <1>2. CASE ~seenClaim[c].live
    BY <1>0, <1>1, <1>2 DEF Start, KeysOf
  <1>3. CASE seenClaim[c].live
    <2> DEFINE r == [Idle EXCEPT !.view = seenClaim[c],
                                !.pc = IF c \notin expired THEN "lookup"
                                       ELSE IF seenClaim[c].exp THEN "expire" ELSE "mark"]
    <2>1. /\ r.pc \in {"lookup", "mark", "expire"} /\ r.skip = {} /\ r.fall = "none"
          /\ ~r.popped
      BY DEF Idle
    <2>2. wk'[c] = r
      BY <1>0, <1>3 DEF Start
    <2> HIDE DEF r
    <2> QED
      BY <1>0, <1>1, <2>1, <2>2 DEF KeysOf
  <1> QED
    BY <1>2, <1>3

\* The lookup takes none; a reference it gives up is not to a Sandbox of the pool.
LEMMA LookupKeys ==
    ASSUME KeyInv, NEW c \in Claims, Lookup(c)
    PROVE  KeysOf(c)' /\ Carries(c)
  <1> DEFINE w == wk[c]
  <1>0. /\ w \in WorkerRecords /\ HandOf(w) /\ KeysOf(c) /\ TypeInv
        /\ wk \in [Claims -> WorkerRecords] /\ claim'[c].live = claim[c].live
    <2>1. Work(c)
      BY DEF Work
    <2> QED
      BY <2>1, LiveStays DEF KeyInv, TypeInv, TypeOK, Hands, Keys
  <1>1. Carries(c) /\ w.pc = "lookup" /\ UNCHANGED <<claim, box>>
    BY <1>0, BareCarries DEF Lookup, Bare
  <1>2. ASSUME NEW s, wk'[c] = [w EXCEPT !.pc = "publish", !.cand = s] PROVE KeysOf(c)'
    <2>1. /\ wk'[c].pc = "publish" /\ wk'[c].skip = {} /\ wk'[c].fall = "none"
          /\ ~wk'[c].popped
      BY <1>0, <1>1, <1>2 DEF WorkerRecords, KeysOf
    <2> QED
      BY <1>0, <1>1, <1>2, <2>1 DEF KeysOf
  <1>3. CASE wk'[c] = [w EXCEPT !.pc = "byname"]
    <2>1. /\ wk'[c].pc = "byname" /\ wk'[c].skip = {} /\ wk'[c].fall = "none"
          /\ ~wk'[c].popped
      BY <1>0, <1>1, <1>3 DEF WorkerRecords, KeysOf
    <2> QED
      BY <1>0, <1>1, <1>3, <2>1 DEF KeysOf
  <1>4. CASE wk'[c] = [w EXCEPT !.pc = "complete", !.cand = w.view.ann]
    <2>1. /\ wk'[c].pc = "complete" /\ wk'[c].skip = {} /\ wk'[c].fall = "none"
          /\ ~wk'[c].popped
      BY <1>0, <1>1, <1>4 DEF WorkerRecords, KeysOf
    <2> QED
      BY <1>0, <1>1, <1>4, <2>1 DEF KeysOf
  <1>5. CASE wk'[c] = [w EXCEPT !.pc = "unref"] /\ w.view.ann # "none" /\ seenBox[w.view.ann] # "pool"
    <2>0. w.view.ann \in Warm /\ box[w.view.ann] # "pool"
      BY <1>0, <1>5 DEF WorkerRecords, ClaimRecords, KeyInv, Keys, Boxes
    <2>1. /\ wk'[c].pc = "unref" /\ wk'[c].skip = {} /\ wk'[c].fall = "none"
          /\ ~wk'[c].popped /\ wk'[c].view = w.view
      BY <1>0, <1>1, <1>5 DEF WorkerRecords, KeysOf
    <2> QED
      BY <1>0, <1>1, <1>5, <2>1, <2>0 DEF KeysOf
  <1> QED
    BY <1>0, <1>1, <1>2, <1>3, <1>4, <1>5 DEF Lookup, Goto, Refers

\* The reference removed is not to a Sandbox of the pool.
LEMMA UnrefKeys ==
    ASSUME KeyInv, NEW c \in Claims, Unref(c)
    PROVE  KeysOf(c)' /\ Carries(c)
  <1> DEFINE w == wk[c]
  <1>0. /\ w \in WorkerRecords /\ HandOf(w) /\ KeysOf(c) /\ TypeInv
        /\ wk \in [Claims -> WorkerRecords] /\ claim'[c].live = claim[c].live
    <2>1. Work(c)
      BY DEF Work
    <2> QED
      BY <2>1, LiveStays DEF KeyInv, TypeInv, TypeOK, Hands, Keys
  <1>1. w.pc = "unref" /\ UNCHANGED <<box, queue>>
    BY DEF Unref
  <1>2. \A s \in Warm : "busy" \in Faults /\ box'[s] = "pool" => claim[c].ann # s
    BY <1>0, <1>1 DEF KeysOf, KeyInv, Refs
  <1>3. Carries(c)
    BY <1>0, <1>1, <1>2, BareCarries DEF Bare
  <1>4. CASE Retry(c)
    BY <1>0, <1>3, <1>4, IdleKeys DEF Retry
  <1>5. ASSUME NEW v, wk'[c] = [w EXCEPT !.pc = "byname", !.view = v] PROVE KeysOf(c)'
    <2>1. /\ wk'[c].pc = "byname" /\ wk'[c].skip = {} /\ wk'[c].fall = "none"
          /\ ~wk'[c].popped
      BY <1>0, <1>1, <1>5 DEF WorkerRecords, KeysOf
    <2> QED
      BY <1>0, <1>1, <1>5, <2>1 DEF KeysOf
  <1> QED
    BY <1>0, <1>3, <1>4, <1>5 DEF Unref, Goto

\* The Sandbox of the claim's name is no warm one.
LEMMA ByNameKeys ==
    ASSUME KeyInv, NEW c \in Claims, ByName(c)
    PROVE  KeysOf(c)' /\ Carries(c)
  <1> DEFINE w == wk[c]
  <1>0. /\ w \in WorkerRecords /\ HandOf(w) /\ KeysOf(c) /\ TypeInv
        /\ wk \in [Claims -> WorkerRecords] /\ claim'[c].live = claim[c].live
    <2>1. Work(c)
      BY DEF Work
    <2> QED
      BY <2>1, LiveStays DEF KeyInv, TypeInv, TypeOK, Hands, Keys
  <1>1. Carries(c) /\ w.pc = "byname"
    BY <1>0, BareCarries DEF ByName, Bare
  <1>2. CASE Retry(c)
    BY <1>0, <1>1, <1>2, IdleKeys DEF Retry
  <1>3. CASE wk'[c] = [w EXCEPT !.pc = "publish", !.cand = c]
    <2>1. /\ wk'[c].pc = "publish" /\ wk'[c].skip = {} /\ wk'[c].fall = "none"
          /\ ~wk'[c].popped
      BY <1>0, <1>1, <1>3 DEF WorkerRecords, KeysOf
    <2> QED
      BY <1>0, <1>1, <1>3, <2>1 DEF KeysOf
  <1>4. CASE wk'[c] = [w EXCEPT !.pc = "create"]
    <2>1. /\ wk'[c].pc = "create" /\ wk'[c].skip = {} /\ wk'[c].fall = "none"
          /\ ~wk'[c].popped
      BY <1>0, <1>1, <1>4 DEF WorkerRecords, KeysOf
    <2> QED
      BY <1>0, <1>1, <1>4, <2>1 DEF KeysOf
  <1>5. CASE wk'[c] = [w EXCEPT !.pc = "pick"]
    <2>1. /\ wk'[c].pc = "pick" /\ wk'[c].skip = {} /\ wk'[c].fall = "none"
          /\ ~wk'[c].popped
      BY <1>0, <1>1, <1>5 DEF WorkerRecords, KeysOf
    <2> QED
      BY <1>0, <1>1, <1>5, <2>1 DEF KeysOf
  <1> QED
    BY <1>0, <1>1, <1>2, <1>3, <1>4, <1>5 DEF ByName, Goto

\* A key popped is in the hand; one of a Sandbox that left the pool, or is stale, is dropped.
LEMMA PopKeyKeys ==
    ASSUME KeyInv, NEW c \in Claims, PopKey(c)
    PROVE  KeysOf(c)' /\ Carries(c)
  <1> DEFINE w == wk[c]
  <1>0. /\ w \in WorkerRecords /\ HandOf(w) /\ KeysOf(c) /\ TypeInv
        /\ wk \in [Claims -> WorkerRecords] /\ claim'[c].live = claim[c].live
    <2>1. Work(c)
      BY DEF Work
    <2> QED
      BY <2>1, LiveStays DEF KeyInv, TypeInv, TypeOK, Hands, Keys
  <1>1. w.pc = "pick" /\ UNCHANGED <<claim, box, seenBox>> /\ ~w.popped
    BY <1>0 DEF PopKey, World, KeysOf
  <1>2. PICK s \in queue :
           \/ (seenBox[s] # "pool" \/ s \in Stale) /\ queue' = queue \ {s} /\ UNCHANGED wk
           \/ /\ queue' = (queue \ {s}) \cup Kept(w)
              /\ wk'[c] = [w EXCEPT !.pc = "assign", !.cand = s, !.popped = TRUE,
                                    !.skip = {}, !.fall = "none"]
           \/ queue' = queue \ {s} /\ wk'[c] = [w EXCEPT !.fall = s] /\ w.fall = "none"
           \/ queue' = queue \ {s} /\ wk'[c] = [w EXCEPT !.skip = @ \cup {s}]
    BY <1>0 DEF PopKey, Goto
  <1>3. s \in Warm /\ s # "none"
    BY <1>0, ClaimAdoptionAssumption DEF TypeInv, TypeOK
  <1>4. CASE (seenBox[s] # "pool" \/ s \in Stale) /\ queue' = queue \ {s} /\ UNCHANGED wk
    <2>1. KeysOf(c)'
      BY <1>0, <1>1, <1>4 DEF KeysOf
    <2>2. s \in Warm \ Stale => box[s] # "pool"
      BY <1>3, <1>4 DEF KeyInv, Keys, Boxes
    <2> QED
      BY <1>1, <1>4, <2>1, <2>2 DEF Carries, HeldBy
  <1>5. CASE /\ queue' = (queue \ {s}) \cup Kept(w)
             /\ wk'[c] = [w EXCEPT !.pc = "assign", !.cand = s, !.popped = TRUE,
                                   !.skip = {}, !.fall = "none"]
    <2>1. /\ wk'[c].pc = "assign" /\ wk'[c].cand = s /\ wk'[c].popped
          /\ wk'[c].skip = {} /\ wk'[c].fall = "none"
      BY <1>0, <1>5 DEF WorkerRecords
    <2> QED
      BY <1>0, <1>1, <1>5, <2>1 DEF KeysOf, Carries, HeldBy
  <1>6. CASE queue' = queue \ {s} /\ wk'[c] = [w EXCEPT !.fall = s] /\ w.fall = "none"
    <2>1. /\ wk'[c].pc = "pick" /\ ~wk'[c].popped
          /\ wk'[c].skip = w.skip /\ wk'[c].fall = s
      BY <1>0, <1>1, <1>6 DEF WorkerRecords
    <2> QED
      BY <1>0, <1>1, <1>3, <1>6, <2>1 DEF KeysOf, Carries, HeldBy, Kept
  <1>7. CASE queue' = queue \ {s} /\ wk'[c] = [w EXCEPT !.skip = @ \cup {s}]
    <2>1. /\ wk'[c].pc = "pick" /\ ~wk'[c].popped
          /\ wk'[c].skip = w.skip \cup {s} /\ wk'[c].fall = w.fall
      BY <1>0, <1>1, <1>7 DEF WorkerRecords
    <2> QED
      BY <1>0, <1>1, <1>3, <1>7, <2>1 DEF KeysOf, Carries, HeldBy, Kept
  <1> QED
    BY <1>2, <1>4, <1>5, <1>6, <1>7

\* At the end of the queue the kept keys go back, and the fallback is the candidate.
LEMMA QueueEmptyKeys ==
    ASSUME KeyInv, NEW c \in Claims, QueueEmpty(c)
    PROVE  KeysOf(c)' /\ Carries(c)
  <1> DEFINE w == wk[c]
  <1>0. /\ w \in WorkerRecords /\ HandOf(w) /\ KeysOf(c) /\ TypeInv
        /\ wk \in [Claims -> WorkerRecords] /\ claim'[c].live = claim[c].live
    <2>1. Work(c)
      BY DEF Work
    <2> QED
      BY <2>1, LiveStays DEF KeyInv, TypeInv, TypeOK, Hands, Keys
  <1>1. /\ w.pc = "pick" /\ UNCHANGED <<claim, box>> /\ ~w.popped
        /\ queue = {} /\ queue' = w.skip
    BY <1>0 DEF QueueEmpty, KeysOf
  <1>2. CASE wk'[c] = [w EXCEPT !.pc = "assign", !.cand = w.fall, !.popped = TRUE,
                                !.skip = {}, !.fall = "none"]
    <2>1. /\ wk'[c].pc = "assign" /\ wk'[c].cand = w.fall /\ wk'[c].popped
          /\ wk'[c].skip = {} /\ wk'[c].fall = "none"
      BY <1>0, <1>2 DEF WorkerRecords
    <2> QED
      BY <1>0, <1>1, <2>1 DEF KeysOf, Carries, HeldBy, Kept
  <1>3. CASE Retry(c) /\ w.fall = "none"
    <2>1. KeysOf(c)'
      BY <1>0, <1>3, IdleKeys DEF Retry
    <2> QED
      BY <1>1, <1>3, <2>1 DEF Carries, HeldBy, Kept
  <1>4. CASE wk'[c] = [w EXCEPT !.pc = "confirm", !.skip = {}] /\ w.fall = "none"
    <2>1. /\ wk'[c].pc = "confirm" /\ ~wk'[c].popped
          /\ wk'[c].skip = {} /\ wk'[c].fall = "none"
      BY <1>0, <1>1, <1>4 DEF WorkerRecords
    <2> QED
      BY <1>0, <1>1, <1>4, <2>1 DEF KeysOf, Carries, HeldBy, Kept
  <1> QED
    BY <1>0, <1>2, <1>3, <1>4 DEF QueueEmpty, Goto

\* The candidate stays in the hand, or its key goes back.
LEMMA AssignKeys ==
    ASSUME KeyInv, NEW c \in Claims, Assign(c)
    PROVE  KeysOf(c)' /\ Carries(c)
  <1> DEFINE w == wk[c]
  <1>0. /\ w \in WorkerRecords /\ HandOf(w) /\ KeysOf(c) /\ TypeInv
        /\ wk \in [Claims -> WorkerRecords] /\ claim'[c].live = claim[c].live
    <2>1. Work(c)
      BY DEF Work
    <2> QED
      BY <2>1, LiveStays DEF KeyInv, TypeInv, TypeOK, Hands, Keys
  <1>1. w.pc = "assign" /\ w.popped /\ w.skip = {} /\ w.fall = "none" /\ UNCHANGED box
    BY <1>0 DEF Assign, KeysOf
  <1>2. ASSUME NEW v, wk'[c] = [w EXCEPT !.pc = "complete", !.view = v], UNCHANGED queue,
               "busy" \in Faults => claim[c].ann \in {"none", w.cand},
               claim' = [claim EXCEPT ![c].ann = w.cand]
        PROVE  KeysOf(c)' /\ Carries(c)
    <2>1. /\ wk'[c].pc = "complete" /\ wk'[c].cand = w.cand /\ wk'[c].popped
          /\ wk'[c].skip = {} /\ wk'[c].fall = "none"
      BY <1>0, <1>1, <1>2 DEF WorkerRecords
    <2>2. claim'[c].ann = w.cand
      BY <1>0, <1>2 DEF TypeInv, TypeOK, ClaimRecords
    <2>3. \A s \in Warm : "busy" \in Faults /\ claim[c].ann = s => claim'[c].ann = s
      BY <1>2, <2>2, ClaimAdoptionAssumption
    <2> QED
      BY <1>0, <1>1, <1>2, <2>1, <2>3 DEF KeysOf, Carries, HeldBy, Kept
  <1>3. CASE PutBack(c) /\ Retry(c) /\ UNCHANGED claim
    <2>1. KeysOf(c)'
      BY <1>0, <1>3, IdleKeys DEF Retry
    <2> QED
      BY <1>1, <1>3, <2>1 DEF PutBack, Carries, HeldBy, Kept
  <1>4. CASE wk'[c] = [w EXCEPT !.pc = "reassign"] /\ UNCHANGED <<claim, queue>>
    <2>1. /\ wk'[c].pc = "reassign" /\ wk'[c].cand = w.cand /\ wk'[c].popped
          /\ wk'[c].skip = {} /\ wk'[c].fall = "none"
      BY <1>0, <1>1, <1>4 DEF WorkerRecords
    <2> QED
      BY <1>0, <1>1, <1>4, <2>1 DEF KeysOf, Carries, HeldBy, Kept
  <1>5. "busy" \in Faults => w.view.ann = "none"
    BY <1>1 DEF KeyInv, Refs
  <1> QED
    BY <1>0, <1>2, <1>3, <1>4, <1>5 DEF Assign, Goto

\* So on a fresh base.
LEMMA ReassignKeys ==
    ASSUME KeyInv, NEW c \in Claims, Reassign(c)
    PROVE  KeysOf(c)' /\ Carries(c)
  <1> DEFINE w == wk[c]
  <1>0. /\ w \in WorkerRecords /\ HandOf(w) /\ KeysOf(c) /\ TypeInv
        /\ wk \in [Claims -> WorkerRecords] /\ claim'[c].live = claim[c].live
    <2>1. Work(c)
      BY DEF Work
    <2> QED
      BY <2>1, LiveStays DEF KeyInv, TypeInv, TypeOK, Hands, Keys
  <1>1. w.pc = "reassign" /\ w.popped /\ w.skip = {} /\ w.fall = "none" /\ UNCHANGED box
    BY <1>0 DEF Reassign, KeysOf
  <1>2. ASSUME NEW v, wk'[c] = [w EXCEPT !.pc = "complete", !.view = v], UNCHANGED queue,
               "busy" \in Faults => claim[c].ann \in {"none", w.cand},
               claim' = [claim EXCEPT ![c].ann = w.cand]
        PROVE  KeysOf(c)' /\ Carries(c)
    <2>1. /\ wk'[c].pc = "complete" /\ wk'[c].cand = w.cand /\ wk'[c].popped
          /\ wk'[c].skip = {} /\ wk'[c].fall = "none"
      BY <1>0, <1>1, <1>2 DEF WorkerRecords
    <2>2. claim'[c].ann = w.cand
      BY <1>0, <1>2 DEF TypeInv, TypeOK, ClaimRecords
    <2>3. \A s \in Warm : "busy" \in Faults /\ claim[c].ann = s => claim'[c].ann = s
      BY <1>2, <2>2, ClaimAdoptionAssumption
    <2> QED
      BY <1>0, <1>1, <1>2, <2>1, <2>3 DEF KeysOf, Carries, HeldBy, Kept
  <1>3. CASE PutBack(c) /\ Retry(c) /\ UNCHANGED claim
    <2>1. KeysOf(c)'
      BY <1>0, <1>3, IdleKeys DEF Retry
    <2> QED
      BY <1>1, <1>3, <2>1 DEF PutBack, Carries, HeldBy, Kept
  <1> QED
    BY <1>0, <1>2, <1>3 DEF Reassign, Goto

\* A Sandbox taken over has left the pool; a failed request puts its key back.
LEMMA CompleteKeys ==
    ASSUME KeyInv, NEW c \in Claims, Complete(c)
    PROVE  KeysOf(c)' /\ Carries(c)
  <1> DEFINE w == wk[c]
  <1>0. /\ w \in WorkerRecords /\ HandOf(w) /\ KeysOf(c) /\ TypeInv
        /\ wk \in [Claims -> WorkerRecords] /\ claim'[c].live = claim[c].live
    <2>1. Work(c)
      BY DEF Work
    <2> QED
      BY <2>1, LiveStays DEF KeyInv, TypeInv, TypeOK, Hands, Keys
  <1>1. w.pc = "complete" /\ w.skip = {} /\ w.fall = "none" /\ UNCHANGED claim /\ w.cand \in Boxes
    BY <1>0 DEF Complete, KeysOf, HandOf, Boxes
  <1>2. CASE box' = [box EXCEPT ![w.cand] = c] /\ wk'[c] = [w EXCEPT !.pc = "publish"] /\ UNCHANGED queue
    <2>1. /\ wk'[c].pc = "publish" /\ wk'[c].cand = w.cand /\ wk'[c].popped = w.popped
          /\ wk'[c].skip = {} /\ wk'[c].fall = "none"
      BY <1>0, <1>1, <1>2 DEF WorkerRecords
    <2>2. box'[w.cand] # "pool"
      BY <1>0, <1>1, <1>2, ClaimAdoptionAssumption DEF TypeInv, TypeOK
    <2> QED
      BY <1>0, <1>1, <1>2, <2>1, <2>2 DEF KeysOf, Carries, HeldBy, Kept
  <1>3. CASE /\ UNCHANGED <<box, queue>> /\ wk'[c] = [w EXCEPT !.pc = "resolve"]
             /\ box[w.cand] = "pool" => "busy" \in Faults
    <2>1. /\ wk'[c].pc = "resolve" /\ wk'[c].cand = w.cand /\ wk'[c].popped = w.popped
          /\ wk'[c].skip = {} /\ wk'[c].fall = "none"
      BY <1>0, <1>1, <1>3 DEF WorkerRecords
    <2> QED
      BY <1>0, <1>1, <1>3, <2>1 DEF KeysOf, Carries, HeldBy, Kept
  <1>4. CASE PutBack(c) /\ Retry(c) /\ UNCHANGED box
    <2>1. KeysOf(c)'
      BY <1>0, <1>4, IdleKeys DEF Retry
    <2> QED
      BY <1>1, <1>4, <2>1 DEF PutBack, Carries, HeldBy, Kept
  <1> QED
    BY <1>0, <1>2, <1>3, <1>4 DEF Complete, Goto, Fault

\* A contended Sandbox of the pool is left to the reference of its claim.
LEMMA ResolveKeys ==
    ASSUME KeyInv, NEW c \in Claims, Resolve(c)
    PROVE  KeysOf(c)' /\ Carries(c)
  <1> DEFINE w == wk[c]
  <1>0. /\ w \in WorkerRecords /\ HandOf(w) /\ KeysOf(c) /\ TypeInv
        /\ wk \in [Claims -> WorkerRecords] /\ claim'[c].live = claim[c].live
    <2>1. Work(c)
      BY DEF Work
    <2> QED
      BY <2>1, LiveStays DEF KeyInv, TypeInv, TypeOK, Hands, Keys
  <1>1. w.pc = "resolve" /\ w.skip = {} /\ w.fall = "none" /\ UNCHANGED claim /\ w.cand \in Boxes
    BY <1>0 DEF Resolve, KeysOf, HandOf, Boxes
  <1>2. CASE box' = [box EXCEPT ![w.cand] = c] /\ wk'[c] = [w EXCEPT !.pc = "publish"] /\ UNCHANGED queue
    <2>1. /\ wk'[c].pc = "publish" /\ wk'[c].cand = w.cand /\ wk'[c].popped = w.popped
          /\ wk'[c].skip = {} /\ wk'[c].fall = "none"
      BY <1>0, <1>1, <1>2 DEF WorkerRecords
    <2>2. box'[w.cand] # "pool"
      BY <1>0, <1>1, <1>2, ClaimAdoptionAssumption DEF TypeInv, TypeOK
    <2> QED
      BY <1>0, <1>1, <1>2, <2>1, <2>2 DEF KeysOf, Carries, HeldBy, Kept
  <1>3. CASE /\ UNCHANGED <<box, queue>> /\ wk'[c] = [w EXCEPT !.pc = "clear"]
             /\ box[w.cand] # "pool"
    <2>1. /\ wk'[c].pc = "clear" /\ wk'[c].cand = w.cand /\ wk'[c].popped = w.popped
          /\ wk'[c].skip = {} /\ wk'[c].fall = "none"
      BY <1>0, <1>1, <1>3 DEF WorkerRecords
    <2> QED
      BY <1>0, <1>1, <1>3, <2>1 DEF KeysOf, Carries, HeldBy, Kept
  <1>4. CASE "busy" \in Faults /\ Retry(c) /\ UNCHANGED <<box, queue>>
    <2>1. KeysOf(c)'
      BY <1>0, <1>4, IdleKeys DEF Retry
    <2>2. claim[c].ann = w.cand
      BY <1>1, <1>4 DEF KeyInv, Refs
    <2> QED
      BY <1>1, <1>4, <2>1, <2>2 DEF Carries, HeldBy, Kept
  <1> QED
    BY <1>0, <1>2, <1>3, <1>4 DEF Resolve, Goto, Fault

\* The reference removed is to a Sandbox that left the pool.
LEMMA ClearKeys ==
    ASSUME KeyInv, NEW c \in Claims, Clear(c)
    PROVE  KeysOf(c)' /\ Carries(c)
  <1> DEFINE w == wk[c]
  <1>0. /\ w \in WorkerRecords /\ HandOf(w) /\ KeysOf(c) /\ TypeInv
        /\ wk \in [Claims -> WorkerRecords] /\ claim'[c].live = claim[c].live
    <2>1. Work(c)
      BY DEF Work
    <2> QED
      BY <2>1, LiveStays DEF KeyInv, TypeInv, TypeOK, Hands, Keys
  <1>1. /\ w.pc = "clear" /\ w.skip = {} /\ w.fall = "none" /\ UNCHANGED <<box, queue>>
        /\ box[w.cand] # "pool"
    BY <1>0 DEF Clear, KeysOf
  <1>2. KeysOf(c)'
    BY <1>0, IdleKeys DEF Clear, Retry
  <1>3. claim'[c].ann = claim[c].ann \/ claim[c].ann = w.cand
    BY DEF Clear
  <1> QED
    BY <1>1, <1>2, <1>3 DEF Carries, HeldBy, Kept

\* The cold path has no keys.
LEMMA ConfirmKeys ==
    ASSUME KeyInv, NEW c \in Claims, Confirm(c)
    PROVE  KeysOf(c)' /\ Carries(c)
  <1> DEFINE w == wk[c]
  <1>0. /\ w \in WorkerRecords /\ HandOf(w) /\ KeysOf(c) /\ TypeInv
        /\ wk \in [Claims -> WorkerRecords] /\ claim'[c].live = claim[c].live
    <2>1. Work(c)
      BY DEF Work
    <2> QED
      BY <2>1, LiveStays DEF KeyInv, TypeInv, TypeOK, Hands, Keys
  <1>1. Carries(c) /\ w.pc = "confirm"
    BY <1>0, BareCarries DEF Confirm, Bare
  <1>2. CASE Retry(c) \/ Finish(c)
    BY <1>0, <1>1, <1>2, IdleKeys DEF Retry, Finish
  <1>3. CASE wk'[c] = [w EXCEPT !.pc = "create"]
    <2>1. /\ wk'[c].pc = "create" /\ wk'[c].skip = {} /\ wk'[c].fall = "none"
          /\ ~wk'[c].popped
      BY <1>0, <1>1, <1>3 DEF WorkerRecords, KeysOf
    <2> QED
      BY <1>0, <1>1, <1>3, <2>1 DEF KeysOf
  <1> QED
    BY <1>0, <1>1, <1>2, <1>3 DEF Confirm, Goto

\* Nor has the create.
LEMMA CreateKeys ==
    ASSUME KeyInv, NEW c \in Claims, Create(c)
    PROVE  KeysOf(c)' /\ Carries(c)
  <1> DEFINE w == wk[c]
  <1>0. /\ w \in WorkerRecords /\ HandOf(w) /\ KeysOf(c) /\ TypeInv
        /\ wk \in [Claims -> WorkerRecords] /\ claim'[c].live = claim[c].live
    <2>1. Work(c)
      BY DEF Work
    <2> QED
      BY <2>1, LiveStays DEF KeyInv, TypeInv, TypeOK, Hands, Keys
  <1>1. Carries(c) /\ w.pc = "create"
    BY <1>0, BareCarries DEF Create, Bare
  <1>2. CASE Retry(c)
    BY <1>0, <1>1, <1>2, IdleKeys DEF Retry
  <1>3. CASE wk'[c] = [w EXCEPT !.pc = "publish", !.cand = c]
    <2>1. /\ wk'[c].pc = "publish" /\ wk'[c].skip = {} /\ wk'[c].fall = "none"
          /\ ~wk'[c].popped
      BY <1>0, <1>1, <1>3 DEF WorkerRecords, KeysOf
    <2> QED
      BY <1>0, <1>1, <1>3, <2>1 DEF KeysOf
  <1> QED
    BY <1>0, <1>1, <1>2, <1>3 DEF Create, Goto

\* The end of a pass leaves the reference and the keys.
LEMMA StatusKeys ==
    ASSUME KeyInv, NEW c \in Claims, Publish(c) \/ MarkExpired(c) \/ ReconcileExpired(c)
    PROVE  KeysOf(c)' /\ Carries(c)
  <1>1. TypeInv /\ KeysOf(c) /\ Work(c) /\ wk \in [Claims -> WorkerRecords]
    BY DEF KeyInv, Keys, Work, TypeInv, TypeOK
  <1>2. KeysOf(c)'
    BY <1>1, IdleKeys, LiveStays DEF Publish, MarkExpired, ReconcileExpired, Retry, Finish
  <1>3. claim'[c].ann = claim[c].ann
    BY <1>1, StatusAnn DEF Publish, MarkExpired, ReconcileExpired
  <1>4. CASE wk[c].pc \in Bare
    BY <1>1, <1>2, <1>3, <1>4, BareCarries DEF Publish, MarkExpired, ReconcileExpired
  <1>5. CASE Publish(c)
    <2>1. /\ wk[c].skip = {} /\ wk[c].fall = "none" /\ UNCHANGED <<box, queue>>
          /\ wk[c].popped => box[wk[c].cand] # "pool"
      BY <1>1, <1>5 DEF KeysOf, Publish
    <2> QED
      BY <1>2, <1>3, <2>1 DEF Carries, HeldBy, Kept
  <1> QED
    BY <1>4, <1>5 DEF MarkExpired, ReconcileExpired, Bare

\* A restart finds every key again; a key is dropped by the handler when its Sandbox is
\* gone; the rest of the surroundings has none.
LEMMA EnvironmentKeys ==
    ASSUME KeyInv, Kind, Deliver \/ Others
    PROVE  Keys'
  <1>0. TypeInv /\ Keys /\ [Next]_vars
    BY DEF KeyInv, Next
  <1>1. CASE Crash
    <2>1. ASSUME NEW d \in Claims PROVE KeysOf(d)'
      BY <1>0, <1>1, IdleKeys DEF Crash, Keys
    <2>2. \A s \in Warm : box'[s] = "pool" => s \in queue'
      BY <1>1 DEF Crash
    <2> QED
      BY <1>1, <2>1, <2>2 DEF Keys, Found, Crash
  <1>2. CASE ~Crash
    <2>1. UNCHANGED wk
      BY <1>2 DEF Deliver, Others, DeliverClaim, DeliverBox, DeleteClaim, Collect, GrowOld, Expire,
         Network, DeleteBox
    <2>2. \A d \in Claims : claim'[d].ann = claim[d].ann
      BY <1>0, <1>2 DEF TypeInv, TypeOK, ClaimRecords, Deliver, Others, DeliverClaim, DeliverBox,
         DeleteClaim, Collect, GrowOld, Expire, Network, DeleteBox
    <2>3. \A d \in Claims : claim'[d].live = claim[d].live \/ "busy" \notin Faults
      BY <1>0, <1>2 DEF Kind, Fault, Deliver, Others, DeliverClaim, DeliverBox, DeleteClaim,
         Collect, GrowOld, Expire, Network, DeleteBox
    <2>4. ASSUME NEW s \in Boxes, box'[s] = "pool"
          PROVE  /\ box[s] = "pool" /\ seenBox'[s] = "pool"
                 /\ s \in queue => s \in queue'
      <3>1. box[s] = "pool"
        BY <1>0, <2>4, NoReturn
      <3>2. seenBox[s] = "pool"
        BY <1>0, <3>1 DEF Keys
      <3> QED
        BY <1>0, <1>2, <3>1, <3>2 DEF TypeInv, TypeOK, Deliver, Others, DeliverClaim, DeliverBox,
           DeleteClaim, Collect, GrowOld, Expire, Network, DeleteBox
    <2>5. ASSUME NEW d \in Claims PROVE KeysOf(d)'
      <3>1. KeysOf(d)
        BY <1>0 DEF Keys
      <3>2. \A s \in Boxes : box'[s] = "pool" => box[s] = "pool"
        BY <2>4
      <3>3. /\ wk[d].pc \in {"resolve", "clear", "publish"} => wk[d].cand \in Boxes
            /\ Warm \subseteq Boxes
        BY <1>0 DEF TypeInv, Hands, HandOf, Boxes
      <3> QED
        BY <2>1, <2>3, <3>1, <3>2, <3>3 DEF KeysOf
    <2>6. ASSUME NEW s \in Warm \ Stale, box'[s] = "pool" PROVE Found(s)'
      <3>1. Found(s)
        BY <1>0, <2>4, <2>6 DEF Keys, Boxes
      <3> QED
        BY <2>1, <2>2, <2>4, <2>6, <3>1 DEF Found, HeldBy, Boxes
    <2> QED
      BY <2>4, <2>5, <2>6 DEF Keys
  <1> QED
    BY <1>1, <1>2

\* The invariant of the keys: at the start,
LEMMA KeyInit == Init => Keys
  <1> SUFFICES ASSUME Init PROVE Keys
    OBVIOUS
  <1>1. ASSUME NEW c \in Claims PROVE KeysOf(c)
    <2>1. wk[c] = Idle /\ claim[c] = New
      BY DEF Init
    <2>2. Idle.pc = "idle" /\ Idle.skip = {} /\ Idle.fall = "none" /\ ~Idle.popped /\ New.live
      BY DEF Idle, New
    <2> QED
      BY <2>1, <2>2 DEF KeysOf
  <1>2. seenBox = box /\ queue = Warm
    BY DEF Init
  <1> QED
    BY <1>1, <1>2 DEF Keys, Found

\* and kept by every step, as far as the references are what the keys need.
LEMMA KeyNext == ASSUME Kind PROVE KeyInv /\ [Next]_vars => Keys'
  <1> SUFFICES ASSUME KeyInv, [Next]_vars PROVE Keys'
    OBVIOUS
  <1>1. ASSUME NEW c \in Claims, Work(c) PROVE Keys'
    <2>1. KeysOf(c)' /\ Carries(c)
      BY <1>1, StartKeys, LookupKeys, UnrefKeys, ByNameKeys, PopKeyKeys, QueueEmptyKeys,
         AssignKeys, ReassignKeys, CompleteKeys, ResolveKeys, ClearKeys, ConfirmKeys,
         CreateKeys, StatusKeys DEF Work
    <2> QED
      BY <1>1, <2>1, KeyStep
  <1>2. ASSUME UNCHANGED vars PROVE Keys'
    <2>1. Keys
      BY DEF KeyInv
    <2> QED
      BY <1>2, <2>1 DEF vars, Keys, KeysOf, Found, HeldBy
  <1> QED
    BY <1>1, <1>2, EnvironmentKeys DEF Next

\* It says what is wanted.
LEMMA KeysFound == TypeInv /\ Keys => NoLostCandidate
  <1> SUFFICES ASSUME TypeInv, Keys, NEW s \in Warm \ Stale, box[s] = "pool"
               PROVE  \/ s \in queue
                      \/ \E c \in Claims : s \in Kept(wk[c]) \cup {wk[c].cand}
                      \/ \E c \in Claims : claim[c].live /\ claim[c].ann = s
    BY DEF NoLostCandidate
  <1> QED
    BY DEF Keys, KeysOf, Found, HeldBy

\* The key of a warm Sandbox is never lost, whatever lags, fails, crashes or is deleted, as
\* long as conflicts do not exhaust the retries: what a pass takes from the queue it puts
\* back or takes out of the pool.
THEOREM KeysKept == ASSUME "busy" \notin Faults PROVE Spec => []NoLostCandidate
  <1>1. Init => TypeInv /\ Keys
    BY TypeInit, KeyInit
  <1>2. TypeInv /\ Keys /\ [Next]_vars => (TypeInv /\ Keys)'
    BY TypeNext, KeyNext DEF KeyInv, Kind
  <1> QED
    BY <1>1, <1>2, KeysFound, PTL DEF Spec

\* Nor with such conflicts, when the caches are current and no claim is deleted: then the key
\* of a contended Sandbox is left to the reference of its claim.
THEOREM KeysKeptInConflicts ==
    ASSUME Lag = {}, "drop" \notin Faults PROVE Spec => []NoLostCandidate
  <1>1. Init => Inv /\ Keys
    BY InvInit, KeyInit
  <1>2. Inv => Refs
    BY DEF Inv, Ledger, LedgerOf, Refs
  <1>3. Inv /\ Keys /\ [Next]_vars => (Inv /\ Keys)'
    BY <1>2, InvNext, KeyNext DEF KeyInv, Kind, Inv
  <1>4. Inv => TypeInv
    BY DEF Inv
  <1> QED
    BY <1>1, <1>3, <1>4, KeysFound, PTL DEF Spec

=============================================================================
