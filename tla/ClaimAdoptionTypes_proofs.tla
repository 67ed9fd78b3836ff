--------------------- MODULE ClaimAdoptionTypes_proofs ---------------------
(***************************************************************************)
(* Type correctness of ClaimAdoption, for every set of claims and warm     *)
(* Sandboxes and every choice of faults and lagging caches.                *)
(***************************************************************************)
EXTENDS ClaimAdoption, TLAPS

\* What a worker holds at each of its points: a warm candidate while it adopts, a Sandbox
\* when it publishes, and keys to put back only while it picks.
HandOf(w) ==
    /\ w.pc \in {"assign", "reassign", "complete", "resolve", "clear"} => w.cand \in Warm
    /\ w.pc = "publish" => w.cand \in Boxes

Hands == \A c \in Claims : HandOf(wk[c])

TypeInv == TypeOK /\ Hands

\* The new and the idle records have their types.
LEMMA RecordTypes == New \in ClaimRecords /\ Idle \in WorkerRecords /\ HandOf(Idle)
  BY DEF New, Idle, ClaimRecords, WorkerRecords, HandOf

\* A step that replaces the record of one worker by a well-formed one keeps the workers
\* well-formed.
LEMMA PutWorker ==
    ASSUME TypeInv, NEW c \in Claims, NEW r \in WorkerRecords, HandOf(r),
           wk' = [wk EXCEPT ![c] = r]
    PROVE  wk' \in [Claims -> WorkerRecords] /\ Hands'
  BY DEF TypeInv, TypeOK, Hands, HandOf

\* Initially everything has its type.
LEMMA TypeInit == Init => TypeInv
  <1> SUFFICES ASSUME Init PROVE TypeInv
    OBVIOUS
  <1>1. claim \in [Claims -> ClaimRecords] /\ wk \in [Claims -> WorkerRecords]
    BY RecordTypes DEF Init
  <1>2. box \in [Boxes -> Owners]
    BY DEF Init, Owners, Boxes
  <1>3. Hands
    BY RecordTypes DEF Init, Hands
  <1> QED
    BY <1>1, <1>2, <1>3, ClaimAdoptionAssumption DEF Init, TypeInv, TypeOK

\* The step of a worker moves that worker, to a well-formed record.
Moves(c) == \E r \in WorkerRecords : HandOf(r) /\ wk' = [wk EXCEPT ![c] = r]

\* What the step of a worker may do to the rest keeps the types.
Wrote ==
    /\ claim' \in [Claims -> ClaimRecords] /\ box' \in [Boxes -> Owners]
    /\ queue' \subseteq Warm /\ due' \subseteq Claims /\ faults' \in 0..MaxFaults
    /\ UNCHANGED World

\* A worker's step keeps the types when it moves the worker and writes well-typed values.
LEMMA StepTypes ==
    ASSUME TypeInv, NEW c \in Claims, Moves(c), Wrote
    PROVE  TypeInv'
  <1>1. PICK r \in WorkerRecords : HandOf(r) /\ wk' = [wk EXCEPT ![c] = r]
    BY DEF Moves
  <1>2. wk' \in [Claims -> WorkerRecords] /\ Hands'
    BY <1>1, PutWorker
  <1> QED
    BY <1>2 DEF TypeInv, TypeOK, Wrote, World

\* A fault is counted within its bound.
LEMMA FaultTypes ==
    ASSUME TypeInv, NEW f, Fault(f) \/ NoFault
    PROVE  faults' \in 0..MaxFaults
  BY ClaimAdoptionAssumption DEF TypeInv, TypeOK, Fault, NoFault

\* Retry and Finish leave the worker idle.
LEMMA EndsTypes ==
    ASSUME TypeInv, NEW c \in Claims, Retry(c) \/ Finish(c)
    PROVE  Moves(c) /\ due' \subseteq Claims
  BY RecordTypes DEF TypeInv, TypeOK, Retry, Finish, Moves

\* Goto moves it to the record given.
LEMMA GotoTypes ==
    ASSUME TypeInv, NEW c \in Claims, NEW r \in WorkerRecords, HandOf(r), Goto(c, r)
    PROVE  Moves(c) /\ due' \subseteq Claims
  BY DEF TypeInv, TypeOK, Goto, Moves

\* The record of a worker that goes to a point which needs no Sandbox;
LEMMA ToPoint ==
    ASSUME NEW w \in WorkerRecords,
           NEW p \in {"unref", "byname", "pick", "confirm", "create"}
    PROVE  [w EXCEPT !.pc = p] \in WorkerRecords /\ HandOf([w EXCEPT !.pc = p])
  BY DEF WorkerRecords, HandOf

\* to the end of a pass, with the Sandbox to publish;
LEMMA ToPublish ==
    ASSUME NEW w \in WorkerRecords, NEW s \in Boxes
    PROVE  /\ [w EXCEPT !.pc = "publish", !.cand = s] \in WorkerRecords
           /\ HandOf([w EXCEPT !.pc = "publish", !.cand = s])
  BY DEF WorkerRecords, HandOf

\* to the adoption, with a warm Sandbox.
LEMMA ToComplete ==
    ASSUME NEW w \in WorkerRecords, NEW s \in Warm
    PROVE  /\ [w EXCEPT !.pc = "complete", !.cand = s] \in WorkerRecords
           /\ HandOf([w EXCEPT !.pc = "complete", !.cand = s])
  BY DEF WorkerRecords, HandOf, Boxes

\* A write of a claim's reference keeps its record;
LEMMA AnnTypes ==
    ASSUME TypeInv, NEW c \in Claims, NEW a \in Warm \cup {"none"},
           claim' = [claim EXCEPT ![c].ann = a]
    PROVE  claim' \in [Claims -> ClaimRecords] /\ claim'[c] \in ClaimRecords
  <1> DEFINE r == [claim[c] EXCEPT !.ann = a]
  <1>1. claim[c] \in ClaimRecords
    BY DEF TypeInv, TypeOK
  <1>2. r \in ClaimRecords
    BY <1>1 DEF ClaimRecords
  <1>3. claim' = [claim EXCEPT ![c] = r]
    OBVIOUS
  <1> HIDE DEF r
  <1> QED
    BY <1>2, <1>3 DEF TypeInv, TypeOK

\* so does one of its status.
LEMMA StatusTypes ==
    ASSUME TypeInv, NEW c \in Claims, NEW s \in Boxes \cup {"none"},
           NEW up \in BOOLEAN, NEW exp \in BOOLEAN, UpdateStatus(c, s, up, exp)
    PROVE  claim' \in [Claims -> ClaimRecords]
  <1> DEFINE r == [claim[c] EXCEPT !.status = s, !.up = up, !.exp = exp]
  <1>1. claim[c] \in ClaimRecords
    BY DEF TypeInv, TypeOK
  <1>2. r \in ClaimRecords
    BY <1>1 DEF ClaimRecords
  <1>3. claim' = [claim EXCEPT ![c] = r] \/ claim' = claim
    BY <1>1 DEF UpdateStatus, TypeInv, TypeOK, ClaimRecords
  <1> HIDE DEF r
  <1> QED
    BY <1>2, <1>3 DEF TypeInv, TypeOK

\* A pass begins with the cached claim.
LEMMA StartTypes ==
    ASSUME TypeInv, NEW c \in Claims, Start(c)
    PROVE  TypeInv'
  <1> DEFINE r == [Idle EXCEPT !.view = seenClaim[c],
                              !.pc = IF c \notin expired THEN "lookup"
                                     ELSE IF seenClaim[c].exp THEN "expire" ELSE "mark"]
  <1>1. r \in WorkerRecords /\ HandOf(r)
    BY RecordTypes DEF TypeInv, TypeOK, WorkerRecords, HandOf, Idle
  <1>2. wk[c] \in WorkerRecords /\ HandOf(wk[c]) /\ wk = [wk EXCEPT ![c] = wk[c]]
    BY DEF TypeInv, TypeOK, Hands
  <1>3. Moves(c)
    BY <1>1, <1>2 DEF Start, Moves
  <1>4. Wrote
    BY DEF TypeInv, TypeOK, Start, Wrote, World
  <1> QED
    BY <1>3, <1>4, StepTypes

\* The Sandbox found is one of the boxes, the one to adopt is warm.
LEMMA LookupTypes ==
    ASSUME TypeInv, NEW c \in Claims, Lookup(c)
    PROVE  TypeInv'
  <1> DEFINE w == wk[c]
  <1>1. w \in WorkerRecords /\ HandOf(w)
    BY DEF TypeInv, TypeOK, Hands
  <1>2. Moves(c)
    <2>1. w.view.ann \in Warm \cup {"none"} /\ w.view.status \in Boxes \cup {"none"}
      BY <1>1 DEF WorkerRecords, ClaimRecords
    <2>2. CASE Goto(c, [w EXCEPT !.pc = "publish", !.cand = w.view.status]) /\ w.view.status # "none"
      BY <1>1, <2>1, <2>2, ToPublish, GotoTypes
    <2>3. CASE Goto(c, [w EXCEPT !.pc = "publish", !.cand = w.view.ann]) /\ w.view.ann # "none"
      BY <1>1, <2>1, <2>3, ToPublish, GotoTypes DEF Boxes
    <2>4. CASE Goto(c, [w EXCEPT !.pc = "complete", !.cand = w.view.ann]) /\ w.view.ann # "none"
      BY <1>1, <2>1, <2>4, ToComplete, GotoTypes
    <2>5. CASE Goto(c, [w EXCEPT !.pc = "byname"])
      BY <1>1, <2>5, ToPoint, GotoTypes
    <2>6. CASE Goto(c, [w EXCEPT !.pc = "unref"])
      BY <1>1, <2>6, ToPoint, GotoTypes
    <2> QED
      BY <2>2, <2>3, <2>4, <2>5, <2>6 DEF Lookup, Refers
  <1>3. Wrote
    BY DEF TypeInv, TypeOK, Lookup, Wrote, Goto, NoFault, World
  <1> QED
    BY <1>2, <1>3, StepTypes

\* The reference removed leaves a claim without one.
LEMMA UnrefTypes ==
    ASSUME TypeInv, NEW c \in Claims, Unref(c)
    PROVE  TypeInv'
  <1> DEFINE w == wk[c]
  <1>1. w \in WorkerRecords /\ HandOf(w)
    BY DEF TypeInv, TypeOK, Hands
  <1>2. Moves(c)
    <2>1. CASE claim[c].live /\ claim' = [claim EXCEPT ![c].ann = "none"]
               /\ Goto(c, [wk[c] EXCEPT !.pc = "byname", !.view = claim'[c]])
      <3>1. claim'[c] \in ClaimRecords
        BY <2>1, AnnTypes
      <3> QED
        BY <1>1, <2>1, <3>1, GotoTypes DEF WorkerRecords, HandOf
    <2> QED
      BY <2>1, EndsTypes DEF Unref
  <1>3. Wrote
    <2>1. claim' \in [Claims -> ClaimRecords]
      BY AnnTypes DEF TypeInv, TypeOK, Unref
    <2>2. due' \subseteq Claims
      BY DEF TypeInv, TypeOK, Unref, Goto, Retry
    <2>3. faults' \in 0..MaxFaults
      BY FaultTypes DEF Unref
    <2> QED
      BY <2>1, <2>2, <2>3 DEF TypeInv, TypeOK, Unref, Wrote
  <1> QED
    BY <1>2, <1>3, StepTypes

\* The Sandbox named after the claim is one of the boxes.
LEMMA ByNameTypes ==
    ASSUME TypeInv, NEW c \in Claims, ByName(c)
    PROVE  TypeInv'
  <1> DEFINE w == wk[c]
  <1>1. w \in WorkerRecords /\ HandOf(w)
    BY DEF TypeInv, TypeOK, Hands
  <1>2. Moves(c)
    <2>1. CASE Retry(c)
      BY <2>1, EndsTypes
    <2>2. CASE ~Retry(c)
      BY <1>1, <2>2 DEF ByName, Goto, Moves, WorkerRecords, HandOf, Boxes
    <2> QED
      BY <2>1, <2>2
  <1>3. Wrote
    BY DEF TypeInv, TypeOK, ByName, Wrote, Goto, Retry, NoFault, World
  <1> QED
    BY <1>2, <1>3, StepTypes

\* A popped key is assigned, kept as the fallback, or to be put back.
LEMMA PopKeyTypes ==
    ASSUME TypeInv, NEW c \in Claims, PopKey(c)
    PROVE  TypeInv'
  <1> DEFINE w == wk[c]
  <1>1. w \in WorkerRecords /\ HandOf(w)
    BY DEF TypeInv, TypeOK, Hands
  <1>2. Moves(c)
    <2>1. PICK s \in queue :
             \/ UNCHANGED wk
             \/ Goto(c, [w EXCEPT !.pc = "assign", !.cand = s, !.popped = TRUE,
                                  !.skip = {}, !.fall = "none"])
             \/ Goto(c, [w EXCEPT !.fall = s]) /\ w.pc = "pick"
             \/ Goto(c, [w EXCEPT !.skip = @ \cup {s}]) /\ w.pc = "pick"
      BY DEF PopKey
    <2>2. s \in Warm
      BY DEF TypeInv, TypeOK
    <2>3. CASE UNCHANGED wk
      BY <1>1, <2>3 DEF Moves, TypeInv, TypeOK
    <2>4. /\ [w EXCEPT !.pc = "assign", !.cand = s, !.popped = TRUE,
                        !.skip = {}, !.fall = "none"] \in WorkerRecords
          /\ HandOf([w EXCEPT !.pc = "assign", !.cand = s, !.popped = TRUE,
                        !.skip = {}, !.fall = "none"])
      BY <1>1, <2>2 DEF WorkerRecords, HandOf, Boxes
    <2>5. w.pc = "pick" =>
             /\ [w EXCEPT !.fall = s] \in WorkerRecords
             /\ HandOf([w EXCEPT !.fall = s])
      BY <1>1, <2>2 DEF WorkerRecords, HandOf
    <2>6. w.pc = "pick" =>
             /\ [w EXCEPT !.skip = @ \cup {s}] \in WorkerRecords
             /\ HandOf([w EXCEPT !.skip = @ \cup {s}])
      BY <1>1, <2>2 DEF WorkerRecords, HandOf
    <2> QED
      BY <2>1, <2>3, <2>4, <2>5, <2>6, GotoTypes
  <1>3. Wrote
    <2>1. Kept(w) \subseteq Warm
      BY <1>1 DEF Kept, WorkerRecords
    <2> QED
      BY <2>1 DEF PopKey, TypeInv, TypeOK, Wrote, Goto, NoFault, World
  <1> QED
    BY <1>2, <1>3, StepTypes

\* With no key left the fallback is assigned, or the kept keys go back.
LEMMA QueueEmptyTypes ==
    ASSUME TypeInv, NEW c \in Claims, QueueEmpty(c)
    PROVE  TypeInv'
  <1> DEFINE w == wk[c]
  <1>1. w \in WorkerRecords /\ HandOf(w)
    BY DEF TypeInv, TypeOK, Hands
  <1>2. Moves(c)
    <2>1. w.fall # "none" =>
             /\ [w EXCEPT !.pc = "assign", !.cand = w.fall, !.popped = TRUE,
                          !.skip = {}, !.fall = "none"] \in WorkerRecords
             /\ HandOf([w EXCEPT !.pc = "assign", !.cand = w.fall, !.popped = TRUE,
                          !.skip = {}, !.fall = "none"])
      BY <1>1 DEF WorkerRecords, HandOf, Boxes
    <2>2. /\ [w EXCEPT !.pc = "confirm", !.skip = {}] \in WorkerRecords
          /\ HandOf([w EXCEPT !.pc = "confirm", !.skip = {}])
      BY <1>1 DEF WorkerRecords, HandOf
    <2> QED
      BY <2>1, <2>2, EndsTypes, GotoTypes DEF QueueEmpty
  <1>3. Wrote
    BY <1>1 DEF QueueEmpty, WorkerRecords, TypeInv, TypeOK, Wrote, Goto, Retry, NoFault, World
  <1> QED
    BY <1>2, <1>3, StepTypes

\* The reference written is the warm candidate.
LEMMA AssignTypes ==
    ASSUME TypeInv, NEW c \in Claims, Assign(c)
    PROVE  TypeInv'
  <1> DEFINE w == wk[c]
  <1>1. w \in WorkerRecords /\ HandOf(w)
    BY DEF TypeInv, TypeOK, Hands
  <1>2. Moves(c)
    <2>0. w.cand \in Warm /\ w.pc = "assign"
      BY <1>1 DEF HandOf, Assign
    <2>1. CASE claim' = [claim EXCEPT ![c].ann = w.cand]
               /\ Goto(c, [w EXCEPT !.pc = "complete", !.view = claim'[c]])
      <3>1. claim'[c] \in ClaimRecords
        BY <2>0, <2>1, AnnTypes
      <3> QED
        BY <1>1, <2>0, <2>1, <3>1, GotoTypes DEF WorkerRecords, HandOf
    <2>2. CASE Goto(c, [w EXCEPT !.pc = "reassign"])
      BY <1>1, <2>0, <2>2, GotoTypes DEF WorkerRecords, HandOf
    <2> QED
      BY <2>1, <2>2, EndsTypes DEF Assign
  <1>3. Wrote
    <2>0. w.cand \in Warm
      BY <1>1 DEF HandOf, Assign
    <2>1. claim' \in [Claims -> ClaimRecords]
      BY <2>0, AnnTypes DEF TypeInv, TypeOK, Assign
    <2>2. due' \subseteq Claims /\ queue' \subseteq Warm
      BY <2>0 DEF TypeInv, TypeOK, Assign, Goto, Retry, PutBack
    <2>3. faults' \in 0..MaxFaults
      BY FaultTypes DEF Assign
    <2> QED
      BY <2>1, <2>2, <2>3 DEF TypeInv, TypeOK, Assign, Wrote
  <1> QED
    BY <1>2, <1>3, StepTypes

\* So is the one written on a fresh base.
LEMMA ReassignTypes ==
    ASSUME TypeInv, NEW c \in Claims, Reassign(c)
    PROVE  TypeInv'
  <1> DEFINE w == wk[c]
  <1>1. w \in WorkerRecords /\ HandOf(w)
    BY DEF TypeInv, TypeOK, Hands
  <1>2. Moves(c)
    <2>0. w.cand \in Warm /\ w.pc = "reassign"
      BY <1>1 DEF HandOf, Reassign
    <2>1. CASE claim' = [claim EXCEPT ![c].ann = w.cand]
               /\ Goto(c, [w EXCEPT !.pc = "complete", !.view = claim'[c]])
      <3>1. claim'[c] \in ClaimRecords
        BY <2>0, <2>1, AnnTypes
      <3> QED
        BY <1>1, <2>0, <2>1, <3>1, GotoTypes DEF WorkerRecords, HandOf
    <2> QED
      BY <2>1, EndsTypes DEF Reassign
  <1>3. Wrote
    <2>0. w.cand \in Warm
      BY <1>1 DEF HandOf, Reassign
    <2>1. claim' \in [Claims -> ClaimRecords]
      BY <2>0, AnnTypes DEF TypeInv, TypeOK, Reassign
    <2>2. due' \subseteq Claims /\ queue' \subseteq Warm
      BY <2>0 DEF TypeInv, TypeOK, Reassign, Goto, Retry, PutBack
    <2>3. faults' \in 0..MaxFaults
      BY FaultTypes DEF Reassign
    <2> QED
      BY <2>1, <2>2, <2>3 DEF TypeInv, TypeOK, Reassign, Wrote
  <1> QED
    BY <1>2, <1>3, StepTypes

\* The new owner is a claim.
LEMMA CompleteTypes ==
    ASSUME TypeInv, NEW c \in Claims, Complete(c)
    PROVE  TypeInv'
  <1> DEFINE w == wk[c]
  <1>1. w \in WorkerRecords /\ HandOf(w)
    BY DEF TypeInv, TypeOK, Hands
  <1>2. Moves(c)
    <2>0. w.cand \in Warm
      BY <1>1 DEF HandOf, Complete
    <2>1. CASE Goto(c, [w EXCEPT !.pc = "publish"])
      BY <1>1, <2>0, <2>1, GotoTypes DEF WorkerRecords, HandOf, Boxes
    <2>2. CASE Goto(c, [w EXCEPT !.pc = "resolve"])
      BY <1>1, <2>0, <2>2, GotoTypes DEF WorkerRecords, HandOf
    <2> QED
      BY <2>1, <2>2, EndsTypes DEF Complete
  <1>3. Wrote
    <2>0. w.cand \in Warm
      BY <1>1 DEF HandOf, Complete
    <2>1. box' \in [Boxes -> Owners]
      BY <2>0 DEF TypeInv, TypeOK, Complete, Owners, Boxes
    <2>2. due' \subseteq Claims /\ queue' \subseteq Warm
      BY <2>0 DEF TypeInv, TypeOK, Complete, Goto, Retry, PutBack
    <2>3. faults' \in 0..MaxFaults
      BY FaultTypes DEF Complete
    <2> QED
      BY <2>1, <2>2, <2>3 DEF TypeInv, TypeOK, Complete, Wrote
  <1> QED
    BY <1>2, <1>3, StepTypes

\* The owner found or written again is a claim.
LEMMA ResolveTypes ==
    ASSUME TypeInv, NEW c \in Claims, Resolve(c)
    PROVE  TypeInv'
  <1> DEFINE w == wk[c]
  <1>1. w \in WorkerRecords /\ HandOf(w)
    BY DEF TypeInv, TypeOK, Hands
  <1>2. Moves(c)
    <2>0. w.cand \in Warm
      BY <1>1 DEF HandOf, Resolve
    <2>1. CASE Goto(c, [w EXCEPT !.pc = "publish"])
      BY <1>1, <2>0, <2>1, GotoTypes DEF WorkerRecords, HandOf, Boxes
    <2>2. CASE Goto(c, [w EXCEPT !.pc = "clear"])
      BY <1>1, <2>0, <2>2, GotoTypes DEF WorkerRecords, HandOf
    <2> QED
      BY <2>1, <2>2, EndsTypes DEF Resolve
  <1>3. Wrote
    <2>0. w.cand \in Warm
      BY <1>1 DEF HandOf, Resolve
    <2>1. box' \in [Boxes -> Owners]
      BY <2>0 DEF TypeInv, TypeOK, Resolve, Owners, Boxes
    <2>2. due' \subseteq Claims /\ queue' \subseteq Warm
      BY <2>0 DEF TypeInv, TypeOK, Resolve, Goto, Retry, PutBack
    <2>3. faults' \in 0..MaxFaults
      BY FaultTypes DEF Resolve
    <2> QED
      BY <2>1, <2>2, <2>3 DEF TypeInv, TypeOK, Resolve, Wrote
  <1> QED
    BY <1>2, <1>3, StepTypes

\* A reference that was lost is removed.
LEMMA ClearTypes ==
    ASSUME TypeInv, NEW c \in Claims, Clear(c)
    PROVE  TypeInv'
  <1> DEFINE w == wk[c]
  <1>1. w \in WorkerRecords /\ HandOf(w)
    BY DEF TypeInv, TypeOK, Hands
  <1>2. Moves(c)
    BY EndsTypes DEF Clear
  <1>3. Wrote
    <2>1. claim' \in [Claims -> ClaimRecords]
      BY AnnTypes DEF TypeInv, TypeOK, Clear
    <2>2. faults' \in 0..MaxFaults
      BY FaultTypes DEF Clear
    <2> QED
      BY <2>1, <2>2, EndsTypes DEF TypeInv, TypeOK, Clear, Wrote
  <1> QED
    BY <1>2, <1>3, StepTypes

\* The fresh read sends the worker on or ends the pass.
LEMMA ConfirmTypes ==
    ASSUME TypeInv, NEW c \in Claims, Confirm(c)
    PROVE  TypeInv'
  <1> DEFINE w == wk[c]
  <1>1. w \in WorkerRecords /\ HandOf(w)
    BY DEF TypeInv, TypeOK, Hands
  <1>2. Moves(c)
    BY <1>1, ToPoint, GotoTypes, EndsTypes DEF Confirm
  <1>3. Wrote
    <2>1. faults' \in 0..MaxFaults
      BY FaultTypes DEF Confirm
    <2>2. due' \subseteq Claims
      BY EndsTypes DEF TypeInv, TypeOK, Confirm, Goto
    <2> QED
      BY <2>1, <2>2 DEF TypeInv, TypeOK, Confirm, Wrote
  <1> QED
    BY <1>2, <1>3, StepTypes

\* The cold Sandbox is named after its claim.
LEMMA CreateTypes ==
    ASSUME TypeInv, NEW c \in Claims, Create(c)
    PROVE  TypeInv'
  <1> DEFINE w == wk[c]
  <1>1. w \in WorkerRecords /\ HandOf(w)
    BY DEF TypeInv, TypeOK, Hands
  <1>2. Moves(c)
    BY <1>1, ToPublish, GotoTypes, EndsTypes DEF Create, Boxes
  <1>3. Wrote
    <2>1. faults' \in 0..MaxFaults
      BY FaultTypes DEF Create
    <2>2. due' \subseteq Claims
      BY EndsTypes DEF TypeInv, TypeOK, Create, Goto
    <2>3. box' \in [Boxes -> Owners]
      BY DEF TypeInv, TypeOK, Create, Owners, Boxes
    <2> QED
      BY <2>1, <2>2, <2>3 DEF TypeInv, TypeOK, Create, Wrote
  <1> QED
    BY <1>2, <1>3, StepTypes

\* The status names the Sandbox.
LEMMA PublishTypes ==
    ASSUME TypeInv, NEW c \in Claims, Publish(c)
    PROVE  TypeInv'
  <1> DEFINE w == wk[c]
  <1>1. w \in WorkerRecords /\ HandOf(w)
    BY DEF TypeInv, TypeOK, Hands
  <1>2. Moves(c)
    BY EndsTypes DEF Publish
  <1>3. Wrote
    <2>1. claim' \in [Claims -> ClaimRecords]
      BY <1>1, StatusTypes DEF Publish, HandOf, WorkerRecords, ClaimRecords
    <2>2. faults' \in 0..MaxFaults
      BY FaultTypes DEF Publish, UpdateStatus
    <2> QED
      BY <2>1, <2>2, EndsTypes DEF TypeInv, TypeOK, Publish, Wrote
  <1> QED
    BY <1>2, <1>3, StepTypes

\* The status keeps the Sandbox that the worker knew.
LEMMA MarkExpiredTypes ==
    ASSUME TypeInv, NEW c \in Claims, MarkExpired(c)
    PROVE  TypeInv'
  <1> DEFINE w == wk[c]
  <1>1. w \in WorkerRecords /\ HandOf(w)
    BY DEF TypeInv, TypeOK, Hands
  <1>2. Moves(c)
    BY EndsTypes DEF MarkExpired
  <1>3. Wrote
    <2>1. claim' \in [Claims -> ClaimRecords]
      BY <1>1, StatusTypes DEF MarkExpired, HandOf, WorkerRecords, ClaimRecords
    <2>2. faults' \in 0..MaxFaults
      BY FaultTypes DEF MarkExpired, UpdateStatus
    <2> QED
      BY <2>1, <2>2, EndsTypes DEF TypeInv, TypeOK, MarkExpired, Wrote
  <1> QED
    BY <1>2, <1>3, StepTypes

\* The Sandbox of an expired claim goes, or its status is cleared.
LEMMA ReconcileExpiredTypes ==
    ASSUME TypeInv, NEW c \in Claims, ReconcileExpired(c)
    PROVE  TypeInv'
  <1> DEFINE w == wk[c]
  <1>1. w \in WorkerRecords /\ HandOf(w)
    BY DEF TypeInv, TypeOK, Hands
  <1>2. Moves(c)
    BY EndsTypes DEF ReconcileExpired
  <1>3. Wrote
    <2>1. claim' \in [Claims -> ClaimRecords]
      BY StatusTypes DEF ReconcileExpired, TypeInv, TypeOK
    <2>2. faults' \in 0..MaxFaults
      BY FaultTypes DEF ReconcileExpired, UpdateStatus
    <2>3. box' \in [Boxes -> Owners]
      BY DEF ReconcileExpired, TypeInv, TypeOK, Owners
    <2> QED
      BY <2>1, <2>2, <2>3, EndsTypes DEF TypeInv, TypeOK, ReconcileExpired, Wrote
  <1> QED
    BY <1>2, <1>3, StepTypes

\* The caches, the network, the users and the collector keep the types.
LEMMA OthersTypes ==
    ASSUME TypeInv, Deliver \/ Others
    PROVE  TypeInv'
  <1> USE DEF TypeInv, TypeOK, Hands
  <1>1. ASSUME NEW c \in Claims, DeliverClaim(c) PROVE TypeInv'
    BY <1>1 DEF DeliverClaim
  <1>2. ASSUME NEW s \in Boxes, DeliverBox(s) PROVE TypeInv'
    BY <1>2 DEF DeliverBox
  <1>3. CASE Crash
    <2>1. faults' \in 0..MaxFaults
      BY <1>3, FaultTypes DEF Crash
    <2>2. wk' \in [Claims -> WorkerRecords] /\ Hands'
      BY <1>3, RecordTypes DEF Crash
    <2> QED
      BY <1>3, <2>1, <2>2 DEF Crash
  <1>4. ASSUME NEW c \in Claims, DeleteClaim(c) PROVE TypeInv'
    <2> DEFINE r == [claim[c] EXCEPT !.live = FALSE]
    <2>1. r \in ClaimRecords /\ claim' = [claim EXCEPT ![c] = r]
      BY <1>4 DEF DeleteClaim, ClaimRecords
    <2>2. faults' \in 0..MaxFaults
      BY <1>4, FaultTypes DEF DeleteClaim
    <2> HIDE DEF r
    <2> QED
      BY <1>4, <2>1, <2>2 DEF DeleteClaim
  <1>5. ASSUME NEW c \in Claims, Collect(c) PROVE TypeInv'
    BY <1>5 DEF Collect, Owners
  <1>6. ASSUME NEW c \in Claims, GrowOld(c) \/ Expire(c) PROVE TypeInv'
    BY <1>6 DEF GrowOld, Expire
  <1>7. ASSUME NEW s \in Boxes, Network(s) PROVE TypeInv'
    BY <1>7 DEF Network
  <1>8. ASSUME NEW s \in Boxes, DeleteBox(s) PROVE TypeInv'
    BY <1>8, ClaimAdoptionAssumption DEF DeleteBox, Owners
  <1> QED
    BY <1>1, <1>2, <1>3, <1>4, <1>5, <1>6, <1>7, <1>8 DEF Deliver, Others

\* Every step keeps the types.
LEMMA TypeNext == TypeInv /\ [Next]_vars => TypeInv'
  <1> SUFFICES ASSUME TypeInv, [Next]_vars PROVE TypeInv'
    OBVIOUS
  <1>1. ASSUME NEW c \in Claims, Work(c) PROVE TypeInv'
    BY <1>1, StartTypes, LookupTypes, UnrefTypes, ByNameTypes, PopKeyTypes, QueueEmptyTypes,
       AssignTypes, ReassignTypes, CompleteTypes, ResolveTypes, ClearTypes, ConfirmTypes,
       CreateTypes, PublishTypes, MarkExpiredTypes, ReconcileExpiredTypes DEF Work
  <1>2. CASE UNCHANGED vars
    BY <1>2 DEF vars, TypeInv, TypeOK, Hands
  <1> QED
    BY <1>1, <1>2, OthersTypes DEF Next

\* TypeOK, with what the workers hold, in every reachable state.
THEOREM TypeCorrect == Spec => [](TypeOK /\ Hands)
  <1>1. Spec => []TypeInv
    BY TypeInit, TypeNext, PTL DEF Spec
  <1> QED
    BY <1>1, PTL DEF TypeInv

\* No Sandbox passes from one claim to another, or back to the pool: box changes only by
\* completeAdoption from the pool, by createSandbox and by deletions.
THEOREM NotStolen == Spec => NeverStolen
  <1>1. TypeInv /\ [Next]_vars => [\A s \in Boxes : box[s] \in Claims => box'[s] \in {box[s], "none"}]_vars
    <2> SUFFICES ASSUME TypeInv, Next, NEW s \in Boxes, box[s] \in Claims
                 PROVE  box'[s] \in {box[s], "none"}
      OBVIOUS
    <2>0. box[s] # "pool" /\ box \in [Boxes -> Owners]
      BY ClaimAdoptionAssumption DEF TypeInv, TypeOK
    <2>1. ASSUME NEW c \in Claims, Work(c) PROVE box'[s] \in {box[s], "none"}
      <3>1. CASE Complete(c)
        BY <2>0, <3>1 DEF Complete
      <3>2. CASE Resolve(c)
        BY <2>0, <3>2 DEF Resolve
      <3>3. CASE Create(c)
        BY <2>0, <3>3, ClaimAdoptionAssumption DEF Create
      <3>4. CASE ReconcileExpired(c)
        BY <2>0, <3>4 DEF ReconcileExpired
      <3>5. CASE UNCHANGED box
        BY <3>5
      <3> QED
        BY <2>1, <3>1, <3>2, <3>3, <3>4, <3>5 DEF Work, Start, Lookup, Unref, ByName, PopKey,
           QueueEmpty, Assign, Reassign, Clear, Confirm, Publish, MarkExpired
    <2>2. ASSUME Deliver \/ Others PROVE box'[s] \in {box[s], "none"}
      BY <2>0, <2>2 DEF Deliver, Others, DeliverClaim, DeliverBox, Crash, DeleteClaim, Collect,
         GrowOld, Expire, Network, DeleteBox
    <2> QED
      BY <2>1, <2>2 DEF Next
  <1>2. Spec => []TypeInv
    BY TypeInit, TypeNext, PTL DEF Spec
  <1> QED
    BY <1>1, <1>2, PTL DEF Spec, NeverStolen
=============================================================================
