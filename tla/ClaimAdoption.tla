--------------------------- MODULE ClaimAdoption ---------------------------
(***************************************************************************)
(* How SandboxClaims get their Sandboxes: workers that read claims and     *)
(* Sandboxes from caches that lag behind, take candidates from the queue   *)
(* of warm Sandboxes, record the choice on the claim, take the Sandbox     *)
(* over from the pool and publish it; what they do about conflicts, dead   *)
(* references and restarts; and how an expired claim gives its Sandbox up. *)
(* Every write to the API server is a step of its own.                     *)
(*                                                                         *)
(* extensions/controllers/sandboxclaim_controller.go.                      *)
(***************************************************************************)
EXTENDS Integers, FiniteSets

CONSTANTS
    Claims, Warm,
    Stale,        \* warm Sandboxes of an older template, in a pool that recreates them
    ForceCold,    \* claims with their own environment or volumes
    Faults,       \* "busy" conflicts, "error" failed requests, "unread" failed fresh reads,
                  \* "crash", "expire", "drop" deleted claims
    Lag,          \* caches that may lag when a pass begins: "claims", "boxes"
    MaxDeletes,   \* Sandboxes deleted by somebody else
    MaxFaults     \* faults of the other kinds

ASSUME ClaimAdoptionAssumption ==
    /\ Stale \subseteq Warm /\ ForceCold \subseteq Claims /\ Warm \cap Claims = {}
    /\ {"none", "pool"} \cap (Warm \cup Claims) = {}
    /\ Faults \subseteq {"busy", "error", "unread", "crash", "expire", "drop"}
    /\ Lag \subseteq {"claims", "boxes"} /\ MaxDeletes \in Nat /\ MaxFaults \in Nat

Boxes == Warm \cup Claims    \* a cold Sandbox is named after its claim

VARIABLES
    claim, seenClaim,   \* claim -> its record, on the server and in the cache
    box, seenBox,       \* Sandbox -> "none" | "pool" | owner, on the server and in the cache
    net,                \* Sandbox -> "pending" | "unready" | "ready"
    queue,              \* keys in the warm pool's queue
    wk,                 \* claim -> its worker
    due,                \* claims in the workqueue
    young,              \* claims within the grace period for warm candidates
    expired,            \* claims past their shutdown time
    deletes, faults     \* how many happened

vars == <<claim, seenClaim, box, seenBox, net, queue, wk, due, young, expired, deletes, faults>>

\* Of a claim: live, the Sandbox assigned by its annotation, the one in its status, whether
\* its conditions say Ready (up) and ClaimExpired (exp).
New == [live |-> TRUE, ann |-> "none", status |-> "none", up |-> FALSE, exp |-> FALSE]

\* The worker: view is its copy of the claim, cand the Sandbox it wants, popped whether cand
\* came from the queue, fall the unready fallback and skip the keys to put back.
Idle == [pc |-> "idle", view |-> New,
         cand |-> "none", popped |-> FALSE, fall |-> "none", skip |-> {}]

Init ==
    /\ claim = [c \in Claims |-> New] /\ seenClaim = claim
    /\ box = [s \in Boxes |-> IF s \in Warm THEN "pool" ELSE "none"] /\ seenBox = box
    /\ net \in [Boxes -> {"pending", "unready", "ready"}] /\ \A c \in Claims : net[c] = "pending"
    /\ queue = Warm /\ wk = [c \in Claims |-> Idle]
    /\ due = Claims /\ young = Claims /\ expired = {} /\ deletes = 0 /\ faults = 0

Fault(f) == f \in Faults /\ faults < MaxFaults /\ faults' = faults + 1
NoFault == UNCHANGED faults

\* The pass goes on; or ends with a requeue, or to wait for an event.
Goto(c, r) == wk' = [wk EXCEPT ![c] = r] /\ UNCHANGED due

\* Faulty: a pass that failed waits for an event.
RetryOnEvent(c) == wk' = [wk EXCEPT ![c] = Idle] /\ UNCHANGED due

Retry(c) == wk' = [wk EXCEPT ![c] = Idle] /\ due' = due \cup {c}
Finish(c) == wk' = [wk EXCEPT ![c] = Idle] /\ UNCHANGED due

World == <<seenClaim, seenBox, net, young, expired, deletes>>

---------------------------------------------------------------------------
\* Caches, events and other writers.

DeliverClaim(c) ==
    /\ seenClaim[c] # claim[c]
    /\ seenClaim' = [seenClaim EXCEPT ![c] = claim[c]] /\ due' = due \cup {c}
    /\ UNCHANGED <<claim, box, seenBox, net, queue, wk, young, expired, deletes, faults>>

\* The Owns watch wakes the owner, old or new; the queue's handler drops a deleted key.
DeliverBox(s) ==
    /\ seenBox[s] # box[s]
    /\ seenBox' = [seenBox EXCEPT ![s] = box[s]]
    /\ due' = due \cup ({seenBox[s], box[s]} \cap Claims)
    /\ queue' = IF box[s] = "none" /\ seenBox[s] = "pool" THEN queue \ {s} ELSE queue
    /\ UNCHANGED <<claim, seenClaim, box, net, wk, young, expired, deletes, faults>>

Network(s) ==
    /\ box[s] # "none" /\ net[s] # "ready"
    /\ net' = [net EXCEPT ![s] = IF net[s] = "pending" THEN "unready" ELSE "ready"]
    /\ due' = due \cup ({seenBox[s]} \cap Claims)
    /\ UNCHANGED <<claim, seenClaim, box, seenBox, queue, wk, young, expired, deletes, faults>>

DeleteBox(s) ==
    /\ box[s] # "none" /\ deletes < MaxDeletes
    /\ box' = [box EXCEPT ![s] = "none"] /\ deletes' = deletes + 1
    /\ UNCHANGED <<claim, seenClaim, seenBox, net, queue, wk, due, young, expired, faults>>

\* The claim is deleted; what it owns is collected.
DeleteClaim(c) ==
    /\ claim[c].live /\ Fault("drop")
    /\ claim' = [claim EXCEPT ![c].live = FALSE]
    /\ UNCHANGED <<seenClaim, box, seenBox, net, queue, wk, due, young, expired, deletes>>

Collect(c) ==
    /\ ~claim[c].live /\ \E s \in Boxes : box[s] = c
    /\ box' = [s \in Boxes |-> IF box[s] = c THEN "none" ELSE box[s]]
    /\ UNCHANGED <<claim, seenClaim, seenBox, net, queue, wk, due, young, expired, deletes, faults>>

GrowOld(c) ==
    /\ c \in young /\ young' = young \ {c}
    /\ UNCHANGED <<claim, seenClaim, box, seenBox, net, queue, wk, due, expired, deletes, faults>>

Expire(c) ==
    /\ "expire" \in Faults /\ c \notin expired
    /\ expired' = expired \cup {c} /\ due' = due \cup {c}
    /\ UNCHANGED <<claim, seenClaim, box, seenBox, net, queue, wk, young, deletes, faults>>

\* The controller restarts: workers are gone, caches and queue are built from a fresh list.
Crash ==
    /\ Fault("crash")
    /\ wk' = [c \in Claims |-> Idle] /\ due' = Claims
    /\ seenClaim' = claim /\ seenBox' = box /\ queue' = {s \in Warm : box[s] = "pool"}
    /\ UNCHANGED <<claim, box, net, young, expired, deletes>>

---------------------------------------------------------------------------
\* Reconcile and the first half of getOrCreateSandbox, from the caches.

Start(c) ==
    /\ c \in due /\ wk[c].pc = "idle"
    /\ "claims" \notin Lag => seenClaim[c] = claim[c]
    /\ "boxes" \notin Lag => seenBox = box
    /\ due' = due \ {c}
    /\ wk' = IF ~seenClaim[c].live THEN wk
             ELSE [wk EXCEPT ![c] = [Idle EXCEPT !.view = seenClaim[c],
                                                 !.pc = IF c \notin expired THEN "lookup"
                                          ELSE IF seenClaim[c].exp THEN "expire" ELSE "mark"]]
    /\ UNCHANGED <<claim, box, queue, World, faults>>

Refers(w) == w.view.ann # "none"

\* The Sandbox of the status, or the one assigned: found, still the pool's, somebody
\* else's, or gone.
Lookup(c) ==
    LET w == wk[c]  s == w.view.ann
    IN  /\ w.pc = "lookup"
        /\ IF w.view.status # "none" /\ seenBox[w.view.status] = c
           THEN Goto(c, [w EXCEPT !.pc = "publish", !.cand = w.view.status])
           ELSE IF ~Refers(w) THEN Goto(c, [w EXCEPT !.pc = "byname"])
           ELSE IF seenBox[s] = c THEN Goto(c, [w EXCEPT !.pc = "publish", !.cand = s])
           ELSE IF seenBox[s] = "pool" THEN Goto(c, [w EXCEPT !.pc = "complete", !.cand = s])
           ELSE Goto(c, [w EXCEPT !.pc = "unref"])
        /\ NoFault /\ UNCHANGED <<claim, box, queue, World>>

\* A merge patch without a lock removes the reference, whatever it is by now; the answer
\* becomes the worker's copy of the claim.
Unref(c) ==
    /\ wk[c].pc = "unref"
    /\ \/ /\ claim[c].live /\ claim' = [claim EXCEPT ![c].ann = "none"]
          /\ Goto(c, [wk[c] EXCEPT !.pc = "byname", !.view = claim'[c]]) /\ NoFault
       \/ /\ IF claim[c].live THEN Fault("error") ELSE NoFault
          /\ UNCHANGED claim /\ Retry(c)
    /\ UNCHANGED <<box, queue, World>>

\* The Sandbox named after the claim; else the queue, unless the claim wants its own.
ByName(c) ==
    LET w == wk[c]
    IN  /\ w.pc = "byname"
        /\ IF seenBox[c] = c THEN Goto(c, [w EXCEPT !.pc = "publish", !.cand = c])
           ELSE IF seenBox[c] # "none" THEN Retry(c)
           ELSE Goto(c, [w EXCEPT !.pc = IF c \in ForceCold THEN "create" ELSE "pick"])
        /\ NoFault /\ UNCHANGED <<claim, box, queue, World>>

---------------------------------------------------------------------------
\* getCandidate: one key after another, until one is ready or none is left.

Kept(w) == w.skip \cup ({w.fall} \ {"none"})

PopKey(c) ==
    LET w == wk[c]
    IN  /\ w.pc = "pick"
        /\ \E s \in queue :
             IF seenBox[s] # "pool" \/ s \in Stale
             THEN queue' = queue \ {s} /\ UNCHANGED <<wk, due>>
             ELSE IF net[s] = "ready"
             THEN /\ queue' = (queue \ {s}) \cup Kept(w)
                  /\ Goto(c, [w EXCEPT !.pc = "assign", !.cand = s, !.popped = TRUE,
                                       !.skip = {}, !.fall = "none"])
             ELSE /\ queue' = queue \ {s}
                  /\ Goto(c, IF net[s] = "unready" /\ w.fall = "none"
                             THEN [w EXCEPT !.fall = s]
                             ELSE [w EXCEPT !.skip = @ \cup {s}])
        /\ NoFault /\ UNCHANGED <<claim, box, World>>

\* Nothing left: the fallback; or, with candidates that await their network, another try
\* within the grace period; or a cold start.
QueueEmpty(c) ==
    LET w == wk[c]
    IN  /\ w.pc = "pick" /\ queue = {}
        /\ queue' = w.skip
        /\ IF w.fall # "none"
           THEN Goto(c, [w EXCEPT !.pc = "assign", !.cand = w.fall, !.popped = TRUE,
                                  !.skip = {}, !.fall = "none"])
           ELSE IF w.skip # {} /\ c \in young THEN Retry(c)
           ELSE Goto(c, [w EXCEPT !.pc = "confirm", !.skip = {}])
        /\ NoFault /\ UNCHANGED <<claim, box, World>>

---------------------------------------------------------------------------
\* adoptSandboxFromCandidates.

\* Faulty: the key of a failed adoption is forgotten.
PutBackNever(c) == UNCHANGED queue

PutBack(c) == queue' = IF wk[c].popped THEN queue \cup {wk[c].cand} ELSE queue

\* The claim is updated with a lock on what was read.
Assign(c) ==
    LET w == wk[c]
    IN  /\ w.pc = "assign"
        /\ \/ /\ claim[c] = w.view /\ NoFault
              /\ claim' = [claim EXCEPT ![c].ann = w.cand] /\ UNCHANGED queue
              /\ Goto(c, [w EXCEPT !.pc = "complete", !.view = claim'[c]])
           \/ /\ IF claim[c] = w.view THEN Fault("busy") ELSE claim[c].live /\ NoFault
              /\ Goto(c, [w EXCEPT !.pc = "reassign"]) /\ UNCHANGED <<claim, queue>>
           \/ /\ IF claim[c].live THEN Fault("error") ELSE NoFault
              /\ PutBack(c) /\ Retry(c) /\ UNCHANGED claim
        /\ UNCHANGED <<box, World>>

\* retryAdoptionAnnotation: on a fresh base, unless another Sandbox is recorded by now.
Reassign(c) ==
    LET w == wk[c]
    IN  /\ w.pc = "reassign"
        /\ \/ /\ claim[c].live /\ claim[c].ann \in {"none", w.cand} /\ NoFault
              /\ claim' = [claim EXCEPT ![c].ann = w.cand] /\ UNCHANGED queue
              /\ Goto(c, [w EXCEPT !.pc = "complete", !.view = claim'[c]])
           \/ /\ IF claim[c].live /\ claim[c].ann \in {"none", w.cand} THEN Fault("busy") ELSE NoFault
              /\ PutBack(c) /\ Retry(c) /\ UNCHANGED claim
        /\ UNCHANGED <<box, World>>

\* Faulty: the patch has no lock on the Sandbox that was read.
CompleteUnlocked(c) ==
    LET w == wk[c]
    IN  /\ w.pc = "complete" /\ box[w.cand] # "none"
        /\ \/ /\ box' = [box EXCEPT ![w.cand] = c] /\ UNCHANGED queue
              /\ Goto(c, [w EXCEPT !.pc = "publish"]) /\ NoFault
           \/ Fault("error") /\ PutBack(c) /\ Retry(c) /\ UNCHANGED box
        /\ UNCHANGED <<claim, World>>

\* completeAdoption: a patch with a lock moves the Sandbox from the pool to the claim.
Complete(c) ==
    LET w == wk[c]
    IN  /\ w.pc = "complete"
        /\ \/ /\ box[w.cand] = "pool" /\ NoFault
              /\ box' = [box EXCEPT ![w.cand] = c] /\ UNCHANGED queue
              /\ Goto(c, [w EXCEPT !.pc = "publish"])
           \/ /\ IF box[w.cand] = "pool" THEN Fault("busy") ELSE NoFault
              /\ Goto(c, [w EXCEPT !.pc = "resolve"]) /\ UNCHANGED <<box, queue>>
           \/ Fault("error") /\ PutBack(c) /\ Retry(c) /\ UNCHANGED box
        /\ UNCHANGED <<claim, World>>

\* resolveAdoptionCompletion, on fresh reads: already ours, patched again, lost for good;
\* or still contended, and then the reference stays.
Resolve(c) ==
    LET w == wk[c]
    IN  /\ w.pc = "resolve"
        /\ \/ /\ box[w.cand] \in {"pool", c} /\ NoFault
              /\ box' = [box EXCEPT ![w.cand] = c] /\ Goto(c, [w EXCEPT !.pc = "publish"])
           \/ /\ box[w.cand] \notin {"pool", c} /\ NoFault
              /\ Goto(c, [w EXCEPT !.pc = "clear"]) /\ UNCHANGED box
           \/ box[w.cand] = "pool" /\ Fault("busy") /\ Retry(c) /\ UNCHANGED box
        /\ UNCHANGED <<claim, queue, World>>

\* removeAssignedSandboxReference: that reference only, on a fresh base.
Clear(c) ==
    /\ wk[c].pc = "clear" /\ Retry(c)
    /\ \/ /\ NoFault
          /\ claim' = IF claim[c].live /\ claim[c].ann = wk[c].cand
                      THEN [claim EXCEPT ![c].ann = "none"] ELSE claim
       \/ Fault("error") /\ UNCHANGED claim
    /\ UNCHANGED <<box, queue, World>>

---------------------------------------------------------------------------
\* The cold path of reconcileActive.

\* Faulty: the cached claim is trusted.
ConfirmCached(c) ==
    /\ wk[c].pc = "confirm" /\ Goto(c, [wk[c] EXCEPT !.pc = "create"])
    /\ NoFault /\ UNCHANGED <<claim, box, queue, World>>

\* A fresh read of the claim: nothing was assigned by an earlier pass.
Confirm(c) ==
    LET w == wk[c]
    IN  /\ w.pc = "confirm"
        /\ \/ /\ NoFault
              /\ IF ~claim[c].live THEN Finish(c)
                 ELSE IF claim[c].ann # "none" \/ claim[c].status # "none" THEN Retry(c)
                 ELSE Goto(c, [w EXCEPT !.pc = "create"])
           \/ Fault("unread") /\ Goto(c, [w EXCEPT !.pc = "create"])
        /\ UNCHANGED <<claim, box, queue, World>>

\* Faulty: a cold Sandbox is recorded as an adopted one.
CreateRecorded(c) ==
    /\ wk[c].pc = "create" /\ box[c] \in {"none", c} /\ NoFault
    /\ box' = [box EXCEPT ![c] = c] /\ claim' = [claim EXCEPT ![c].ann = c]
    /\ Goto(c, [wk[c] EXCEPT !.pc = "publish", !.cand = c]) /\ UNCHANGED <<queue, World>>

\* createSandbox; an existing one is taken if it is ours.
Create(c) ==
    LET w == wk[c]
    IN  /\ w.pc = "create"
        /\ \/ /\ box[c] \in {"none", c} /\ NoFault
              /\ box' = [box EXCEPT ![c] = c] /\ Goto(c, [w EXCEPT !.pc = "publish", !.cand = c])
           \/ box[c] = c /\ Fault("unread") /\ Retry(c) /\ UNCHANGED box
           \/ Fault("error") /\ Retry(c) /\ UNCHANGED box
        /\ UNCHANGED <<claim, queue, World>>

---------------------------------------------------------------------------
\* updateStatus: with a lock; then once on a fresh base, unless the server is Ready already
\* and the worker did not know; then dropped: the write it met brings an event.
Satisfied(w, cur, up) == ~w.view.up /\ cur.up /\ ~up

UpdateStatus(c, s, up, exp) ==
    LET w == wk[c]
    IN  \/ /\ claim[c].live /\ (claim[c] = w.view \/ ~Satisfied(w, claim[c], up)) /\ NoFault
           /\ claim' = [claim EXCEPT ![c].status = s, ![c].up = up, ![c].exp = exp]
        \/ /\ claim[c] # w.view
           /\ IF claim[c].live /\ ~Satisfied(w, claim[c], up) THEN Fault("busy") ELSE NoFault
           /\ UNCHANGED claim

Publish(c) ==
    /\ wk[c].pc = "publish" /\ Finish(c)
    /\ UpdateStatus(c, wk[c].cand, net[wk[c].cand] = "ready", FALSE)
    /\ UNCHANGED <<box, queue, World>>

\* The first pass that finds the claim expired says so, and comes back.
MarkExpired(c) ==
    /\ wk[c].pc = "mark" /\ Retry(c)
    /\ UpdateStatus(c, wk[c].view.status, FALSE, TRUE)
    /\ UNCHANGED <<box, queue, World>>

\* Faulty: only the status is cleared.
ReconcileExpiredStatusOnly(c) ==
    /\ wk[c].pc = "expire" /\ Finish(c) /\ UpdateStatus(c, "none", FALSE, TRUE)
    /\ UNCHANGED <<box, queue, World>>

\* reconcileExpired: the Sandbox of the status, or the one named after the claim, goes if
\* it is the claim's; with none left the status is cleared.
ReconcileExpired(c) ==
    LET w == wk[c]
        s == IF w.view.status # "none" THEN w.view.status ELSE c
    IN  /\ w.pc = "expire"
        /\ \/ /\ seenBox[s] = c /\ NoFault
              /\ box' = [box EXCEPT ![s] = "none"] /\ UNCHANGED claim
              /\ IF box[s] = "none" THEN Retry(c) ELSE Finish(c)
           \/ /\ seenBox[s] # c /\ UpdateStatus(c, "none", FALSE, TRUE) /\ UNCHANGED box
              /\ IF seenBox[s] = "none" THEN Finish(c) ELSE Retry(c)
           \/ Fault("error") /\ Retry(c) /\ UNCHANGED <<claim, box>>
        /\ UNCHANGED <<queue, World>>

---------------------------------------------------------------------------
Work(c) ==
    \/ Start(c) \/ Lookup(c) \/ Unref(c) \/ ByName(c) \/ PopKey(c) \/ QueueEmpty(c)
    \/ Assign(c) \/ Reassign(c) \/ Complete(c) \/ Resolve(c) \/ Clear(c)
    \/ Confirm(c) \/ Create(c) \/ Publish(c) \/ MarkExpired(c) \/ ReconcileExpired(c)
Deliver == (\E c \in Claims : DeliverClaim(c)) \/ \E s \in Boxes : DeliverBox(s)
Others ==
    \/ Crash
    \/ \E c \in Claims : DeleteClaim(c) \/ Collect(c) \/ GrowOld(c) \/ Expire(c)
    \/ \E s \in Boxes : Network(s) \/ DeleteBox(s)

Next == (\E c \in Claims : Work(c)) \/ Deliver \/ Others
Spec == Init /\ [][Next]_vars

---------------------------------------------------------------------------
ClaimRecords ==
    [live : BOOLEAN, ann : Warm \cup {"none"}, status : Boxes \cup {"none"},
     up : BOOLEAN, exp : BOOLEAN]
WorkerRecords ==
    [pc : {"idle", "lookup", "unref", "byname", "pick", "assign", "reassign", "complete",
           "resolve", "clear", "confirm", "create", "publish", "mark", "expire"},
     view : ClaimRecords, cand : Boxes \cup {"none"}, popped : BOOLEAN,
     fall : Warm \cup {"none"}, skip : SUBSET Warm]
Owners == Claims \cup {"pool", "none"}

\* A worker's candidate and a claim's reference and status are Sandboxes or none, the keys are
\* of warm Sandboxes, and every owner is a claim, the pool or nobody.
TypeOK ==
    /\ claim \in [Claims -> ClaimRecords] /\ seenClaim \in [Claims -> ClaimRecords]
    /\ box \in [Boxes -> Owners] /\ seenBox \in [Boxes -> Owners]
    /\ net \in [Boxes -> {"pending", "unready", "ready"}]
    /\ queue \subseteq Warm /\ wk \in [Claims -> WorkerRecords]
    /\ due \subseteq Claims /\ young \subseteq Claims /\ expired \subseteq Claims
    /\ deletes \in 0..MaxDeletes /\ faults \in 0..MaxFaults

\* A Sandbox of one claim is never handed to another, and never returns to the pool: the
\* lock in completeAdoption and the authoritative read after it.
NeverStolen == [][\A s \in Boxes : box[s] \in Claims => box'[s] \in {box[s], "none"}]_vars

\* "Each claim must own exactly one sandbox": never two at a time.
OneSandboxPerClaim ==
    \A c \in Claims : claim[c].live => Cardinality({s \in Boxes : box[s] = c}) <= 1

\* Ownership moves as ClaimAssignment says.
Ownership == INSTANCE ClaimAssignment WITH holder <- box
ImplementsAssignment == Ownership!Assignment

\* A warm Sandbox of the current template is never forgotten: its key is in the queue or
\* with a worker, or a claim that is still there refers to it (the key of an assigned
\* candidate "is deliberately not re-queued").
NoLostCandidate ==
    \A s \in Warm \ Stale :
        box[s] = "pool" =>
          \/ s \in queue
          \/ \E c \in Claims : s \in Kept(wk[c]) \cup {wk[c].cand}
          \/ \E c \in Claims : claim[c].live /\ claim[c].ann = s

\* A claim that is there, in time, and whose Sandboxes nobody else deleted, has one, and its
\* status says which.
Served(c) ==
    claim[c].live /\ c \notin expired /\ deletes = 0 =>
        claim[c].status # "none" /\ box[claim[c].status] = c

\* A claim past its shutdown time, and one without a Sandbox.
Overdue(c) == c \in expired
Released(c) == \A s \in Boxes : box[s] # c
=============================================================================
