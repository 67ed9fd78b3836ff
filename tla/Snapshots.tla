--------------------------------- MODULE Snapshots ---------------------------------
(***************************************************************************)
(* Pod snapshots of the Python client: the engine that makes, lists and     *)
(* deletes them, and the sandboxes that are suspended into one and resumed  *)
(* from it. They share no state; each has its own initial predicate and     *)
(* next-state relation.                                                     *)
(***************************************************************************)
EXTENDS Naturals, Sequences, FiniteSets, SequencesExt, FiniteSetsExt

CONSTANTS
    Triggers,     \* PodSnapshotManualTriggers the handle may create
    MaxSnaps,     \* PodSnapshots, numbered in the order of their creation
    Foreign,      \* snapshots of another sandbox in the namespace: other name hash
    MaxCalls, Faults, MaxFaults,
    MaxRetries    \* attempts of delete_manual_triggers

CONSTANTS
    SuspendMaxSnaps,    \* snapshots are numbered in the order of their creation
    MaxPods,     \* pods of the sandbox, the first included
    SuspendMaxCalls,    \* calls the program makes
    SuspendFaults,      \* which requests and waits may fail
    SuspendMaxFaults,   \* how often
    Legacy       \* the sandbox carries the pod-name annotation of an adopted pod

VARIABLES
    trigger,    \* the triggers in the cluster
    snap,       \* the snapshots in the cluster
    claim,      \* the SandboxClaim exists
    news,       \* events of the open watch that were not read yet
    made,       \* created_manual_triggers
    attached,   \* _snapshots is not None
    pc, call,   \* the handle's call: its arguments and local variables
    answer,     \* what the last call returned
    calls, faults

VARIABLES
    mode,      \* spec.operatingMode of the Sandbox
    ann,       \* the restore annotation of the SandboxClaim: a snapshot, 0 when absent
    sbann,     \* the same annotation in the Sandbox's pod template
    named,     \* the Sandbox has a pod-name annotation
    pod,       \* the sandbox's pod; uid 0 when there is none
    born,      \* pods created so far
    snaps,     \* the PodSnapshots of the sandbox
    cached,    \* _pod_name of the handle
    suspendPc, suspendCall,  \* where the handle's call is, and its arguments and local variables
    suspendAnswer,    \* what the last call returned
    suspendCalls, suspendFaults

-----------------------------------------------------------------------------
(***************************************************************************)
(* SnapshotEngine (gke_extensions/snapshots): create with its watch on the  *)
(* trigger, list with its filters, delete and delete_all with the wait for  *)
(* the confirmation, and the removal of the triggers when the sandbox is    *)
(* terminated.  The snapshot service answers triggers and finalises         *)
(* deletions when it likes; another program may delete what it wants.       *)
(***************************************************************************)
engineVars == <<trigger, snap, claim, news, made, attached, pc, call, answer, calls, faults>>
cluster == <<trigger, snap, claim>>

Snaps == 1..MaxSnaps
NoCall == [op |-> "none", t |-> "none", todo |-> <<>>, targets |-> {}, deleted |-> {},
           errors |-> {}, asked |-> {}, rv |-> FALSE, attempt |-> 0, left |-> {}]
NoAnswer == [op |-> "none", result |-> "none", uid |-> 0, deleted |-> {}, targets |-> {}]

EngineInit ==
    /\ trigger = [t \in Triggers |-> "none"]
    /\ snap = [s \in Snaps |-> IF s \in Foreign THEN "ready" ELSE "none"]
    /\ claim = TRUE /\ news = <<>> /\ made = {} /\ attached = TRUE
    /\ pc = "idle" /\ call = NoCall /\ answer = NoAnswer /\ calls = 0 /\ faults = 0

Fault(f) == f \in Faults /\ faults < MaxFaults /\ faults' = faults + 1
NoFault == UNCHANGED faults

Go(p) == pc' = p /\ UNCHANGED answer
Answer(result, uid) ==
    /\ pc' = "idle" /\ call' = NoCall
    /\ answer' = [op |-> call.op, result |-> result, uid |-> uid, deleted |-> call.deleted,
                  targets |-> call.targets]

Begin(op) ==
    /\ pc = "idle" /\ calls < MaxCalls /\ calls' = calls + 1 /\ answer' = NoAnswer
    /\ news' = <<>> /\ NoFault /\ UNCHANGED <<cluster, made, attached>>

-----------------------------------------------------------------------------
(* The snapshot service *)

Watched(t) == pc = "watch" /\ call.t = t
Alive == {"ready", "pending", "deleting"}
Fresh == {s \in Snaps : snap[s] = "none"}

\* A trigger is answered: complete with its snapshot, complete but still without its metadata, or
\* failed.  An open watch is told.
Process(t) ==
    /\ trigger[t] \in {"pending", "empty"}
    /\ \/ /\ Fresh # {} /\ NoFault
          /\ LET s == CHOOSE s \in Fresh : \A r \in Fresh : s <= r IN
               /\ trigger' = [trigger EXCEPT ![t] = "complete"]
               /\ \E st \in {"ready", "pending"} : snap' = [snap EXCEPT ![s] = st]
               /\ news' = IF Watched(t) THEN Append(news, [type |-> "complete", uid |-> s]) ELSE news
       \/ /\ trigger[t] = "pending" /\ \E f \in {"failed", "empty"} :
               /\ Fault(f) /\ trigger' = [trigger EXCEPT ![t] = f] /\ UNCHANGED snap
               /\ news' = IF Watched(t) THEN Append(news, [type |-> f, uid |-> 0]) ELSE news
    /\ UNCHANGED <<claim, made, attached, pc, call, answer, calls>>

\* Another program deletes a trigger.
OtherDeletes(t) ==
    /\ trigger[t] \notin {"none", "gone"} /\ Fault("other")
    /\ trigger' = [trigger EXCEPT ![t] = "gone"]
    /\ news' = IF Watched(t) THEN Append(news, [type |-> "deleted", uid |-> 0]) ELSE news
    /\ UNCHANGED <<snap, claim, made, attached, pc, call, answer, calls>>

\* A snapshot becomes ready; one whose deletion was asked for disappears.
Settle(s) ==
    /\ \/ snap[s] = "pending" /\ snap' = [snap EXCEPT ![s] = "ready"] /\ UNCHANGED news
       \/ /\ snap[s] = "deleting" /\ snap' = [snap EXCEPT ![s] = "gone"]
          /\ news' = IF (pc = "confirm" /\ Head(call.todo) = s) \/ (pc \in {"get", "open"} /\ Head(call.todo) = s /\ call.rv)
                     THEN Append(news, [type |-> "deleted", uid |-> s]) ELSE news
    /\ UNCHANGED <<trigger, claim, made, attached, pc, call, answer, calls, faults>>

-----------------------------------------------------------------------------
(* create *)

StartCreate(t) ==
    /\ trigger[t] = "none" /\ attached /\ Begin("create")
    /\ call' = [NoCall EXCEPT !.op = "create", !.t = t] /\ pc' = "post"

\* The POST: accepted and remembered, refused, or accepted with its answer lost.
PostTrigger ==
    /\ pc = "post"
    /\ \/ /\ NoFault /\ trigger' = [trigger EXCEPT ![call.t] = "pending"]
          /\ made' = made \cup {call.t} /\ Go("watch") /\ UNCHANGED call
       \/ Fault("refuse") /\ UNCHANGED <<trigger, made>> /\ Answer("failure", 0)
       \/ /\ Fault("lost") /\ trigger' = [trigger EXCEPT ![call.t] = "pending"] /\ UNCHANGED made
          /\ Answer("failure", 0)
    /\ UNCHANGED <<snap, claim, news, attached, calls>>

\* wait_for_snapshot_to_be_completed: events since the version the POST answered, until one is
\* conclusive; an ERROR event and the end of the stream fail the call.
Watch ==
    /\ pc = "watch"
    /\ \/ /\ news # <<>> /\ news' = Tail(news) /\ NoFault
          /\ \/ Head(news).type = "complete" /\ Answer("success", Head(news).uid)
             \/ Head(news).type \in {"failed", "deleted"} /\ Answer("failure", 0)
             \/ Head(news).type = "empty" /\ UNCHANGED <<pc, call, answer>>
       \/ Fault("watch") /\ Answer("failure", 0) /\ UNCHANGED news
       \/ news = <<>> /\ Fault("slow") /\ Answer("timeout", 0) /\ UNCHANGED news
    /\ UNCHANGED <<cluster, made, attached, calls>>

-----------------------------------------------------------------------------
(* list *)

\* The snapshots of this sandbox's name hash within the filter; bounds are inclusive.
Listing(readyOnly, after, before) ==
    {s \in Snaps \ Foreign : /\ snap[s] \in Alive /\ (readyOnly => snap[s] = "ready")
                             /\ s >= after /\ s <= before}

NewestFirst(S) == SetToSortSeq(S, LAMBDA a, b : a > b)

-----------------------------------------------------------------------------
(* delete and delete_all *)

StartDelete(s) ==
    /\ snap[s] # "none" /\ s \notin Foreign /\ attached /\ Begin("delete")
    /\ call' = [NoCall EXCEPT !.op = "delete", !.todo = <<s>>, !.targets = {s}]
    /\ pc' = "delete"

StartDeleteAll(after, before) ==
    /\ attached /\ Begin("delete_all") /\ pc' = "list"
    /\ call' = [NoCall EXCEPT !.op = "delete_all", !.todo = <<after, before>>]

\* Every snapshot in range is a target, ready or not; no target is a success.
ListTargets ==
    /\ pc = "list"
    /\ \/ Fault("list") /\ Answer("failure", 0)
       \/ LET found == Listing(FALSE, call.todo[1], call.todo[2]) IN
            /\ NoFault
            /\ IF found = {} THEN Answer("success", 0)
               ELSE /\ Go("delete")
                    /\ call' = [call EXCEPT !.todo = NewestFirst(found), !.targets = found]
    /\ UNCHANGED <<cluster, news, made, attached, calls>>

\* The loop over the snapshots goes on, or the call returns: success without errors.
Finished(c) ==
    IF Len(c.todo) > 1
      THEN Go("delete") /\ call' = [c EXCEPT !.todo = Tail(c.todo), !.rv = FALSE]
      ELSE /\ pc' = "idle" /\ call' = NoCall
           /\ answer' = [op |-> c.op, uid |-> 0, deleted |-> c.deleted, targets |-> c.targets,
                         result |-> IF c.errors = {} THEN "success" ELSE "failure"]

Deleted(c, s) == Finished([c EXCEPT !.deleted = @ \cup {s}])
Error(c, s) == Finished([c EXCEPT !.errors = @ \cup {s}])

\* The DELETE: with finalizers the answer is the object and its version, without them a Status;
\* 404 counts as neither deleted nor failed.
SendDelete ==
    /\ pc = "delete"
    /\ LET s == Head(call.todo)
           asked == [call EXCEPT !.asked = @ \cup {s}] IN
         \/ /\ snap[s] \in Alive /\ NoFault /\ news' = <<>> /\ Go("get")
            /\ \/ snap' = [snap EXCEPT ![s] = "deleting"] /\ call' = [asked EXCEPT !.rv = TRUE]
               \/ snap' = [snap EXCEPT ![s] = "gone"] /\ call' = asked
         \/ /\ snap[s] \in {"gone", "none"} /\ NoFault /\ Finished(asked) /\ UNCHANGED <<snap, news>>
         \/ Fault("refuse") /\ Error(asked, s) /\ UNCHANGED <<snap, news>>
    /\ UNCHANGED <<trigger, claim, made, attached, calls>>

\* wait_for_snapshot_deletion first looks whether the snapshot is gone already.
LookGone ==
    /\ pc = "get" /\ UNCHANGED <<cluster, news, made, attached, calls>>
    /\ LET s == Head(call.todo) IN
         \/ snap[s] \notin Alive /\ NoFault /\ Deleted(call, s)
         \/ snap[s] \in Alive /\ NoFault /\ Go("open") /\ UNCHANGED call
         \/ Fault("get") /\ Error(call, s)

\* The watch opens, at the version of the deletion when it has one, else at the present.
OpenWatch ==
    /\ pc = "open" /\ Go("confirm") /\ NoFault /\ UNCHANGED <<cluster, news, made, attached, call, calls>>

\* Then it waits for the DELETED event.
Confirm ==
    /\ pc = "confirm" /\ UNCHANGED <<cluster, made, attached, calls>>
    /\ LET s == Head(call.todo) IN
         \/ news # <<>> /\ NoFault /\ news' = <<>> /\ Deleted(call, s)
         \/ Fault("watch") /\ Error(call, s) /\ UNCHANGED news
         \/ news = <<>> /\ Fault("slow") /\ Error(call, s) /\ UNCHANGED news

-----------------------------------------------------------------------------
(* terminate *)

StartTerminate ==
    /\ Begin("terminate") /\ pc' = IF attached THEN "sweep" ELSE "claim"
    /\ call' = [NoCall EXCEPT !.op = "terminate", !.attempt = 1, !.targets = {}, !.left = {}]

Batch == made \ (call.left \cup call.asked)

\* delete_manual_triggers: each trigger of the batch is deleted (404 is fine) or kept for the next
\* of MaxRetries attempts; what is left at the end stays remembered.
Sweep ==
    /\ pc = "sweep"
    /\ \/ \E t \in Batch :
            /\ \/ /\ NoFault /\ trigger' = [trigger EXCEPT ![t] = "gone"]
                  /\ call' = [call EXCEPT !.asked = @ \cup {t}]
               \/ /\ Fault("refuse") /\ UNCHANGED trigger
                  /\ call' = [call EXCEPT !.left = @ \cup {t}]
            /\ Go("sweep") /\ UNCHANGED made
       \/ /\ Batch = {} /\ NoFault /\ UNCHANGED trigger
          /\ IF call.left # {} /\ call.attempt < MaxRetries
               THEN /\ call' = [call EXCEPT !.left = {}, !.attempt = @ + 1]
                    /\ Go("sweep") /\ UNCHANGED made
               ELSE made' = call.left /\ Go("claim") /\ UNCHANGED call
    /\ UNCHANGED <<snap, claim, news, attached, calls>>

\* Sandbox.terminate follows in any case; the engine is dropped when it does not raise.
DeleteClaim ==
    /\ pc = "claim"
    /\ \/ NoFault /\ claim' = FALSE /\ attached' = FALSE /\ Answer("success", 0)
       \/ claim /\ Fault("claim") /\ UNCHANGED <<claim, attached>> /\ Answer("raised", 0)
    /\ UNCHANGED <<trigger, snap, news, made, calls>>

-----------------------------------------------------------------------------
Service == \/ \E t \in Triggers : Process(t) \/ OtherDeletes(t)
           \/ \E s \in Snaps : Settle(s)

Program == \/ \E t \in Triggers : StartCreate(t)
           \/ \E s \in Snaps : StartDelete(s)
           \/ \E after, before \in Snaps : after <= before /\ StartDeleteAll(after, before)
           \/ StartTerminate

Engine == \/ PostTrigger \/ Watch \/ ListTargets \/ SendDelete \/ LookGone \/ OpenWatch \/ Confirm
          \/ Sweep \/ DeleteClaim

EngineNext == Service \/ Program \/ Engine

EngineSpec == EngineInit /\ [][EngineNext]_engineVars

-----------------------------------------------------------------------------
(* Properties *)

\* Every snapshot that delete or delete_all reports as deleted is gone, and when it reports success
\* so is every snapshot it found: a timeout or an error is never a silent success.
DeletedIsGone ==
    pc = "idle" /\ answer.op \in {"delete", "delete_all"} =>
        /\ \A s \in answer.deleted : snap[s] = "gone"
        /\ answer.result = "success" => \A s \in answer.targets : snap[s] \in {"gone", "none"}

\* No deletion reaches a snapshot of another sandbox of the namespace, nor one outside the range.
OnlyOwn == \A s \in Foreign : snap[s] = "ready"

\* One snapshot that cannot be deleted does not keep delete_all from the others.
DeletesEach ==
    (pc \in {"delete", "get", "open", "confirm"} /\ pc' = "idle")
     => (call.asked \cup {Head(call.todo)} = call.targets)

Confirming == pc = "confirm"
EngineIdle == pc = "idle"

\* terminate() that returns has deleted the claim, whatever happened to the triggers; one that
\* raised keeps the engine, and can be called again.
TerminateReaches ==
    pc = "idle" /\ answer.op = "terminate" => /\ answer.result = "success" => ~claim
                                              /\ answer.result = "raised" => attached

-----------------------------------------------------------------------------
(***************************************************************************)
(* SandboxWithSnapshotSupport (gke_extensions/snapshots): suspend, resume   *)
(* and restore of one sandbox by one handle, against the sandbox            *)
(* controller, the claim controller that copies the restore annotation, and *)
(* the snapshot service that decides from what a new pod is restored.       *)
(* SnapshotEngine.create is one step here (module SnapshotEngine has its    *)
(* own); every other request is a step of its own.                          *)
(***************************************************************************)
suspendVars == <<mode, ann, sbann, named, pod, born, snaps, cached, suspendPc, suspendCall, suspendAnswer, suspendCalls, suspendFaults>>
suspendCluster == <<mode, ann, sbann, named, pod, born, snaps>>

SuspendSnaps == 1..SuspendMaxSnaps
NoPod == [uid |-> 0, name |-> "own", ready |-> FALSE, leaving |-> FALSE, from |-> 0]
SuspendNoCall == [op |-> "none", snapshot |-> FALSE, took |-> 0, want |-> 0, uid |-> 0, since |-> 0]
SuspendNoAnswer == [op |-> "none", result |-> "none", restored |-> FALSE, checked |-> FALSE]

Newest == Max({s \in SuspendSnaps : snaps[s] = "ready"} \cup {0})
Unused == {s \in SuspendSnaps : snaps[s] = "none"}

SuspendInit ==
    /\ mode = "Running" /\ ann = 0 /\ sbann = 0 /\ named = Legacy
    /\ pod = [NoPod EXCEPT !.uid = 1, !.ready = TRUE, !.name = IF Legacy THEN "warm" ELSE "own"]
    /\ born = 1 /\ snaps = [s \in SuspendSnaps |-> "none"] /\ cached = "none"
    /\ suspendPc = "idle" /\ suspendCall = SuspendNoCall /\ suspendAnswer = SuspendNoAnswer /\ suspendCalls = 0 /\ suspendFaults = 0

SuspendFault(f) == f \in SuspendFaults /\ suspendFaults < SuspendMaxFaults /\ suspendFaults' = suspendFaults + 1
SuspendNoFault == UNCHANGED suspendFaults

-----------------------------------------------------------------------------
(* The cluster *)

\* The sandbox controller deletes the pod of a suspended sandbox; the kubelet lets it go.
StopPod ==
    /\ pod.uid # 0
    /\ \/ /\ mode = "Suspended" /\ ~pod.leaving /\ pod' = [pod EXCEPT !.leaving = TRUE]
       \/ /\ pod.leaving /\ pod' = NoPod
    /\ UNCHANGED <<mode, ann, sbann, named, born, snaps, cached, suspendPc, suspendCall, suspendAnswer, suspendCalls, suspendFaults>>

\* The controller drops a pod-name annotation whose pod is gone.
ClearName ==
    /\ named /\ pod.uid = 0 /\ named' = FALSE
    /\ UNCHANGED <<mode, ann, sbann, pod, born, snaps, cached, suspendPc, suspendCall, suspendAnswer, suspendCalls, suspendFaults>>

\* The controller creates the pod, under the sandbox's own name.  The snapshot service restores it
\* from the snapshot its template names, from the newest ready one when it names none.
StartPod ==
    /\ mode = "Running" /\ pod.uid = 0 /\ born < MaxPods
    /\ \E s \in {IF sbann # 0 THEN sbann ELSE Newest, 0} :
          /\ pod' = [NoPod EXCEPT !.uid = born + 1, !.from = s]
          /\ IF s = 0 /\ (sbann # 0 \/ Newest # 0) THEN SuspendFault("fresh") ELSE SuspendNoFault
    /\ born' = born + 1 /\ named' = FALSE
    /\ UNCHANGED <<mode, ann, sbann, snaps, cached, suspendPc, suspendCall, suspendAnswer, suspendCalls>>

PodReady ==
    /\ pod.uid # 0 /\ ~pod.ready /\ pod' = [pod EXCEPT !.ready = TRUE]
    /\ UNCHANGED <<mode, ann, sbann, named, born, snaps, cached, suspendPc, suspendCall, suspendAnswer, suspendCalls, suspendFaults>>

\* The claim controller copies the claim's additionalPodMetadata into the Sandbox.
Propagate ==
    /\ sbann # ann /\ sbann' = ann
    /\ UNCHANGED <<mode, ann, named, pod, born, snaps, cached, suspendPc, suspendCall, suspendAnswer, suspendCalls, suspendFaults>>

\* A snapshot whose trigger was answered late becomes ready.
SnapshotReady ==
    /\ \E s \in SuspendSnaps : snaps[s] = "pending" /\ snaps' = [snaps EXCEPT ![s] = "ready"]
    /\ UNCHANGED <<mode, ann, sbann, named, pod, born, cached, suspendPc, suspendCall, suspendAnswer, suspendCalls, suspendFaults>>

-----------------------------------------------------------------------------
(* Helpers of the handle *)

SuspendGo(p) == suspendPc' = p
SuspendAnswer(result, restored, checked) ==
    /\ suspendPc' = "idle" /\ suspendCall' = SuspendNoCall
    /\ suspendAnswer' = [op |-> suspendCall.op, result |-> result, restored |-> restored, checked |-> checked]
Fail == SuspendAnswer("failure", FALSE, FALSE)
Raise == SuspendFault("raise") /\ SuspendAnswer("raised", FALSE, FALSE) /\ UNCHANGED <<suspendCluster, cached, suspendCalls>>

\* get_pod_name: the cached name, else the annotation's, else the sandbox's own.
PodName == IF cached # "none" THEN cached ELSE IF named THEN "warm" ELSE "own"
\* read_namespaced_pod(name)
PodAt(name) == IF pod.uid # 0 /\ pod.name = name THEN pod ELSE NoPod

\* The program calls suspend(snapshot_before_suspend), resume() or restore(uid).
SuspendBegin(op, snapshot, want) ==
    /\ suspendPc = "idle" /\ suspendCalls < SuspendMaxCalls /\ suspendCalls' = suspendCalls + 1
    /\ suspendCall' = [SuspendNoCall EXCEPT !.op = op, !.snapshot = snapshot, !.want = want, !.since = born]
    /\ SuspendGo(IF op = "restore" THEN "list" ELSE "mode") /\ suspendAnswer' = SuspendNoAnswer
    /\ SuspendNoFault /\ UNCHANGED <<suspendCluster, cached>>

\* is_suspended: a read that fails counts as "not suspended".
IsSuspended ==
    /\ suspendPc = "mode"
    /\ \E suspended \in BOOLEAN :
          /\ \/ SuspendNoFault /\ suspended = (mode = "Suspended")
             \/ SuspendFault("mode") /\ ~suspended
          /\ CASE suspendCall.op = "suspend" /\ suspended -> SuspendAnswer("success", FALSE, FALSE)
               [] suspendCall.op = "suspend" /\ ~suspended -> SuspendGo("hash") /\ UNCHANGED <<suspendCall, suspendAnswer>>
               [] suspendCall.op = "resume" /\ suspended -> SuspendGo("list") /\ UNCHANGED <<suspendCall, suspendAnswer>>
               [] suspendCall.op = "resume" /\ ~suspended -> SuspendAnswer("success", FALSE, FALSE)
               [] suspendCall.op = "restore" /\ suspended -> SuspendGo("annotate") /\ UNCHANGED <<suspendCall, suspendAnswer>>
               [] suspendCall.op = "restore" /\ ~suspended -> Fail
    /\ UNCHANGED <<suspendCluster, cached, suspendCalls>>

-----------------------------------------------------------------------------
(* suspend *)

\* The name hash is read while the sandbox still runs: without it no snapshot is found later.
NameHash ==
    /\ suspendPc = "hash"
    /\ \/ /\ SuspendNoFault /\ UNCHANGED <<suspendCall, suspendAnswer>>
          /\ SuspendGo(IF suspendCall.snapshot THEN "snapshot" ELSE "poduid")
       \/ SuspendFault("list") /\ Fail
    /\ UNCHANGED <<suspendCluster, cached, suspendCalls>>

\* snapshots.create: done, refused, or timed out on a snapshot that is finished later.
Snapshot ==
    /\ suspendPc = "snapshot" /\ cached' = PodName
    /\ \/ /\ SuspendNoFault /\ Unused # {} /\ pod.uid # 0
          /\ snaps' = [snaps EXCEPT ![Min(Unused)] = "ready"]
          /\ suspendCall' = [suspendCall EXCEPT !.took = Min(Unused)] /\ SuspendGo("poduid") /\ UNCHANGED suspendAnswer
       \/ SuspendFault("snapshot") /\ Fail /\ UNCHANGED snaps
       \/ /\ Unused # {} /\ SuspendFault("late") /\ Fail
          /\ snaps' = [snaps EXCEPT ![Min(Unused)] = "pending"]
       \/ SuspendNoFault /\ (Unused = {} \/ pod.uid = 0) /\ Fail /\ UNCHANGED snaps
    /\ UNCHANGED <<mode, ann, sbann, named, pod, born, suspendCalls>>

\* The pod's uid, for the wait: none when the pod is gone, and none when the read failed.
PodUid ==
    /\ suspendPc = "poduid"
    /\ \/ /\ cached' = PodName /\ SuspendGo("suspend") /\ UNCHANGED <<suspendCluster, suspendAnswer, suspendCalls>>
          /\ \/ SuspendNoFault /\ suspendCall' = [suspendCall EXCEPT !.uid = PodAt(PodName).uid]
             \/ SuspendFault("pod") /\ UNCHANGED suspendCall
       \/ Raise

\* _set_operating_mode: done, refused, or done with its answer lost.
SetMode(m, next) ==
    \/ SuspendNoFault /\ mode' = m /\ SuspendGo(next) /\ UNCHANGED suspendAnswer /\ UNCHANGED suspendCall
    \/ SuspendFault("patch") /\ UNCHANGED mode /\ Fail
    \/ SuspendFault("lost") /\ mode' = m /\ Fail

\* The connection is closed and the pod's name forgotten only after the patch.
Suspend ==
    /\ suspendPc = "suspend" /\ SetMode("Suspended", "gone")
    /\ cached' = IF suspendPc' = "gone" THEN "none" ELSE cached
    /\ UNCHANGED <<ann, sbann, named, pod, born, snaps, suspendCalls>>

\* wait_for_pod_termination: until the name answers 404 or another uid, or the timeout.
WaitGone ==
    /\ suspendPc = "gone"
    /\ \/ (suspendCall.uid = 0 \/ pod.uid # suspendCall.uid) /\ SuspendNoFault /\ SuspendAnswer("success", FALSE, FALSE)
       \/ suspendCall.uid # 0 /\ SuspendFault("slow") /\ Fail
    /\ UNCHANGED <<suspendCluster, cached, suspendCalls>>

-----------------------------------------------------------------------------
(* resume and restore *)

\* resume takes the newest ready snapshot, restore wants its own to be among the ready ones.
List ==
    /\ suspendPc = "list" /\ cached' = PodName
    /\ \/ SuspendFault("list") /\ Fail
       \/ /\ SuspendNoFault /\ suspendCall.op = "resume" /\ SuspendGo("annotate") /\ UNCHANGED suspendAnswer
          /\ suspendCall' = [suspendCall EXCEPT !.want = Newest]
       \/ /\ SuspendNoFault /\ suspendCall.op = "restore" /\ snaps[suspendCall.want] = "ready"
          /\ SuspendGo("mode") /\ UNCHANGED <<suspendAnswer, suspendCall>>
       \/ SuspendNoFault /\ suspendCall.op = "restore" /\ snaps[suspendCall.want] # "ready" /\ Fail
    /\ UNCHANGED <<suspendCluster, suspendCalls>>

Pin == IF suspendCall.op = "restore" THEN suspendCall.want ELSE 0

\* patch_sandbox_claim: restore pins its snapshot, resume takes the pin away.
Annotate ==
    /\ suspendPc = "annotate"
    /\ \/ SuspendNoFault /\ ann' = Pin /\ SuspendGo("spread") /\ UNCHANGED <<suspendAnswer, suspendCall>>
       \/ SuspendFault("claim") /\ UNCHANGED ann /\ Fail
       \/ SuspendFault("lost") /\ ann' = Pin /\ Fail
    /\ UNCHANGED <<mode, sbann, named, pod, born, snaps, cached, suspendCalls>>

\* wait_for_sandbox_propagation: until the Sandbox shows the pin, or the timeout.
WaitSpread ==
    /\ suspendPc = "spread"
    /\ \/ sbann = Pin /\ SuspendNoFault /\ SuspendGo("run") /\ UNCHANGED <<suspendAnswer, suspendCall>>
       \/ SuspendFault("slow") /\ Fail
    /\ UNCHANGED <<suspendCluster, cached, suspendCalls>>

\* _restore_internal: the cached name goes first, then the mode is set.
Run ==
    /\ suspendPc = "run" /\ cached' = "none" /\ SetMode("Running", "ready")
    /\ UNCHANGED <<ann, sbann, named, pod, born, snaps, suspendCalls>>

\* wait_for_pod_ready: until the pod of that name is ready and stays, or the timeout.
WaitReady ==
    /\ suspendPc = "ready"
    /\ \/ /\ cached' = PodName /\ UNCHANGED <<suspendCluster, suspendCalls>>
          /\ \/ /\ PodAt(PodName).ready /\ ~PodAt(PodName).leaving
                /\ SuspendNoFault /\ SuspendGo("verify") /\ UNCHANGED <<suspendAnswer, suspendCall>>
             \/ /\ ~PodAt(PodName).ready \/ PodAt(PodName).leaving
                /\ cached = "none" /\ SuspendNoFault /\ UNCHANGED <<suspendPc, suspendCall, suspendAnswer>>
             \/ SuspendFault("slow") /\ Fail
       \/ cached = "none" /\ Raise

\* _is_restored_from_snapshot: the PodRestored condition of the pod names the snapshot.
Verify ==
    /\ suspendPc = "verify" /\ UNCHANGED <<suspendCluster, cached, suspendCalls>>
    /\ \/ SuspendNoFault /\ suspendCall.want = 0 /\ SuspendAnswer("success", FALSE, FALSE)
       \/ /\ SuspendNoFault /\ suspendCall.want # 0 /\ PodAt(PodName).from = suspendCall.want
          /\ SuspendAnswer("success", TRUE, TRUE)
       \/ /\ SuspendNoFault /\ suspendCall.want # 0 /\ PodAt(PodName).from # suspendCall.want
          /\ SuspendAnswer("failure", FALSE, TRUE)
       \/ suspendCall.want # 0 /\ SuspendFault("pod") /\ Fail

-----------------------------------------------------------------------------
SuspendService == StopPod \/ ClearName \/ StartPod \/ PodReady \/ Propagate \/ SnapshotReady

SuspendProgram == \/ \E snapshot \in BOOLEAN : SuspendBegin("suspend", snapshot, 0)
                  \/ SuspendBegin("resume", FALSE, 0)
                  \/ \E s \in SuspendSnaps : snaps[s] # "none" /\ SuspendBegin("restore", FALSE, s)

Handle == \/ IsSuspended \/ NameHash \/ Snapshot \/ PodUid \/ Suspend \/ WaitGone
          \/ List \/ Annotate \/ WaitSpread \/ Run \/ WaitReady \/ Verify

SuspendNext == SuspendService \/ SuspendProgram \/ Handle

SuspendSpec == SuspendInit /\ [][SuspendNext]_suspendVars

-----------------------------------------------------------------------------
(* Properties *)

\* suspend(snapshot_before_suspend=True) stops the sandbox only when its own snapshot is complete:
\* no failed, refused or late snapshot costs the sandbox its state.
NoStopWithoutSnapshot ==
    (mode' = "Suspended" /\ mode = "Running" /\ suspendCall.snapshot)
     => (suspendCall.took # 0 /\ snaps[suspendCall.took] = "ready")

\* A pod that is started for restore(uid) comes up from uid, or fresh when the snapshot service
\* fails, and never from another snapshot; one that is started for resume() never comes up from
\* the pin of an earlier restore when a newer snapshot is ready.
StartsFromPin ==
    (born' # born /\ suspendPc \in {"ready", "verify"})
     => pod'.from \in {IF suspendCall.op = "restore" THEN suspendCall.want ELSE Newest, 0}

\* A call that reports "restored from snapshot" found the wanted snapshot in a pod that was created
\* during that call.
RestoredPodIsNew ==
    (suspendAnswer'.restored /\ ~suspendAnswer.restored) => (pod.uid > suspendCall.since /\ pod.from = suspendCall.want)

ResumeAccepted == suspendPc = "annotate"
ResumeSucceeded == suspendPc = "idle" /\ suspendAnswer.result = "success"

=============================================================================
