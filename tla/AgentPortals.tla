-------------------------------- MODULE AgentPortals --------------------------------
(***************************************************************************)
(* Gateways in front of personal sandboxes: the agents-as-a-service gateway *)
(* of the Hermes example, and the fleet portal of the OpenClaw example.     *)
(* They share no state; each has its own initial predicate and next-state   *)
(* relation.                                                                *)
(***************************************************************************)
EXTENDS Integers, FiniteSets, FiniteSetsExt, TLC

CONSTANTS Ops, MaxClaims,
          Bodyless,     \* whether a response may have no body: HEAD, 204, 304
          MaxFaults     \* API requests of the sweeper that fail

CONSTANTS PortalOps, PortalMaxClaims, MaxPods, MaxMounts,
          Overlap,      \* whether handlers run at the same time
          Sweeper,      \* IDLE_TIMEOUT > 0
          Timeouts,     \* the waits that may reach their deadline
          DaemonFaults  \* the requests to the daemon that may fail

VARIABLES claim,        \* the number of the user's claim, 0 when there is none
          token,        \* [claims -> the signup that minted its token]
          box,          \* [claims -> its sandbox]
          in_flight,
          stamp,        \* last_activity: "none", "recent" or "old"
          ended,        \* when the last request ended, as of the lock: history
          op,           \* [Ops -> the handler]
          sw,           \* the sweeper
          faults

VARIABLES portalClaim,        \* the number of the employee's claim, 0: none
          portalToken,        \* [claims -> the creation whose token it carries]
          portalBox,          \* [claims -> its sandbox: [st, mode]]
          pod,          \* [pods -> [st, box, mounts, started, young]]
          workspace,    \* whether it holds the employee's data
          lost,         \* whether a teardown deleted it, history
          alias,        \* the sandbox the employee's address names, 0: none
          portalStamp,        \* last_activity: "none", "recent" or "old"
          portalOp,           \* [Ops -> the handler]
          portalSw            \* the sandbox the sweeper has found Ready, 0: none

-----------------------------------------------------------------------------
(* The agents-as-a-service gateway, for one user name: signups, proxied      *)
(* requests that wake a suspended agent, and deletions, each in a thread of  *)
(* its own, and the sweeper that suspends an idle agent.                     *)
(*                                                                           *)
(* A claim is numbered, and so is the sandbox it adopts.  The clock is       *)
(* abstracted to whether the last activity is recent or older than           *)
(* IDLE_TIMEOUT.  External: the controllers, which adopt a sandbox, follow   *)
(* its operating mode and write its conditions late; the agent; werkzeug.    *)
gateVars == <<claim, token, box, in_flight, stamp, ended, op, sw, faults>>
gateway == <<in_flight, stamp, ended>>

Claims == 1 .. MaxClaims
NoBox == [st |-> "none", mode |-> "Running", pod |-> FALSE, ready |-> FALSE, suspended |-> FALSE]
New == [pc |-> "new", token |-> "none", seen |-> 0, named |-> FALSE, box |-> 0, answer |-> 0]

Made == Cardinality({n \in Claims : token[n] /= "none"})

Goes(o, changes) == op' = [op EXCEPT ![o] = changes @@ @]
Answers(o, status) == Goes(o, [pc |-> "answered", answer |-> status])
(* The finally of proxy(): the reservation is released, then the answer. *)
Releases(o, status) == Goes(o, [pc |-> "end", answer |-> status])

(* derive_state *)
DeriveState(b) ==
    CASE b.st /= "here" -> "Provisioning"
      [] b.mode = "Suspended" -> IF b.suspended THEN "Suspended" ELSE "Suspending"
      [] OTHER -> IF b.ready THEN "Ready" ELSE "Waking"

-----------------------------------------------------------------------------
(* create_user *)

Signup(o) ==
    /\ op[o].pc = "new"
    /\ IF claim /= 0 THEN Answers(o, 409) ELSE Goes(o, [pc |-> "create", token |-> o])
    /\ UNCHANGED <<claim, token, box, gateway, sw, faults>>

Create(o) ==
    /\ op[o].pc = "create"
    /\ \/ claim /= 0 /\ Answers(o, 409) /\ UNCHANGED <<claim, token>>
       \/ /\ claim = 0 /\ Made < MaxClaims
          /\ claim' = Made + 1 /\ token' = [token EXCEPT ![Made + 1] = o]
          /\ Goes(o, [pc |-> "wait", seen |-> Made + 1])
    /\ UNCHANGED <<box, gateway, sw, faults>>

(* wait_ready returns or gives up; the answer is 201 either way. *)
SignedUp(o) ==
    /\ op[o].pc = "wait" /\ stamp' = "recent" /\ Answers(o, 201)
    /\ UNCHANGED <<claim, token, box, in_flight, ended, sw, faults>>

-----------------------------------------------------------------------------
(* proxy *)

Proxy(o, t) ==
    /\ op[o].pc = "new"
    /\ CASE claim = 0 -> Answers(o, 404)
         [] claim /= 0 /\ t /= token[claim] -> Answers(o, 401)
         [] OTHER -> Goes(o, [pc |-> "admit", token |-> t, seen |-> claim,
                              named |-> box[claim].st /= "none"])
    /\ UNCHANGED <<claim, token, box, gateway, sw, faults>>

Admit(o) ==
    /\ op[o].pc = "admit" /\ in_flight' = in_flight + 1 /\ Goes(o, [pc |-> "stamp"])
    /\ UNCHANGED <<claim, token, box, stamp, ended, sw, faults>>

Stamp(o) ==
    /\ op[o].pc = "stamp" /\ stamp' = "recent" /\ Goes(o, [pc |-> "resolve"])
    /\ UNCHANGED <<claim, token, box, in_flight, ended, sw, faults>>

(* sandbox_of(claim), with the claim as it was read. *)
Resolve(o) ==
    /\ op[o].pc = "resolve"
    /\ IF ~op[o].named \/ box[op[o].seen].st = "gone" THEN Releases(o, 503)
       ELSE Goes(o, [pc |-> IF DeriveState(box[op[o].seen]) = "Ready" THEN "dial" ELSE "wake",
                     box |-> op[o].seen])
    /\ UNCHANGED <<claim, token, box, gateway, sw, faults>>

(* Wake-on-connect: the mode is flipped, and the request held. *)
Wake(o) ==
    /\ op[o].pc = "wake"
    /\ IF box[op[o].box].st = "gone" THEN Releases(o, 500) /\ UNCHANGED box
       ELSE box' = [box EXCEPT ![op[o].box].mode = "Running"] /\ Goes(o, [pc |-> "held"])
    /\ UNCHANGED <<claim, token, gateway, sw, faults>>

(* wait_ready reads the user's claim, and its sandbox, afresh. *)
HeldReady(o) ==
    /\ op[o].pc = "held" /\ claim /= 0 /\ DeriveState(box[claim]) = "Ready"
    /\ stamp' = "recent" /\ Goes(o, [pc |-> "dial", box |-> claim])
    /\ UNCHANGED <<claim, token, box, in_flight, ended, sw, faults>>

HeldTooLong(o) ==
    /\ op[o].pc = "held" /\ Releases(o, 503)
    /\ UNCHANGED <<claim, token, box, gateway, sw, faults>>

(* The agent answers, and relay() owns the reservation; it ends it when it   *)
(* is iterated, which a response without a body never is.                    *)
Dial(o) ==
    /\ op[o].pc = "dial"
    /\ \/ box[op[o].box].pod /\ Goes(o, [pc |-> "relay", answer |-> 200])
       \/ Bodyless /\ box[op[o].box].pod /\ Answers(o, 204)
       \/ \E status \in {500, 502} : Releases(o, status)
    /\ UNCHANGED <<claim, token, box, gateway, sw, faults>>

RelayEnds(o) ==
    /\ op[o].pc = "relay" /\ Releases(o, 200)
    /\ UNCHANGED <<claim, token, box, gateway, sw, faults>>

(* end_flight, under the lock and after it. *)
EndFlight(o) ==
    /\ op[o].pc = "end" /\ in_flight' = Max({in_flight - 1, 0})
    /\ ended' = "recent" /\ Goes(o, [pc |-> "restamp"])
    /\ UNCHANGED <<claim, token, box, stamp, sw, faults>>

Restamp(o) ==
    /\ op[o].pc = "restamp" /\ stamp' = "recent" /\ Answers(o, op[o].answer)
    /\ UNCHANGED <<claim, token, box, in_flight, ended, sw, faults>>

-----------------------------------------------------------------------------
(* delete_user *)

Delete(o, t) ==
    /\ op[o].pc = "new"
    /\ CASE claim = 0 -> Answers(o, 404)
         [] claim /= 0 /\ t /= token[claim] -> Answers(o, 401)
         [] OTHER -> Goes(o, [pc |-> "delete", token |-> t, seen |-> claim])
    /\ UNCHANGED <<claim, token, box, gateway, sw, faults>>

DeleteClaim(o) ==
    /\ op[o].pc = "delete" /\ claim' = 0 /\ stamp' = "none" /\ Answers(o, 200)
    /\ UNCHANGED <<token, box, in_flight, ended, sw, faults>>

-----------------------------------------------------------------------------
(* idle_sweeper *)

SweepGoes(changes) == sw' = changes @@ sw

SweepList ==
    /\ sw.pc = "list" /\ claim /= 0 /\ box[claim].st /= "none"
    /\ SweepGoes([pc |-> "get", box |-> claim])
    /\ UNCHANGED <<claim, token, box, gateway, op, faults>>

SweepGet ==
    /\ sw.pc = "get"
    /\ SweepGoes([pc |-> IF DeriveState(box[sw.box]) = "Ready" THEN "check" ELSE "list"])
    /\ UNCHANGED <<claim, token, box, gateway, op, faults>>

Suspends ==
    IF box[sw.box].st = "gone" THEN UNCHANGED box
    ELSE box' = [box EXCEPT ![sw.box].mode = "Suspended"]

(* Checked and suspended under the lock of the admissions. *)
SweepCheck ==
    /\ sw.pc = "check"
    /\ CASE in_flight > 0 -> UNCHANGED <<box, stamp>>
         [] in_flight = 0 /\ stamp = "none" -> stamp' = "recent" /\ UNCHANGED box
         [] in_flight = 0 /\ stamp = "recent" -> UNCHANGED <<box, stamp>>
         [] OTHER -> Suspends /\ UNCHANGED stamp
    /\ SweepGoes([pc |-> "list"])
    /\ UNCHANGED <<claim, token, in_flight, ended, op, faults>>

(* A transient error ends the cycle and not the thread. *)
SweepFails ==
    /\ sw.pc /= "list" /\ faults < MaxFaults /\ faults' = faults + 1
    /\ SweepGoes([pc |-> "list"])
    /\ UNCHANGED <<claim, token, box, gateway, op>>

-----------------------------------------------------------------------------
(* The controllers and the clock *)

Adopt ==
    /\ claim /= 0 /\ box[claim].st = "none"
    /\ box' = [box EXCEPT ![claim].st = "here", ![claim].pod = TRUE]
    /\ UNCHANGED <<claim, token, gateway, op, sw, faults>>

FollowMode(n) ==
    /\ box[n].st = "here" /\ box[n].pod /= (box[n].mode = "Running")
    /\ box' = [box EXCEPT ![n].pod = ~@]
    /\ UNCHANGED <<claim, token, gateway, op, sw, faults>>

WriteStatus(n) ==
    LET ready == box[n].mode = "Running" /\ box[n].pod
        suspended == box[n].mode = "Suspended" /\ ~box[n].pod
    IN  /\ box[n].st = "here" /\ <<ready, suspended>> /= <<box[n].ready, box[n].suspended>>
        /\ box' = [box EXCEPT ![n].ready = ready, ![n].suspended = suspended]
        /\ UNCHANGED <<claim, token, gateway, op, sw, faults>>

Cascade(n) ==
    /\ claim /= n /\ box[n].st = "here"
    /\ box' = [box EXCEPT ![n] = [NoBox EXCEPT !.st = "gone"]]
    /\ UNCHANGED <<claim, token, gateway, op, sw, faults>>

(* IDLE_TIMEOUT passes. *)
Tick ==
    /\ stamp = "recent" \/ ended = "recent"
    /\ stamp' = (IF stamp = "recent" THEN "old" ELSE stamp) /\ ended' = "old"
    /\ UNCHANGED <<claim, token, box, in_flight, op, sw, faults>>

-----------------------------------------------------------------------------
GateInit ==
    /\ claim = 0 /\ token = [n \in Claims |-> "none"] /\ box = [n \in Claims |-> NoBox]
    /\ in_flight = 0 /\ stamp = "none" /\ ended = "old"
    /\ op = [o \in Ops |-> New] /\ sw = [pc |-> "list", box |-> 0] /\ faults = 0

Handler(o) ==
    \/ Create(o) \/ SignedUp(o)
    \/ Admit(o) \/ Stamp(o) \/ Resolve(o) \/ Wake(o) \/ HeldReady(o) \/ HeldTooLong(o)
    \/ Dial(o) \/ RelayEnds(o) \/ EndFlight(o) \/ Restamp(o)
    \/ DeleteClaim(o)

Sweep == SweepList \/ SweepGet \/ SweepCheck
Controllers == Adopt \/ \E n \in Claims : FollowMode(n) \/ WriteStatus(n) \/ Cascade(n)

(* The tokens somebody holds. *)
Held == {o \in Ops : op[o].answer = 201}

GateNext ==
    \/ \E o \in Ops : Signup(o) \/ Handler(o) \/ \E t \in Held \cup {"wrong"} : Proxy(o, t) \/ Delete(o, t)
    \/ Sweep \/ SweepFails \/ Controllers \/ Tick

(* Threads go on, requests end, the controllers work and time passes. *)
GateSpec == GateInit /\ [][GateNext]_gateVars
            /\ WF_gateVars(Sweep) /\ WF_gateVars(Controllers) /\ WF_gateVars(Tick)
            /\ \A o \in Ops : WF_gateVars(Handler(o))

-----------------------------------------------------------------------------

Reserved == {o \in Ops : op[o].pc \in {"stamp", "resolve", "wake", "held", "dial", "relay", "end"}}

(* The reservations are counted exactly: every way out of proxy() gives its  *)
(* own back, once.                                                           *)
CountIsExact == in_flight = Cardinality(Reserved)

(* An agent is never suspended under a request: between its resolution and   *)
(* the end of its response the sandbox that serves it is to be running.      *)
ServedWhileRunning ==
    \A o \in Ops : op[o].pc \in {"dial", "relay"} /\ claim = op[o].box
        => box[claim].mode = "Running"

(* Of concurrent signups one gets the user: no two are given a token for the *)
(* same claim.                                                               *)
OneSignup ==
    \A o, p \in Ops : op[o].answer = 201 /\ op[p].answer = 201 /\ op[o].seen = op[p].seen => o = p

IsAgent(n) == claim = n
GoneOrSuspended(n) == claim /= n \/ box[n].mode = "Suspended"

-----------------------------------------------------------------------------
(* The OpenClaw fleet portal, for one employee: provision, suspend, wake,    *)
(* rebuild and delete, each in a thread of its own, and the idle sweeper.    *)
(* The employee's workspace is a directory of a shared volume that a daemon  *)
(* binds into the pod; a pod that is torn down while bound takes the         *)
(* workspace with it.                                                        *)
(*                                                                           *)
(* Claims are numbered, and so are their sandboxes; pods are numbered in the *)
(* order of their creation.  External: the controllers, the kubelet, the     *)
(* daemon.                                                                   *)
portalVars == <<portalClaim, portalToken, portalBox, pod, workspace, lost, alias, portalStamp, portalOp, portalSw>>
cluster == <<portalClaim, portalToken, portalBox, pod>>
data == <<workspace, lost>>

PortalClaims == 1 .. PortalMaxClaims
Pods == 1 .. MaxPods
NoPod == [st |-> "none", box |-> 0, mounts |-> 0, started |-> FALSE, young |-> FALSE]
PortalNew == [kind |-> "none", pc |-> "new", box |-> 0, pod |-> 0, old |-> {}, token |-> "none", answer |-> 0]

PortalGoes(o, changes) == portalOp' = [portalOp EXCEPT ![o] = changes @@ @]
PortalAnswers(o, status) == PortalGoes(o, [pc |-> "answered", answer |-> status])
MayStart(o) == portalOp[o].pc = "new" /\ (Overlap \/ \A p \in PortalOps : portalOp[p].pc \in {"new", "answered"})

Present == {p \in Pods : pod[p].st \in {"live", "terminating"}}
Live == {p \in Pods : pod[p].st = "live"}
PortalMade(S) == Cardinality({x \in DOMAIN S : S[x].st /= "none"})
Ready(n) == portalBox[n].st = "here" /\ portalBox[n].mode = "Running" /\ \E p \in Live : pod[p].box = n

-----------------------------------------------------------------------------
(* The heads of the handlers *)

StartCreate(o) ==
    /\ MayStart(o)
    /\ IF portalClaim /= 0 THEN PortalAnswers(o, 409)
       ELSE PortalGoes(o, [kind |-> "create", pc |-> "seed", token |-> o])
    /\ UNCHANGED <<cluster, data, alias, portalStamp, portalSw>>

HasSandbox == portalClaim /= 0 /\ portalBox[portalClaim].st = "here"
Refuses(o) == PortalAnswers(o, IF portalClaim = 0 THEN 404 ELSE 409)

StartSuspend(o) ==
    /\ MayStart(o)
    /\ IF HasSandbox THEN PortalGoes(o, [kind |-> "suspend", pc |-> "unbind", box |-> portalClaim]) ELSE Refuses(o)
    /\ UNCHANGED <<cluster, data, alias, portalStamp, portalSw>>

(* A pod that was created a second before, or later, will count as resumed. *)
StartWake(o) ==
    /\ MayStart(o)
    /\ IF HasSandbox
       THEN PortalGoes(o, [kind |-> "wake", pc |-> "mode", box |-> portalClaim,
                           old |-> {p \in Pods : pod[p].st /= "none" /\ ~pod[p].young}])
       ELSE Refuses(o)
    /\ UNCHANGED <<cluster, data, alias, portalStamp, portalSw>>

StartRebuild(o) ==
    /\ MayStart(o)
    /\ IF portalClaim = 0 THEN Refuses(o)
       ELSE PortalGoes(o, [kind |-> "rebuild", pc |-> "unbind", token |-> portalToken[portalClaim]])
    /\ UNCHANGED <<cluster, data, alias, portalStamp, portalSw>>

StartDelete(o, kind) ==
    /\ MayStart(o)
    /\ IF portalClaim = 0 THEN Refuses(o) ELSE PortalGoes(o, [kind |-> kind, pc |-> "unbind"])
    /\ UNCHANGED <<cluster, data, alias, portalStamp, portalSw>>

-----------------------------------------------------------------------------
(* provision *)

(* The seed creates what is absent. *)
Seed(o) ==
    /\ portalOp[o].pc = "seed" /\ workspace' = TRUE /\ PortalGoes(o, [pc |-> "claim"])
    /\ UNCHANGED <<cluster, lost, alias, portalStamp, portalSw>>

MakeClaim(o) ==
    LET n == PortalMade(portalBox) + 1
    IN  /\ portalOp[o].pc = "claim"
        /\ IF portalClaim /= 0 THEN PortalAnswers(o, 409) /\ UNCHANGED <<portalClaim, portalToken, portalBox>>
           ELSE /\ n <= PortalMaxClaims /\ portalClaim' = n /\ portalBox' = [portalBox EXCEPT ![n].st = "claimed"]
                /\ portalToken' = [portalToken EXCEPT ![n] = portalOp[o].token]
                /\ PortalGoes(o, [pc |-> "adopt", box |-> n])
        /\ UNCHANGED <<pod, data, alias, portalStamp, portalSw>>

Adopted(o) ==
    /\ portalOp[o].pc = "adopt" /\ portalClaim /= 0 /\ portalBox[portalClaim].st = "here"
    /\ PortalGoes(o, [pc |-> "pod", box |-> portalClaim])
    /\ UNCHANGED <<cluster, data, alias, portalStamp, portalSw>>

(* pod_of: a live pod of the employee. *)
FindPod(o) ==
    /\ portalOp[o].pc = "pod" /\ portalOp[o].kind /= "wake" /\ \E p \in Live : PortalGoes(o, [pc |-> "bind", pod |-> p])
    /\ UNCHANGED <<cluster, data, alias, portalStamp, portalSw>>

FindResumedPod(o) ==
    /\ portalOp[o].pc = "pod" /\ portalOp[o].kind = "wake"
    /\ \E p \in Live \ portalOp[o].old : PortalGoes(o, [pc |-> "bind", pod |-> p])
    /\ UNCHANGED <<cluster, data, alias, portalStamp, portalSw>>

Mounted(p) == IF pod[p].st = "gone" THEN 0 ELSE Min({pod[p].mounts + 1, MaxMounts})

(* daemon_bind: the mount, on top of any that is there, and the signal the   *)
(* pod waits for.  A request that fails after the mount is repeated.         *)
Bind(o) ==
    /\ portalOp[o].pc = "bind"
    /\ \/ /\ pod' = [pod EXCEPT ![portalOp[o].pod].mounts = Mounted(portalOp[o].pod), ![portalOp[o].pod].started = TRUE]
          /\ PortalGoes(o, [pc |-> "app"])
       \/ /\ "bind" \in DaemonFaults /\ UNCHANGED portalOp
          /\ pod' = [pod EXCEPT ![portalOp[o].pod].mounts = Mounted(portalOp[o].pod)]
    /\ UNCHANGED <<portalClaim, portalToken, portalBox, data, alias, portalStamp, portalSw>>

(* wait_app_ready: OpenClaw itself answers at the sandbox's address, which   *)
(* takes longer than the second of slack of a wake.                          *)
AppReady(o) ==
    /\ portalOp[o].pc = "app"
    /\ \E p \in Live : pod[p].box = portalOp[o].box /\ pod[p].started /\ ~pod[p].young
    /\ IF portalOp[o].kind = "wake" THEN PortalAnswers(o, 200) /\ portalStamp' = "recent"
       ELSE PortalGoes(o, [pc |-> "alias"]) /\ UNCHANGED portalStamp
    /\ UNCHANGED <<cluster, data, alias, portalSw>>

(* upsert_alias, and the answer. *)
Alias(o) ==
    /\ portalOp[o].pc = "alias" /\ alias' = portalOp[o].box /\ portalStamp' = "recent"
    /\ PortalAnswers(o, IF portalOp[o].kind = "create" THEN 201 ELSE 200)
    /\ UNCHANGED <<cluster, data, portalSw>>

GiveUp(o) ==
    /\ portalOp[o].pc \in {"adopt", "pod", "app"} \cap Timeouts
    /\ PortalAnswers(o, IF portalOp[o].kind = "wake" THEN 504 ELSE 500)
    /\ UNCHANGED <<cluster, data, alias, portalStamp, portalSw>>

-----------------------------------------------------------------------------
(* Suspend, the first part of a rebuild, delete *)

After(kind) == IF kind = "suspend" THEN "mode" ELSE "delete"

UnbindNot(o) ==
    /\ portalOp[o].pc = "unbind" /\ PortalGoes(o, [pc |-> After(portalOp[o].kind)])
    /\ UNCHANGED <<cluster, data, alias, portalStamp, portalSw>>

(* unbind_workspace: one umount in the first pod listed, unless that one is  *)
(* terminating; what fails is logged.                                        *)
Unbind(o) ==
    /\ portalOp[o].pc = "unbind" /\ PortalGoes(o, [pc |-> After(portalOp[o].kind)])
    /\ \/ (Live /= Present \/ Live = {} \/ "unbind" \in DaemonFaults) /\ UNCHANGED pod
       \/ \E p \in Live : pod' = [pod EXCEPT ![p].mounts = Max({@ - 1, 0})]
    /\ UNCHANGED <<portalClaim, portalToken, portalBox, data, alias, portalStamp, portalSw>>

(* set_operating_mode *)
SetMode(o) ==
    /\ portalOp[o].pc = "mode"
    /\ IF portalBox[portalOp[o].box].st = "gone" THEN PortalAnswers(o, 500) /\ UNCHANGED portalBox
       ELSE /\ portalBox' = [portalBox EXCEPT ![portalOp[o].box].mode = IF portalOp[o].kind = "wake" THEN "Running" ELSE "Suspended"]
            /\ PortalGoes(o, [pc |-> IF portalOp[o].kind = "wake" THEN "pod" ELSE "gone"])
    /\ UNCHANGED <<portalClaim, portalToken, pod, data, alias, portalStamp, portalSw>>

(* The claim is deleted; for a rebuild one that is gone already is an error. *)
PortalDeleteClaim(o) ==
    /\ portalOp[o].pc = "delete" /\ portalClaim' = 0
    /\ IF portalClaim = 0 /\ portalOp[o].kind = "rebuild" THEN PortalAnswers(o, 500) ELSE PortalGoes(o, [pc |-> "gone"])
    /\ UNCHANGED <<portalToken, portalBox, pod, data, alias, portalStamp, portalSw>>

AfterGone(kind) == CASE kind = "suspend" -> "answered" [] kind = "rebuild" -> "seed" [] OTHER -> "cleanup"

(* wait_pod_gone, for a rebuild also of the claim; a delete goes on without. *)
Gone(o) ==
    /\ portalOp[o].pc = "gone"
    /\ \/ /\ Present = {} /\ (portalOp[o].kind = "rebuild" => portalClaim = 0)
          /\ PortalGoes(o, [pc |-> AfterGone(portalOp[o].kind), answer |-> IF portalOp[o].kind = "suspend" THEN 200 ELSE 0])
       \/ /\ "gone" \in Timeouts
          /\ IF portalOp[o].kind \in {"delete", "purge"} THEN PortalGoes(o, [pc |-> "cleanup"]) ELSE PortalAnswers(o, 504)
    /\ UNCHANGED <<cluster, data, alias, portalStamp, portalSw>>

(* The alias, the workspace when it is purged, and the idle clock. *)
Cleanup(o) ==
    /\ portalOp[o].pc = "cleanup" /\ alias' = 0 /\ portalStamp' = "none" /\ PortalAnswers(o, 200)
    /\ workspace' = (workspace /\ portalOp[o].kind /= "purge")
    /\ UNCHANGED <<cluster, lost, portalSw>>

-----------------------------------------------------------------------------
(* idle_sweeper *)

SweepLook ==
    /\ Sweeper /\ portalSw = 0 /\ portalClaim /= 0 /\ Ready(portalClaim) /\ portalSw' = portalClaim
    /\ UNCHANGED <<cluster, data, alias, portalStamp, portalOp>>

SweepSuspend ==
    /\ portalSw /= 0 /\ portalSw' = 0
    /\ portalStamp' = (IF portalStamp = "none" THEN "recent" ELSE portalStamp)
    /\ portalBox' = IF portalStamp = "old" /\ portalBox[portalSw].st = "here" THEN [portalBox EXCEPT ![portalSw].mode = "Suspended"] ELSE portalBox
    /\ UNCHANGED <<portalClaim, portalToken, pod, data, alias, portalOp>>

PortalTick ==
    /\ Sweeper /\ portalStamp = "recent" /\ portalStamp' = "old"
    /\ UNCHANGED <<cluster, data, alias, portalOp, portalSw>>

-----------------------------------------------------------------------------
(* The controllers and the kubelet *)

NewPod(n, young) == [pod EXCEPT ![PortalMade(pod) + 1] = [NoPod EXCEPT !.st = "live", !.box = n, !.young = young]]

PortalAdopt ==
    /\ portalClaim /= 0 /\ portalBox[portalClaim].st = "claimed" /\ PortalMade(pod) < MaxPods
    /\ portalBox' = [portalBox EXCEPT ![portalClaim].st = "here"] /\ pod' = NewPod(portalClaim, FALSE)
    /\ UNCHANGED <<portalClaim, portalToken, data, alias, portalStamp, portalOp, portalSw>>

Recreate(n) ==
    /\ portalBox[n].st = "here" /\ portalBox[n].mode = "Running" /\ PortalMade(pod) < MaxPods
    /\ ~\E p \in Present : pod[p].box = n
    /\ pod' = NewPod(n, TRUE)
    /\ UNCHANGED <<portalClaim, portalToken, portalBox, data, alias, portalStamp, portalOp, portalSw>>

PortalCascade(n) ==
    /\ portalClaim /= n /\ portalBox[n].st \in {"claimed", "here"} /\ portalBox' = [portalBox EXCEPT ![n].st = "gone"]
    /\ UNCHANGED <<portalClaim, portalToken, pod, data, alias, portalStamp, portalOp, portalSw>>

Terminate(p) ==
    /\ p \in Live /\ (portalBox[pod[p].box].st = "gone" \/ portalBox[pod[p].box].mode = "Suspended")
    /\ pod' = [pod EXCEPT ![p].st = "terminating"]
    /\ UNCHANGED <<portalClaim, portalToken, portalBox, data, alias, portalStamp, portalOp, portalSw>>

(* The emptyDir is deleted, through the mount when there is one. *)
Teardown(p) ==
    /\ pod[p].st = "terminating" /\ pod' = [pod EXCEPT ![p].st = "gone"]
    /\ lost' = (lost \/ (pod[p].mounts > 0 /\ workspace))
    /\ workspace' = (workspace /\ pod[p].mounts = 0)
    /\ UNCHANGED <<portalClaim, portalToken, portalBox, alias, portalStamp, portalOp, portalSw>>

Age(p) ==
    /\ pod[p].young /\ pod' = [pod EXCEPT ![p].young = FALSE]
    /\ UNCHANGED <<portalClaim, portalToken, portalBox, data, alias, portalStamp, portalOp, portalSw>>

-----------------------------------------------------------------------------
PortalInit ==
    /\ portalClaim = 0 /\ portalToken = [n \in PortalClaims |-> "none"]
    /\ portalBox = [n \in PortalClaims |-> [st |-> "none", mode |-> "Running"]]
    /\ pod = [p \in Pods |-> NoPod]
    /\ workspace = FALSE /\ lost = FALSE /\ alias = 0 /\ portalStamp = "none"
    /\ portalOp = [o \in PortalOps |-> PortalNew] /\ portalSw = 0

PortalHandler(o) ==
    \/ Seed(o) \/ MakeClaim(o) \/ Adopted(o) \/ FindPod(o) \/ FindResumedPod(o) \/ Bind(o) \/ AppReady(o) \/ Alias(o)
    \/ GiveUp(o) \/ Unbind(o) \/ SetMode(o) \/ PortalDeleteClaim(o) \/ Gone(o) \/ Cleanup(o)

PortalControllers ==
    \/ PortalAdopt
    \/ \E n \in PortalClaims : Recreate(n) \/ PortalCascade(n)
    \/ \E p \in Pods : Terminate(p) \/ Teardown(p) \/ Age(p)

PortalNext ==
    \/ \E o \in PortalOps : \/ StartCreate(o) \/ StartSuspend(o) \/ StartWake(o) \/ StartRebuild(o)
                            \/ \E kind \in {"delete", "purge"} : StartDelete(o, kind)
                            \/ PortalHandler(o)
    \/ PortalControllers \/ SweepLook \/ SweepSuspend \/ PortalTick

(* Handlers go on and the controllers do their work. *)
PortalSpec == PortalInit /\ [][PortalNext]_portalVars /\ WF_portalVars(PortalControllers) /\ \A o \in PortalOps : WF_portalVars(PortalHandler(o))

-----------------------------------------------------------------------------

(* The employee's workspace is never lost: every teardown of a bound pod is  *)
(* preceded by the unbind.                                                   *)
WorkspaceSurvives == ~lost

(* A provision, a wake or a rebuild that reports success leaves the employee *)
(* a live pod of the claimed sandbox with the workspace bound, and an        *)
(* address that names that sandbox.                                          *)
ReadyIsBound ==
    \A o \in PortalOps :
     (portalOp[o].pc \in {"app", "alias"} /\ portalOp'[o].pc = "answered" /\ portalOp'[o].answer \in {200, 201}) =>
               /\ portalClaim /= 0 /\ \E p \in Live : pod[p].box = portalClaim /\ pod[p].mounts > 0
               /\ (portalOp[o].kind /= "wake" => alias' = portalClaim)

(* An employee that was created and not deleted keeps the claim with the     *)
(* token: rebuilds included, whenever no handler is running.                 *)
IdentityPersists ==
    (/\ \A o \in PortalOps : portalOp[o].pc \in {"new", "answered"}
     /\ ~\E p \in PortalOps : portalOp[p].kind \in {"delete", "purge"}) =>
        \A o \in PortalOps : (portalOp[o].kind = "create" /\ portalOp[o].answer = 201) => portalClaim /= 0 /\ portalToken[portalClaim] = o

=============================================================================
