-------------------------------- MODULE FleetReports --------------------------------
(***************************************************************************)
(* What a member of a multi-cluster fleet reports of itself, and the client *)
(* that routes over the reports and the published plan. They share no       *)
(* state; each has its own initial predicate and next-state relation.       *)
(***************************************************************************)
EXTENDS Integers, Sequences, FiniteSets, FiniteSetsExt, TLC, SequencesExt

CONSTANTS
    Layout,
    Claims,           \* claims in flight
    Depth,            \* replicas of the managed pools
    Detail,           \* capacity_detail: "light" or "full"
    Hub,              \* BOOLEAN: publish to a ClusterProfile too
    ForceConflicts,   \* BOOLEAN
    RequireHeartbeat, \* BOOLEAN
    MaxReportAge,     \* max_report_age_s
    MaxTime,          \* bound on the clock
    MaxFaults         \* bound on failed requests

CONSTANTS
    Clusters, Threads, Names,
    Plans,       \* the assignments, in the order they are published
    FirstPlan,   \* how many are published at the start: 0 or 1
    Strategy,    \* "round-robin", "first"
    UniqueNames, \* TRUE: the SDK generates every claim name; FALSE: callers name them
    Retries,     \* attempts of a read of the assignments
    MaxCalls,    \* bound on the calls made
    RouteMaxFaults    \* bound on failed requests and expired credentials

VARIABLES
    now,      \* the clock
    pc,       \* where the member's capacity pass is
    report,   \* the report being collected
    walk,     \* the pod walk: attempt, page, requests per node
    failed,   \* the sinks that failed in this pass
    okAt,     \* _capacity_ok_at
    gcs,      \* the bucket's report, or Nothing
    profile,  \* the ClusterProfile: properties, health condition, other owner
    took,     \* when each sink last accepted a report
    faults

VARIABLES
    pub,      \* generation of fleet/assignments.json; 0: there is none
    cache,    \* generation of _assignments; 0: None
    expired,  \* the cache is older than refresh_interval_s
    cursor,   \* _rr_cursors of the template
    clients,  \* _clients: the credentials' version, or NoClient
    creds,    \* the caller's kubeconfig per cluster: [ok, version]
    claims,   \* the claims there are: <<name, cluster>>
    owner,    \* _claim_to_cluster; NoCluster where there is no key
    used,     \* claim names handed out
    th,       \* the call of each thread
    picks,    \* round-robin choices made per cluster
    calls, routeFaults

-----------------------------------------------------------------------------
(***************************************************************************)
(* A member's capacity report on its way to the planner.  Every interval    *)
(* the member sums its warm pools, counts its claims, walks the pods of the *)
(* cluster page by page for a pressure score, and writes the report to the  *)
(* bucket and, by Server-Side Apply, to its ClusterProfile on the hub       *)
(* (fleet_member.py, publisher.py).  The planner reads one or the other     *)
(* inventory (inventory.py).  One step per request; requests fail, continue *)
(* tokens expire, another manager may own the profile's fields.             *)
(*                                                                          *)
(* Layout is the cluster: per node what is allocatable (in the same unit on *)
(* every node, 0 if the node reports nothing), the cordoned nodes, and the  *)
(* pages of the pod list, each a sum of requests per node.                  *)
(***************************************************************************)
reportVars == <<now, pc, report, walk, failed, okAt, gcs, profile, took, faults>>
member == <<report, walk, failed, okAt>>
sinks == <<gcs, profile, took>>

None == -1
Never == -1
STALE == 999
Nothing == [at |-> None]
NoScore == [num |-> None, of |-> 1]

Nodes == DOMAIN Layout.alloc
NoRequests == [n \in Nodes |-> 0]

ReportInit ==
    /\ now = 0 /\ pc = "wait"
    /\ report = Nothing /\ walk = [attempt |-> 0, page |-> 0, req |-> NoRequests]
    /\ failed = {} /\ okAt = Never
    /\ gcs = Nothing
    /\ profile = [props |-> [p \in {} |-> 0], healthy |-> "True", other |-> FALSE]
    /\ took = [gcs |-> Never, hub |-> Never]
    /\ faults = 0

Fault == faults < MaxFaults /\ faults' = faults + 1

-----------------------------------------------------------------------------
(* _collect_capacity.                                                       *)

BeginPass ==
    /\ pc = "wait" /\ pc' = "pools"
    /\ report' = [at |-> now, depth |-> 0, claims |-> None, pressure |-> NoScore]
    /\ failed' = {}
    /\ UNCHANGED <<now, walk, okAt, sinks, faults>>

ListPools ==
    /\ pc = "pools"
    /\ report' = [report EXCEPT !.depth = Depth]
    /\ pc' = IF Detail = "light" THEN "gcs" ELSE "claims"
    /\ UNCHANGED <<now, walk, failed, okAt, sinks, faults>>

\* A pass that raises publishes nothing; the loop tries again next interval.
PassFails ==
    /\ pc \in {"pools", "nodes", "page"} /\ Fault
    /\ pc' = "wait"
    /\ UNCHANGED <<now, member, sinks>>

CountClaims ==
    /\ pc = "claims" /\ pc' = "nodes"
    /\ report' = [report EXCEPT !.claims = Claims]
    /\ walk' = [attempt |-> 1, page |-> 1, req |-> NoRequests]
    /\ UNCHANGED <<now, failed, okAt, sinks, faults>>

CountClaimsFails ==
    /\ pc = "claims" /\ Fault /\ pc' = "nodes"
    /\ walk' = [attempt |-> 1, page |-> 1, req |-> NoRequests]
    /\ UNCHANGED <<now, report, failed, okAt, sinks>>

-----------------------------------------------------------------------------
(* _node_pressure.                                                          *)

Counted == {n \in Nodes : n \notin Layout.cordoned /\ Layout.alloc[n] > 0}

\* The mean over the counted nodes of the share requested, at most 1 each;
\* the allocatable amounts are equal, so the numerators add up.
Score(req) ==
    IF Counted = {} THEN NoScore
    ELSE [num |-> FoldSet(LAMBDA n, t : t + Min({Layout.alloc[n], req[n]}), 0, Counted),
          of  |-> Cardinality(Counted) * Max({Layout.alloc[n] : n \in Counted})]

ListNodes ==
    /\ pc = "nodes"
    /\ pc' = IF Nodes = {} THEN "gcs" ELSE "page"
    /\ UNCHANGED <<now, member, sinks, faults>>

Folded == [n \in Nodes |-> walk.req[n] + Layout.pages[walk.page][n]]

WalkPage ==
    /\ pc = "page"
    /\ IF walk.page < Len(Layout.pages)
       THEN /\ walk' = [walk EXCEPT !.page = @ + 1, !.req = Folded]
            /\ UNCHANGED <<pc, report>>
       ELSE /\ report' = [report EXCEPT !.pressure = Score(Folded)]
            /\ pc' = "gcs"
            /\ UNCHANGED walk
    /\ UNCHANGED <<now, failed, okAt, sinks, faults>>

\* 410 Gone: the walk starts over once, from nothing.
TokenExpires ==
    /\ pc = "page" /\ walk.page > 1 /\ Fault
    /\ IF walk.attempt = 1
       THEN pc' = "nodes" /\ walk' = [attempt |-> 2, page |-> 1, req |-> NoRequests]
       ELSE pc' = "gcs" /\ UNCHANGED walk
    /\ UNCHANGED <<now, report, failed, okAt, sinks>>

\* Any other ApiException: the score stays unmeasured.
WalkRefused ==
    /\ pc \in {"nodes", "page"} /\ Fault
    /\ pc' = "gcs"
    /\ UNCHANGED <<now, member, sinks>>

-----------------------------------------------------------------------------
(* _capacity_once: the two sinks.                                           *)

AfterGcs == IF Hub THEN "hub" ELSE "stamp"

PutGcs ==
    /\ pc = "gcs" /\ pc' = AfterGcs
    /\ gcs' = report /\ took' = [took EXCEPT !.gcs = now]
    /\ UNCHANGED <<now, member, profile, faults>>

PutGcsFails ==
    /\ pc = "gcs" /\ Fault /\ pc' = AfterGcs
    /\ failed' = failed \cup {"gcs"}
    /\ UNCHANGED <<now, report, walk, okAt, sinks>>

BuildStatus(r) ==
    [p \in {"heartbeat", "depth"}
              \cup (IF r.claims = None THEN {} ELSE {"claims"})
              \cup (IF r.pressure.num = None THEN {} ELSE {"pressure"}) |->
        CASE p = "heartbeat" -> r.at
          [] p = "depth"     -> r.depth
          [] p = "claims"    -> r.claims
          [] p = "pressure"  -> r.pressure]

\* Server-Side Apply: refused with 409 while another manager owns a field,
\* unless forced.
Apply ==
    /\ pc = "hub" /\ pc' = "stamp"
    /\ IF profile.other /\ ~ForceConflicts
       THEN /\ failed' = failed \cup {"hub"}
            /\ UNCHANGED sinks
       ELSE /\ profile' = [profile EXCEPT !.props = BuildStatus(report), !.other = FALSE]
            /\ took' = [took EXCEPT !.hub = now]
            /\ UNCHANGED <<gcs, failed>>
    /\ UNCHANGED <<now, report, walk, okAt, faults>>

ApplyFails ==
    /\ pc = "hub" /\ Fault /\ pc' = "stamp"
    /\ failed' = failed \cup {"hub"}
    /\ UNCHANGED <<now, report, walk, okAt, sinks>>

\* _capacity_ok_at moves when at least one sink got the report.
Stamp ==
    /\ pc = "stamp" /\ pc' = "wait"
    /\ okAt' = IF failed = (IF Hub THEN {"gcs", "hub"} ELSE {"gcs"}) THEN okAt ELSE now
    /\ UNCHANGED <<now, report, walk, failed, sinks, faults>>

-----------------------------------------------------------------------------
(* Outside the member.                                                      *)

TimePasses ==
    /\ now < MaxTime /\ now' = now + 1
    /\ UNCHANGED <<pc, member, sinks, faults>>

\* The cluster manager's view of the control plane changes.
HealthChanges ==
    /\ \E h \in {"True", "False", "absent"} :
          h # profile.healthy /\ profile' = [profile EXCEPT !.healthy = h]
    /\ UNCHANGED <<now, pc, member, gcs, took, faults>>

\* Another field manager applies one of the member's properties.
OtherOwns ==
    /\ ~profile.other /\ Fault
    /\ profile' = [profile EXCEPT !.other = TRUE]
    /\ UNCHANGED <<now, pc, member, gcs, took>>

ReportNext ==
    \/ BeginPass \/ ListPools \/ PassFails \/ CountClaims \/ CountClaimsFails
    \/ ListNodes \/ WalkPage \/ TokenExpires \/ WalkRefused
    \/ PutGcs \/ PutGcsFails \/ Apply \/ ApplyFails \/ Stamp
    \/ TimePasses \/ HealthChanges \/ OtherOwns

ReportSpec == ReportInit /\ [][ReportNext]_reportVars

-----------------------------------------------------------------------------
(* What the planner makes of it.                                            *)

AgeOf(at) == IF at = None THEN STALE ELSE now - at

\* GCSInventory.load for this cluster.
FromGcs ==
    IF gcs = Nothing THEN [age |-> STALE, claims |-> None, pressure |-> NoScore]
    ELSE [age |-> AgeOf(gcs.at), claims |-> gcs.claims, pressure |-> gcs.pressure]

Property(p, default) == IF p \in DOMAIN profile.props THEN profile.props[p] ELSE default

FreshnessOfCondition == IF profile.healthy = "True" THEN 0 ELSE STALE
\* _freshness: an unhealthy condition is fatal, then the heartbeat, then the
\* condition alone.
Freshness ==
    CASE profile.healthy = "False" -> STALE
      [] profile.healthy # "False" /\ "heartbeat" \in DOMAIN profile.props ->
             AgeOf(profile.props.heartbeat)
      [] profile.healthy # "False" /\ "heartbeat" \notin DOMAIN profile.props ->
             IF RequireHeartbeat \/ profile.healthy = "absent" THEN STALE ELSE 0

\* ClusterProfileInventory._to_planner_cluster.
FromProfile ==
    [age |-> Freshness, claims |-> Property("claims", None),
     pressure |-> Property("pressure", NoScore)]

Views == {FromGcs, FromProfile}
Fresh(view) == view.age <= MaxReportAge

-----------------------------------------------------------------------------
(* Properties.                                                              *)

\* What the planner reads is what was measured: a count of claims that failed,
\* or was not asked for, never arrives as a number, by either inventory
\* (CapacityReport: "unmeasured is omitted, never zeroed").
UnmeasuredIsNeverZero ==
    \A v \in Views : v.claims # None => (Detail = "full" /\ v.claims = Claims)

\* A pressure score that reaches the planner comes from one complete walk of
\* the pods: an expired continue token neither counts a pod twice nor leaves
\* one out.
PressureOfOneWalk ==
    \A v \in Views : v.pressure.num # None =>
        v.pressure = Score([n \in Nodes |->
            FoldSet(LAMBDA i, t : t + Layout.pages[i][n], 0, DOMAIN Layout.pages)])

\* The planner places on a cluster only if the sink it reads took a report
\* within the allowed age: a member that has gone silent, or that cannot write
\* to that sink, drops out (with require_heartbeat on the hub).
FreshMeansReported ==
    /\ Fresh(FromGcs) => took.gcs # Never /\ now - took.gcs <= MaxReportAge
    /\ (Fresh(FromProfile) /\ RequireHeartbeat) =>
           took.hub # Never /\ now - took.hub <= MaxReportAge

\* A cluster whose control plane is reported unhealthy is not placed on,
\* however fresh its heartbeat.
UnhealthyIsStale == profile.healthy = "False" => ~Fresh(FromProfile)

\* The member's stamp, which lets it obey an empty plan, moves only in a pass
\* in which some sink took the report.
StampIsEarned ==
    (okAt' # okAt) => \E k \in {"gcs", "hub"} : took[k] >= report.at

\* The sinks are independent in both directions: at the end of a pass, a sink
\* that did not fail has taken this pass's report.
SinksAreIndependent ==
    (pc = "stamp" /\ pc' = "wait") =>
       \A k \in (IF Hub THEN {"gcs", "hub"} ELSE {"gcs"}) \ failed :
           took[k] >= report.at

-----------------------------------------------------------------------------
(***************************************************************************)
(* The claim path of a multi-cluster fleet: threads that share a            *)
(* ClusterResolver (a cached copy of the published assignments) and a       *)
(* FleetSandboxClient (one SandboxClient per cluster, and a record of which *)
(* cluster holds which claim).  A step ends where the code leaves a lock or *)
(* makes a request (resolver.py).                                           *)
(*                                                                          *)
(* One template is considered.  Plans[g] says of each cluster whether the   *)
(* assignments of generation g place the template there ("hosts"), keep it  *)
(* there frozen ("frozen") or do not (anything else).  Clusters are numbers *)
(* in name order.  A cached client is the version of the credentials it was *)
(* built with.                                                              *)
(***************************************************************************)
routeVars == <<pub, cache, expired, cursor, clients, creds, claims, owner, used, th,
               picks, calls, routeFaults>>
store == <<pub, cache, expired>>
facade == <<cursor, clients, creds, claims, owner, used, picks>>

NoClient == -1
NoCluster == 0
Idle == [pc |-> "idle"]

RouteInit ==
    /\ pub = FirstPlan
    /\ cache = 0 /\ expired = FALSE
    /\ cursor = 0
    /\ clients = [c \in Clusters |-> NoClient]
    /\ creds = [c \in Clusters |-> [ok |-> TRUE, version |-> 0]]
    /\ claims = {} /\ owner = [n \in Names |-> NoCluster] /\ used = {}
    /\ th = [t \in Threads |-> Idle]
    /\ picks = [c \in Clusters |-> 0]
    /\ calls = 0 /\ routeFaults = 0

RouteFault == routeFaults < RouteMaxFaults /\ routeFaults' = routeFaults + 1
Called == calls < MaxCalls /\ calls' = calls + 1
Goes(t, changes) == th' = [th EXCEPT ![t] = changes @@ @]
Returns(t) == th' = [th EXCEPT ![t] = Idle]

-----------------------------------------------------------------------------
(* The world outside the process.                                           *)

Published ==
    /\ pub < Len(Plans)
    /\ pub' = pub + 1
    /\ UNCHANGED <<cache, expired, th, facade, calls, routeFaults>>

RouteTimePasses ==
    /\ cache # 0 /\ ~expired
    /\ expired' = TRUE
    /\ UNCHANGED <<pub, cache, th, facade, calls, routeFaults>>

CredentialsExpire(c) ==
    /\ creds[c].ok /\ RouteFault
    /\ creds' = [creds EXCEPT ![c].ok = FALSE]
    /\ UNCHANGED <<store, cursor, clients, claims, owner, used, picks, th, calls>>

\* gcloud get-credentials: a client built before it keeps what it loaded.
CredentialsRenewed(c) ==
    /\ ~creds[c].ok
    /\ creds' = [creds EXCEPT ![c] = [ok |-> TRUE, version |-> @.version + 1]]
    /\ UNCHANGED <<store, cursor, clients, claims, owner, used, picks, th, calls, routeFaults>>

Valid(c, client) == creds[c].ok /\ client = creds[c].version

-----------------------------------------------------------------------------
(* ClusterResolver._read.                                                   *)

StartCreate(t) ==
    /\ th[t].pc = "idle" /\ Called
    /\ \E n \in Names :
          /\ UniqueNames => n \notin used
          /\ used' = used \cup {n}
          /\ Goes(t, [pc |-> "check", op |-> "create", name |-> n, refresh |-> FALSE,
                      tries |-> 0, from |-> pub])
    /\ UNCHANGED <<store, cursor, clients, creds, claims, owner, picks, routeFaults>>

StartRefresh(t) ==
    /\ th[t].pc = "idle" /\ Called
    /\ Goes(t, [pc |-> "check", op |-> "resolve", refresh |-> TRUE, tries |-> 0,
                from |-> pub])
    /\ UNCHANGED <<store, facade, routeFaults>>

CheckCache(t) ==
    /\ th[t].pc = "check"
    /\ IF cache # 0 /\ ~expired /\ ~th[t].refresh
       THEN Goes(t, [pc |-> "choose", data |-> cache])
       ELSE Goes(t, [pc |-> "read"])
    /\ UNCHANGED <<store, facade, calls, routeFaults>>

\* A missing file is not retried: AssignmentsMissingError.
Read(t) ==
    /\ th[t].pc = "read"
    /\ IF pub = 0 THEN Returns(t) ELSE Goes(t, [pc |-> "store", data |-> pub])
    /\ UNCHANGED <<store, facade, calls, routeFaults>>

ReadFails(t) ==
    /\ th[t].pc = "read" /\ RouteFault
    /\ IF th[t].tries + 1 = Retries THEN Returns(t)
       ELSE Goes(t, [tries |-> th[t].tries + 1])
    /\ UNCHANGED <<store, facade, calls>>

\* The answer is the data this thread read, whatever the cache holds.
Store(t) ==
    /\ th[t].pc = "store"
    /\ cache' = th[t].data /\ expired' = FALSE
    /\ Goes(t, [pc |-> "choose"])
    /\ UNCHANGED <<pub, facade, calls, routeFaults>>

-----------------------------------------------------------------------------
(* Choosing a cluster and getting a client for it.                          *)

Matches(g) == SetToSortSeq({c \in Clusters : Plans[g][c] = "hosts"}, <)

Goal(t) == IF th[t].op = "create" THEN "client" ELSE "answered"

\* _list_matches and _choose; the cursor advances under the lock, and only when
\* there is a choice.
Choose(t) ==
    /\ th[t].pc = "choose"
    /\ LET ms == Matches(th[t].data)
           i  == cursor % Len(ms)
       IN  IF ms = <<>> THEN Returns(t) /\ UNCHANGED <<cursor, picks>>
           ELSE IF Len(ms) = 1 \/ Strategy = "first"
           THEN Goes(t, [pc |-> Goal(t), cluster |-> ms[1]]) /\ UNCHANGED <<cursor, picks>>
           ELSE /\ Goes(t, [pc |-> Goal(t), cluster |-> ms[i + 1]])
                /\ picks' = [picks EXCEPT ![ms[i + 1]] = @ + 1]
                /\ cursor' = cursor + 1
    /\ UNCHANGED <<store, clients, creds, claims, owner, used, calls, routeFaults>>

Answered(t) ==
    /\ th[t].pc = "answered"
    /\ Returns(t)
    /\ UNCHANGED <<store, facade, calls, routeFaults>>

\* _get_or_build_client, all of it under _client_lock.
GetClient(t, next) ==
    LET c == th[t].cluster
    IN  IF clients[c] # NoClient
        THEN Goes(t, [pc |-> next, client |-> clients[c]]) /\ UNCHANGED clients
        ELSE /\ clients' = [clients EXCEPT ![c] = creds[c].version]
             /\ Goes(t, [pc |-> next, client |-> creds[c].version])

CreateGetsClient(t) ==
    /\ th[t].pc = "client"
    /\ GetClient(t, "create")
    /\ UNCHANGED <<store, cursor, creds, claims, owner, used, picks, calls, routeFaults>>

-----------------------------------------------------------------------------
(* FleetSandboxClient.create_sandbox and delete_sandbox.                    *)

RemoteCreate(t) ==
    /\ th[t].pc = "create"
    /\ LET claim == <<th[t].name, th[t].cluster>>
       IN  /\ Valid(th[t].cluster, th[t].client) /\ claim \notin claims
           /\ claims' = claims \cup {claim}
           /\ Goes(t, [pc |-> "record"])
    /\ UNCHANGED <<store, cursor, clients, creds, owner, used, picks, calls, routeFaults>>

\* The request is refused (the credentials, a claim of that name), or fails.
RemoteCreateFails(t) ==
    /\ th[t].pc = "create"
    /\ \/ /\ \/ ~Valid(th[t].cluster, th[t].client)
             \/ <<th[t].name, th[t].cluster>> \in claims
          /\ UNCHANGED routeFaults
       \/ RouteFault
    /\ Goes(t, [pc |-> "drop"])
    /\ UNCHANGED <<store, facade, calls>>

Drop(t) ==
    /\ th[t].pc = "drop"
    /\ clients' = [clients EXCEPT ![th[t].cluster] = NoClient]
    /\ Returns(t)
    /\ UNCHANGED <<store, cursor, creds, claims, owner, used, picks, calls, routeFaults>>

Record(t) ==
    /\ th[t].pc = "record"
    /\ owner' = [owner EXCEPT ![th[t].name] = th[t].cluster]
    /\ Returns(t)
    /\ UNCHANGED <<store, cursor, clients, creds, claims, used, picks, calls, routeFaults>>

\* A claim without a recorded cluster is refused with nothing changed.
StartDelete(t) ==
    /\ th[t].pc = "idle" /\ Called
    /\ \E n \in Names :
          /\ owner[n] # NoCluster
          /\ Goes(t, [pc |-> "dclient", op |-> "delete", name |-> n, cluster |-> owner[n]])
    /\ UNCHANGED <<store, facade, routeFaults>>

DeleteGetsClient(t) ==
    /\ th[t].pc = "dclient"
    /\ GetClient(t, "delete")
    /\ UNCHANGED <<store, cursor, creds, claims, owner, used, picks, calls, routeFaults>>

\* The SDK takes a claim that is already gone for deleted.
RemoteDelete(t) ==
    /\ th[t].pc = "delete"
    /\ Valid(th[t].cluster, th[t].client)
    /\ claims' = claims \ {<<th[t].name, th[t].cluster>>}
    /\ Goes(t, [pc |-> "forget"])
    /\ UNCHANGED <<store, cursor, clients, creds, owner, used, picks, calls, routeFaults>>

RemoteDeleteFails(t) ==
    /\ th[t].pc = "delete"
    /\ \/ ~Valid(th[t].cluster, th[t].client) /\ UNCHANGED routeFaults
       \/ RouteFault
    /\ Returns(t)
    /\ UNCHANGED <<store, facade, calls>>

Forget(t) ==
    /\ th[t].pc = "forget"
    /\ owner' = [owner EXCEPT ![th[t].name] = NoCluster]
    /\ Returns(t)
    /\ UNCHANGED <<store, cursor, clients, creds, claims, used, picks, calls, routeFaults>>

-----------------------------------------------------------------------------
Works(t) ==
    \/ CheckCache(t) \/ Read(t) \/ ReadFails(t) \/ Store(t) \/ Choose(t) \/ Answered(t)
    \/ CreateGetsClient(t) \/ RemoteCreate(t) \/ RemoteCreateFails(t) \/ Drop(t) \/ Record(t)
    \/ DeleteGetsClient(t) \/ RemoteDelete(t) \/ RemoteDeleteFails(t) \/ Forget(t)

World ==
    \/ Published \/ RouteTimePasses
    \/ \E c \in Clusters : CredentialsExpire(c) \/ CredentialsRenewed(c)

RouteNext ==
    \/ World
    \/ \E t \in Threads : StartCreate(t) \/ StartRefresh(t) \/ StartDelete(t) \/ Works(t)

RouteSpec == RouteInit /\ [][RouteNext]_routeVars

-----------------------------------------------------------------------------
(* Properties.                                                              *)

\* resolve(refresh=True) answers from assignments at least as new as those
\* published when it was called, whatever other threads write to the cache in
\* the meantime (_read returns its own data).
RefreshSeesPublished ==
    \A t \in Threads :
        (th[t].pc = "answered" /\ th[t].refresh) => th[t].data >= th[t].from

\* No claim is created on a cluster that the assignments the thread read had
\* frozen or did not name (_list_matches skips stale_since).
FrozenNeverRouted ==
    \A t \in Threads : (th[t].pc = "create") => Plans[th[t].data][th[t].cluster] = "hosts"

\* Round robin spreads: while the assignments do not change, two clusters that
\* host the template differ by at most one choice, however many threads choose
\* (the cursor is read and advanced under the lock).
Spreads ==
    Len(Plans) = 1 =>
        \A c, d \in {e \in Clusters : Plans[1][e] = "hosts"} : picks[c] <= picks[d] + 1

\* A thread is still to record the claim, or is deleting it.
Handled(n) ==
    \E t \in Threads : /\ th[t].pc \in {"record", "dclient", "delete", "forget"}
                       /\ th[t].name = n

\* Every claim that exists can be deleted by its name alone: its cluster is the
\* one recorded for it, also after a delete that failed.
EveryClaimRoutable ==
    \A claim \in claims : ~Handled(claim[1]) => owner[claim[1]] = claim[2]

=============================================================================
