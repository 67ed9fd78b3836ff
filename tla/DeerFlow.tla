---------------------------------- MODULE DeerFlow ----------------------------------
(***************************************************************************)
(* The DeerFlow provider: the claims it acquires for scopes, and the file   *)
(* tools it offers. They share no state; each has its own initial predicate *)
(* and next-state relation.                                                 *)
(***************************************************************************)
EXTENDS Integers, FiniteSets, TLC, Sequences, SequencesExt

CONSTANTS
    Gateways, Scopes,
    Anonymous,   \* scopes without a thread id: a fresh name, never adopted
    TTL,         \* sandbox_timeout is set
    MaxUid,      \* bound on the claims created
    MaxCalls, MaxFaults

CONSTANTS
    Names,      \* segments of a path
    Root,       \* the sandbox root, a path
    MaxPath,    \* segments of a path asked for
    MaxLines,   \* lines of a file
    Entries,    \* 1..n: the entries of the tree; 0 is its root
    Floor,      \* the lower bound of grep's cap per file (50 in the code)
    Slack,      \* what the limit in the sandbox exceeds max_results by at least (50)
    MaxResults

VARIABLES
    claim,    \* per scope: [uid, st, ready], st "absent", "present" or "deleting"
    nextUid,
    cache,    \* _sandboxes: the uid a cached handle speaks to, 0 where there is none
    op,       \* the call each gateway is in
    mine,     \* claims each gateway acquired and has not seen deleted: <<scope, uid>>
    left,     \* claims created by an acquire that failed, and whose roll-back did not:
              \* <<scope, uid, whether a claim was found before>>
    calls, faults

VARIABLES call, out

-----------------------------------------------------------------------------
(***************************************************************************)
(* The DeerFlow provider (deer-flow-sandbox/agent_sandbox_provider/         *)
(* provider.py): gateways acquire a sandbox per scope, keep it in a cache   *)
(* and release it.  The claim of a scope has a name derived from it, so a   *)
(* restarted or a second gateway adopts the claim it finds.  The lock of a  *)
(* gateway is held for a whole acquire or release, so each gateway is in    *)
(* one call at a time; a step ends where a request is answered.             *)
(*                                                                          *)
(* uid tells apart the claims that have had the same name.  The sandbox a   *)
(* handle speaks to is the one of the claim it was built for.               *)
(***************************************************************************)
deerVars == <<claim, nextUid, cache, op, mine, left, calls, faults>>
cluster == <<claim, nextUid>>

Idle == [pc |-> "idle"]

DeerInit ==
    /\ claim = [s \in Scopes |-> [uid |-> 0, st |-> "absent", ready |-> FALSE]]
    /\ nextUid = 1
    /\ cache = [g \in Gateways |-> [s \in Scopes |-> 0]]
    /\ op = [g \in Gateways |-> Idle]
    /\ mine = [g \in Gateways |-> {}]
    /\ left = {}
    /\ calls = 0 /\ faults = 0

Fault == faults < MaxFaults /\ faults' = faults + 1
Called == calls < MaxCalls /\ calls' = calls + 1
Goes(g, changes) == op' = [op EXCEPT ![g] = changes @@ @]
Returns(g) == op' = [op EXCEPT ![g] = Idle]
Exists(s, uid) == claim[s].uid = uid /\ claim[s].st # "absent"
DeleteClaim(s) == claim' = [claim EXCEPT ![s].st = IF @ = "present" THEN "deleting" ELSE @]

-----------------------------------------------------------------------------
(* The cluster, and gateways that restart.                                  *)

Ready(s) ==
    /\ claim[s].st = "present" /\ ~claim[s].ready
    /\ claim' = [claim EXCEPT ![s].ready = TRUE]
    /\ UNCHANGED <<nextUid, cache, op, mine, left, calls, faults>>

Expires(s) ==
    /\ TTL /\ claim[s].st = "present"
    /\ claim' = [claim EXCEPT ![s].st = "deleting"]
    /\ UNCHANGED <<nextUid, cache, op, mine, left, calls, faults>>

Finalized(s) ==
    /\ claim[s].st = "deleting"
    /\ claim' = [claim EXCEPT ![s] = [@ EXCEPT !.st = "absent", !.ready = FALSE]]
    /\ UNCHANGED <<nextUid, cache, op, mine, left, calls, faults>>

Restarts(g) ==
    /\ op[g].pc = "idle" /\ Fault
    /\ \E s \in Scopes : cache[g][s] # 0
    /\ cache' = [cache EXCEPT ![g] = [s \in Scopes |-> 0]]
    /\ mine' = [mine EXCEPT ![g] = {}]
    /\ UNCHANGED <<cluster, op, left, calls>>

-----------------------------------------------------------------------------
(* acquire().                                                               *)

StartAcquire(g) ==
    /\ op[g].pc = "idle" /\ Called
    /\ \E s \in Scopes :
          /\ s \in Anonymous => claim[s].uid = 0
          /\ op' = [op EXCEPT ![g] =
                      [pc |-> IF cache[g][s] # 0 THEN "live"
                              ELSE IF s \in Anonymous THEN "create" ELSE "look",
                       s |-> s, existed |-> FALSE, uid |-> 0, made |-> 0]]
    /\ UNCHANGED <<cluster, cache, mine, left, faults>>

CheckLive(g) ==
    LET s == op[g].s uid == cache[g][s]
    IN  /\ op[g].pc = "live"
        /\ \/ /\ Exists(s, uid) /\ UNCHANGED <<cache, faults>>
              /\ Goes(g, [pc |-> "acquired", uid |-> uid])
           \/ Fault /\ Returns(g) /\ UNCHANGED cache
           \/ /\ ~Exists(s, uid)
              /\ cache' = [cache EXCEPT ![g][s] = 0]
              /\ Goes(g, [pc |-> "look"]) /\ UNCHANGED faults
        /\ UNCHANGED <<cluster, mine, left, calls>>

\* Whether the claim is there before this call creates it.
Look(g) ==
    /\ op[g].pc = "look"
    /\ \/ Goes(g, [pc |-> "create", existed |-> claim[op[g].s].st # "absent"]) /\ UNCHANGED faults
       \/ Fault /\ Returns(g)
    /\ UNCHANGED <<cluster, cache, mine, left, calls>>

\* create_sandbox: the POST, ...
Create(g) ==
    LET s == op[g].s
        made == /\ nextUid <= MaxUid
                /\ claim' = [claim EXCEPT ![s] = [uid |-> nextUid, st |-> "present", ready |-> FALSE]]
                /\ nextUid' = nextUid + 1
    IN  /\ op[g].pc = "create"
        /\ \/ /\ claim[s].st = "absent" /\ made
              /\ Goes(g, [pc |-> "wait", uid |-> nextUid, made |-> nextUid])
              /\ UNCHANGED faults
           \/ /\ claim[s].st = "absent" /\ Fault /\ made
              /\ Goes(g, [pc |-> "fail", made |-> nextUid])
           \/ /\ Fault /\ UNCHANGED cluster
              /\ Goes(g, [pc |-> "fail"])
           \/ /\ claim[s].st # "absent" /\ UNCHANGED <<cluster, faults>>
              /\ Goes(g, [pc |-> "adopt"])
        /\ UNCHANGED <<cache, mine, left, calls>>

\* ... after a conflict the read of the claim, which is not adopted when it is
\* terminating or gone, ...
Adopt(g) ==
    /\ op[g].pc = "adopt"
    /\ \/ /\ claim[op[g].s].st = "present" /\ UNCHANGED faults
          /\ Goes(g, [pc |-> "wait", uid |-> claim[op[g].s].uid])
       \/ /\ (claim[op[g].s].st # "present" /\ UNCHANGED faults) \/ Fault
          /\ Goes(g, [pc |-> "fail"])
    /\ UNCHANGED <<cluster, cache, mine, left, calls>>

\* ... and the wait for it to be ready, which its replacement, its deletion and the
\* timeout end.
Wait(g) ==
    LET s == op[g].s uid == op[g].uid
    IN  /\ op[g].pc = "wait"
        /\ \/ /\ claim[s].uid = uid /\ claim[s].st = "present" /\ claim[s].ready
              /\ cache' = [cache EXCEPT ![g][s] = uid]
              /\ mine' = [mine EXCEPT ![g] = @ \cup {<<s, uid>>}]
              /\ Goes(g, [pc |-> "acquired"]) /\ UNCHANGED faults
           \/ /\ (claim[s].uid # uid \/ claim[s].st # "present") /\ UNCHANGED faults
              /\ Goes(g, [pc |-> "fail"]) /\ UNCHANGED <<cache, mine>>
           \/ Fault /\ Goes(g, [pc |-> "fail"]) /\ UNCHANGED <<cache, mine>>
        /\ UNCHANGED <<cluster, left, calls>>

AcquireReturns(g) ==
    /\ op[g].pc = "acquired"
    /\ Returns(g)
    /\ UNCHANGED <<cluster, cache, mine, left, calls, faults>>

\* The roll-back: by name, and only where the claim was not there before.
Made(g) == IF op[g].made = 0 THEN {} ELSE {<<op[g].s, op[g].made, op[g].existed>>}

RollbackAlways(g) ==
    /\ op[g].pc = "fail"
    /\ DeleteClaim(op[g].s) /\ UNCHANGED nextUid
    /\ Returns(g)
    /\ UNCHANGED <<cache, mine, left, calls, faults>>

RollbackNever(g) ==
    /\ op[g].pc = "fail"
    /\ left' = left \cup Made(g)
    /\ Returns(g)
    /\ UNCHANGED <<cluster, cache, mine, calls, faults>>

Rollback(g) ==
    /\ op[g].pc = "fail"
    /\ \/ /\ op[g].existed
          /\ left' = left \cup Made(g) /\ UNCHANGED <<claim, faults>>
       \/ /\ ~op[g].existed
          /\ DeleteClaim(op[g].s) /\ left' = left \cup Made(g) /\ UNCHANGED faults
       \/ ~op[g].existed /\ Fault /\ UNCHANGED <<claim, left>>
    /\ Returns(g)
    /\ UNCHANGED <<nextUid, cache, mine, calls>>

-----------------------------------------------------------------------------
(* release() and reset().                                                   *)

\* todo: what is left of reset()'s list.
Releases(g, s, todo) ==
    IF cache[g][s] = 0
    THEN [pc |-> "next", s |-> s, uid |-> 0, todo |-> todo]
    ELSE [pc |-> "term", s |-> s, uid |-> cache[g][s], todo |-> todo]
Pop(g, s) == cache' = [cache EXCEPT ![g][s] = 0]

StartRelease(g) ==
    /\ op[g].pc = "idle" /\ Called
    /\ \E s \in Scopes :
          /\ Pop(g, s)
          /\ op' = [op EXCEPT ![g] = Releases(g, s, {}) @@ [reset |-> FALSE]]
    /\ UNCHANGED <<cluster, mine, left, faults>>

StartReset(g) ==
    /\ op[g].pc = "idle" /\ Called
    /\ op' = [op EXCEPT ![g] = [pc |-> "next", uid |-> 0, reset |-> TRUE,
                                todo |-> {s \in Scopes : cache[g][s] # 0}]]
    /\ UNCHANGED <<cluster, cache, mine, left, faults>>

ReleaseNext(g) ==
    /\ op[g].pc = "next"
    /\ \/ \E s \in op[g].todo :
             /\ Pop(g, s)
             /\ Goes(g, Releases(g, s, op[g].todo \ {s}))
       \/ op[g].todo = {} /\ Returns(g) /\ UNCHANGED cache
    /\ UNCHANGED <<cluster, mine, left, calls, faults>>

\* terminate(), and the claim's deletion on its own when that fails.  A handle's
\* DELETE is by name.
Terminate(g) ==
    LET s == op[g].s
    IN  /\ op[g].pc \in {"term", "destroy"}
        /\ DeleteClaim(s)
        /\ mine' = [mine EXCEPT ![g] = @ \ {<<s, op[g].uid>>}]
        /\ Goes(g, [pc |-> "released"])
        /\ UNCHANGED <<nextUid, cache, left, calls, faults>>

TerminateFails(g) ==
    /\ op[g].pc = "term" /\ Fault
    /\ Goes(g, [pc |-> "destroy"])
    /\ UNCHANGED <<cluster, cache, mine, left, calls>>

DestroyFails(g) ==
    /\ op[g].pc = "destroy" /\ Fault
    /\ IF op[g].reset THEN Goes(g, [pc |-> "next", uid |-> 0]) ELSE Returns(g)
    /\ UNCHANGED <<cluster, cache, mine, left, calls>>

Released(g) ==
    /\ op[g].pc = "released"
    /\ IF op[g].reset THEN Goes(g, [pc |-> "next", uid |-> 0]) ELSE Returns(g)
    /\ UNCHANGED <<cluster, cache, mine, left, calls, faults>>

-----------------------------------------------------------------------------
DeerNext ==
    \/ \E g \in Gateways :
          \/ StartAcquire(g) \/ CheckLive(g) \/ Look(g) \/ Create(g) \/ Adopt(g) \/ Wait(g)
          \/ AcquireReturns(g) \/ Rollback(g) \/ StartRelease(g) \/ StartReset(g)
          \/ ReleaseNext(g) \/ Terminate(g) \/ TerminateFails(g) \/ DestroyFails(g)
          \/ Released(g) \/ Restarts(g)
    \/ \E s \in Scopes : Ready(s) \/ Expires(s) \/ Finalized(s)

DeerSpec == DeerInit /\ [][DeerNext]_deerVars

-----------------------------------------------------------------------------

\* The roll-back of a failed acquire deletes the claim that acquire created, and no
\* other: a sandbox that someone runs on keeps its data.
RollbackOnlyOwn ==
    \A g \in Gateways, s \in Scopes :
       (op[g].pc = "fail" /\ op'[g].pc = "idle" /\ claim[s].st = "present"
           /\ claim'[s].st # "present") => claim[s].uid = op[g].made

\* An acquire that found no claim and fails, wherever it does, leaves none behind,
\* unless its deletion failed.
NewClaimRolledBack ==
    \A s \in Scopes : <<s, claim[s].uid, FALSE>> \in left => claim[s].st # "present"

\* The handle an acquire returns speaks to the claim of its scope: a cached handle
\* whose claim has expired and been replaced is not handed out.
AcquiredIsCurrent ==
    \A g \in Gateways : (op[g].pc # "acquired" /\ op'[g].pc = "acquired")
                        => Exists(op[g].s, cache'[g][op[g].s])

\* A release that reports success has deleted the claim: it is not there when
\* release() returns, whatever failed on the way.
ReleasedIsGone ==
    \A g \in Gateways : op[g].pc = "released"
                        => ~(Exists(op[g].s, op[g].uid) /\ claim[op[g].s].st = "present")

-----------------------------------------------------------------------------
(***************************************************************************)
(* The tools a DeerFlow sandbox offers its agent, as functions of what the  *)
(* sandbox answers (deer-flow-sandbox/agent_sandbox_provider/provider.py    *)
(* and parsing.py): the confinement of a path, the window of a file that is *)
(* read, the listing of a directory to a depth, and the two searches, whose *)
(* output is cut off in the sandbox and again by the caller's max_results.  *)
(*                                                                          *)
(* A path is the sequence of its segments.  A directory tree is the parent  *)
(* of each entry.  A file is known by how many of its lines match.  One     *)
(* call is made per behaviour; calls of every shape are made.               *)
(***************************************************************************)
toolVars == <<call, out>>

None == [tool |-> "none"]

-----------------------------------------------------------------------------
(* Paths.                                                                   *)

Up == ".."
Paths == UNION {[1..n -> Names \cup {Up}] : n \in 0..MaxPath}

\* posixpath.normpath of an absolute path.
Walk(at, name) ==
    IF name # Up THEN Append(at, name) ELSE IF at = <<>> THEN at ELSE Front(at)
Normpath(p) == FoldLeft(Walk, <<>>, p)

Refused == <<"refused">>

ToRootRelative(p) ==
    LET path == Normpath(p)
    IN  IF IsPrefix(Root, path) THEN SubSeq(path, Len(Root) + 1, Len(path)) ELSE Refused

-----------------------------------------------------------------------------
(* read_file: a window of the lines.  0 stands for a bound that is not given.*)

SliceLines(n, start, end) ==
    LET from == IF start = 0 THEN 0 ELSE start - 1
        to == IF end = 0 THEN n ELSE end
        last == IF to < from THEN from ELSE to
    IN  SubSeq([i \in 1..n |-> i], from + 1, IF last > n THEN n ELSE last)

-----------------------------------------------------------------------------
(* list_dir: a queue of directories and their depths.                       *)

Trees == {p \in [Entries -> Entries \cup {0}] : \A e \in Entries : p[e] < e}
Children(tree, e) == SelectSeq([i \in 1..Cardinality(Entries) |-> i], LAMBDA c : tree[c] = e)

ListOne(tree, dirs, maxDepth, q) ==
    LET at == Head(q.queue) kids == Children(tree, at[1])
        deeper == IF at[2] + 1 < maxDepth THEN SelectSeq(kids, LAMBDA c : c \in dirs) ELSE <<>>
    IN  [listed |-> q.listed \o kids,
         queue |-> Tail(q.queue) \o [i \in 1..Len(deeper) |-> <<deeper[i], at[2] + 1>>]]

ListDir(tree, dirs, maxDepth) ==
    FoldLeft(LAMBDA q, i : IF q.queue = <<>> THEN q ELSE ListOne(tree, dirs, maxDepth, q),
             [listed |-> <<>>, queue |-> << <<0, 0>> >>],
             [i \in 1..(Cardinality(Entries) + 1) |-> i]).listed

-----------------------------------------------------------------------------
(* glob() and grep(): what the sandbox prints, cut after hard_limit lines,    *)
(* and what is kept of it.                                                   *)

Larger(a, b) == IF a > b THEN a ELSE b
HardLimit(max) == Larger(max * 4, max + Slack)
Cut(lines, limit) == SubSeq(lines, 1, IF Len(lines) < limit THEN Len(lines) ELSE limit)

Capped(hits, max, cut) ==
    IF Len(hits) > max THEN [hits |-> SubSeq(hits, 1, max), truncated |-> TRUE]
    ELSE [hits |-> hits, truncated |-> cut]

\* wanted says of each printed path whether the full-path pattern matches and no
\* ignored directory is on it.
Glob(wanted, max) ==
    LET printed == Cut([i \in 1..Len(wanted) |-> i], HardLimit(max))
    IN  Capped(SelectSeq(printed, LAMBDA i : wanted[i]), max, Len(wanted) > HardLimit(max))

PerFileCap(max) == Larger(max + 1, Floor)
Printed(files, cap) ==
    FlattenSeq([f \in 1..Len(files) |->
        [i \in 1..(IF files[f].lines < cap THEN files[f].lines ELSE cap) |-> <<f, i>>]])

\* A grep that does not know the options fails with status 2, after part of its output
\* at most, and runs again without them.
Searched(files, max, portable, part) ==
    IF portable THEN Cut(Printed(files, PerFileCap(max)), part) \o Printed(files, 1000)
    ELSE Printed(files, PerFileCap(max))

Distinct(hits) ==
    FoldLeft(LAMBDA kept, h : IF Contains(kept, h) THEN kept ELSE Append(kept, h), <<>>, hits)

Grep(files, max, portable, part) ==
    LET all == Searched(files, max, portable, part)
        kept == SelectSeq(Cut(all, HardLimit(max)), LAMBDA h : files[h[1]].wanted)
    IN  Capped(Distinct(kept), max, Len(all) > HardLimit(max))

-----------------------------------------------------------------------------
(* One call.                                                                *)

ToolInit == call = None /\ out = None

Resolve ==
    /\ call = None
    /\ \E p \in Paths :
          /\ call' = [tool |-> "path", path |-> p]
          /\ out' = [tool |-> "path", rel |-> ToRootRelative(p)]

ReadFile ==
    /\ call = None
    /\ \E n, from, to \in 0..MaxLines, mid \in 1..MaxLines :
          /\ call' = [tool |-> "read", n |-> n, from |-> from, to |-> to, mid |-> mid]
          /\ out' = [tool |-> "read", window |-> SliceLines(n, from, to),
                     below |-> SliceLines(n, 0, mid), above |-> SliceLines(n, mid + 1, 0)]

List ==
    /\ call = None
    /\ \E tree \in Trees, depth \in 1..3, leaves \in SUBSET Entries :
          LET dirs == {e \in Entries : e \notin leaves \/ \E c \in Entries : tree[c] = e}
          IN  /\ call' = [tool |-> "list", tree |-> tree, dirs |-> dirs, depth |-> depth]
              /\ out' = [tool |-> "list", listed |-> ListDir(tree, dirs, depth)]

FindGlob ==
    /\ call = None
    /\ \E n \in 0..(HardLimit(MaxResults) + 1), max \in 1..MaxResults :
       \E wanted \in [1..n -> BOOLEAN] :
          /\ call' = [tool |-> "glob", wanted |-> wanted, max |-> max]
          /\ out' = Glob(wanted, max) @@ [tool |-> "glob"]

FindGrep ==
    /\ call = None
    /\ \E n \in 1..2, max \in 1..MaxResults, portable \in BOOLEAN, part \in 0..2 :
       \E files \in [1..n -> [lines : 0..(Larger(MaxResults + 1, Floor) + 1), wanted : BOOLEAN]] :
          /\ call' = [tool |-> "grep", files |-> files, max |-> max]
          /\ out' = Grep(files, max, portable, part) @@ [tool |-> "grep"]

ToolNext == Resolve \/ ReadFile \/ List \/ FindGlob \/ FindGrep
ToolSpec == ToolInit /\ [][ToolNext]_toolVars

-----------------------------------------------------------------------------
\* A path is taken exactly if it leads below the root, and the name passed on leads
\* from the root to the same place without going up.
Confined ==
    out.tool = "path" =>
        /\ (out.rel = Refused) = ~IsPrefix(Root, Normpath(call.path))
        /\ out.rel # Refused => /\ ~Contains(out.rel, Up)
                                /\ Root \o out.rel = Normpath(call.path)

\* The window [from, to] has exactly the lines it names, and two adjacent windows
\* together are the file.
WindowsTile ==
    out.tool = "read" =>
        /\ out.below \o out.above = [i \in 1..call.n |-> i]
        /\ ToSet(out.window) = {i \in 1..call.n : i >= call.from /\ (call.to # 0 => i <= call.to)}

\* A search that does not say it is truncated has returned every match: a limit in the
\* sandbox, per file or in all, is never taken for the end of the matches.
UntruncatedIsComplete ==
    /\ (out.tool = "glob" /\ ~out.truncated) =>
           ToSet(out.hits) = {i \in DOMAIN call.wanted : call.wanted[i]}
    /\ (out.tool = "grep" /\ ~out.truncated) =>
           ToSet(out.hits) = {<<f, i>> \in (DOMAIN call.files) \X (1..10) :
                                call.files[f].wanted /\ i <= call.files[f].lines}

=============================================================================
