------------------------ MODULE WarmPoolTypes_proofs ------------------------
(***************************************************************************)
(* The inductive invariant of WarmPool, and the steps that keep its types, *)
(* the order of the three views of an object, and the loops of a pass.     *)
(***************************************************************************)
EXTENDS WarmPool, FiniteSetTheorems, TLAPS

-----------------------------------------------------------------------------
(* The inductive invariant.                                                *)

\* c is a version the object had on its way to a.
Precedes(c, a) ==
    /\ StageRank(c.stage) <= StageRank(a.stage)
    /\ OwnerRank(c.owner) <= OwnerRank(a.owner)
    /\ c.stage = "absent" => c.owner = "pool"
    /\ a.stage = "absent" => a.owner = "pool"
    /\ c.stage \in {"deleting", "gone"} => c.owner = a.owner

\* The list of the pass is no newer than the cache, the cache no newer than
\* the API server; an add event is only pending for a cached object.
Lag ==
    \A s \in Sandboxes :
        /\ Precedes(cache[s], api[s])
        /\ phase # "idle" => Precedes(view[s], cache[s])
        /\ s \in adds => cache[s].stage # "absent"
        /\ cache[s].owner = "orphan" => s \in Orphaned

\* Objects that exist and that the pass's list does not show.
Missed == {s \in Sandboxes : view[s].stage = "absent" /\ api[s].stage # "absent"}

\* Calls are in flight only in the loops that issue them, for listed objects.
Loops ==
    /\ inflight # {} => phase \in {"filter", "grace", "excess"}
    /\ phase \in {"grace", "excess"} => todo \cup inflight \subseteq active
    /\ todo \cap inflight = {}
    /\ \A s \in todo \cup inflight \cup active : Present(view[s])
    /\ phase = "filter" => \A s \in todo : view[s].owner # "claim"
    /\ phase \in {"create", "excess"} => togo <= left

\* Every member is counted, visibly uncounted, missed by the list or still ahead.
Coverage ==
    phase \in {"filter", "grace", "create"} =>
        Members \subseteq active \cup terminating \cup skipped \cup Missed
                          \cup (IF phase = "filter" THEN todo \cup inflight ELSE {})

\* The record is at most one batch, and once expired has nothing left to cover.
Record ==
    /\ creations <= MaxBatchSize
    /\ expired => Unseen = {} /\ phase # "create"

\* The list misses at most the batch that was unobserved when it was read.
Window ==
    /\ phase \in {"filter", "grace"} => Cardinality(Missed) <= MaxBatchSize
    /\ phase = "create" =>
          Cardinality(Missed) + left + lost + Cardinality(active)
              + Cardinality(terminating) <= desired + MaxBatchSize

IInv ==
    /\ TypeOK /\ Lag /\ Loops /\ Coverage /\ Record /\ Window
    /\ ExpectationsCoverWrites /\ PendingDeletionsReal /\ DeletionsAwaited
-----------------------------------------------------------------------------
USE DEF store, informer, expectations, snapshot, counts, batch, wakeups

\* Sets of Sandboxes are finite.
LEMMA SubsetFinite ==
    ASSUME NEW S \in SUBSET Sandboxes
    PROVE  IsFiniteSet(S) /\ Cardinality(S) \in Nat
BY WarmPoolAssumption, FS_Subset, FS_CardinalityType

\* The locals of a pass go out of scope with legal values.
LEMMA EndPassType ==
    EndPass => /\ phase' \in Phases
               /\ view' \in [Sandboxes -> Version]
               /\ tmpl' \in 0..MaxTemplate
               /\ desired' \in 0..MaxReplicas
               /\ todo' = {} /\ active' = {} /\ terminating' = {} /\ skipped' = {}
               /\ left' = 0 /\ togo' = 0 /\ size' = 0 /\ lost' = 0
               /\ errs' \in BOOLEAN /\ rearm' \in BOOLEAN
<1> HAVE EndPass
<1>1. view' \in [Sandboxes -> Version]
  BY DEF EndPass, Version, Controllers, Stages
<1>2. errs' \in BOOLEAN /\ rearm' \in BOOLEAN
  BY Zenon DEF EndPass
<1>3. tmpl' \in 0..MaxTemplate /\ desired' \in 0..MaxReplicas
  <2>1. tmpl' = 0 /\ desired' = 0
    BY Zenon DEF EndPass
  <2> QED
    BY <2>1, WarmPoolAssumption
<1> QED
  BY <1>1, <1>2, <1>3, Zenon DEF EndPass, Phases

\* A written expectations record is what was asked for.
LEMMA RecordType ==
    ASSUME NEW c, NEW d, NEW e, SetRecord(c, d, e)
    PROVE  creations' = c /\ deletions' = d /\ expired' \in BOOLEAN
BY DEF SetRecord

\* Every step of the controller, the watch and the world keeps the types.
LEMMA TypeStep == IInv /\ [Next]_vars => TypeOK'
<1> SUFFICES ASSUME IInv, [Next]_vars PROVE TypeOK'
  OBVIOUS
<1> USE WarmPoolAssumption DEF IInv, TypeOK, Loops, Phases
<1>1. ASSUME NEW n \in 0..MaxReplicas, Scale(n) PROVE TypeOK'
  BY <1>1 DEF Scale, Disturb
<1>2. ASSUME NEW t \in 0..MaxTemplate, UpdateTemplate(t) PROVE TypeOK'
  BY <1>2 DEF UpdateTemplate, Disturb
<1>3. ASSUME NEW s \in Sandboxes, Adopt(s) PROVE TypeOK'
  BY <1>3 DEF Adopt, Disturb, Version, Controllers, Stages
<1>4. ASSUME NEW s \in Sandboxes, ExternalDelete(s) PROVE TypeOK'
  BY <1>4 DEF ExternalDelete, Disturb, Version, Controllers, Stages
<1>5. ASSUME NEW s \in Sandboxes, Finalize(s) PROVE TypeOK'
  BY <1>5 DEF Finalize, Version, Controllers, Stages
<1>6. ASSUME NEW s \in Sandboxes, MemberUpdated(s) PROVE TypeOK'
  BY <1>6 DEF MemberUpdated
<1>7. CASE Expire
  BY <1>7 DEF Expire
<1>8. CASE TimerFires
  BY <1>8 DEF TimerFires
<1>9. CASE Restart
  <2>1. EndPass
    BY <1>9 DEF Restart
  <2>2. creations' = 0 /\ deletions' = {} /\ expired' \in BOOLEAN
    BY <1>9, RecordType DEF Restart
  <2>3. /\ cache' = api /\ adds' = {} /\ dels' = {} /\ inflight' = {}
        /\ queued' \in BOOLEAN /\ timer' \in BOOLEAN
        /\ Disturb
    BY <1>9, Zenon DEF Restart
  <2>4. UNCHANGED <<replicas, template, hash, api, status>>
    BY <1>9 DEF Restart
  <2> QED
    BY <2>1, <2>2, <2>3, <2>4, EndPassType DEF Disturb
<1>10. ASSUME NEW s \in Sandboxes, WatchEvent(s) PROVE TypeOK'
  BY <1>10 DEF WatchEvent, Apply, NextVersions, Version, Controllers, Stages
<1>11. ASSUME NEW s \in Sandboxes, Relist(s) PROVE TypeOK'
  BY <1>11 DEF Relist, Disturb, Apply
<1>12. ASSUME NEW s \in Sandboxes, HandleCreate(s) PROVE TypeOK'
  BY <1>12 DEF HandleCreate, LowerCreations, SetRecord
<1>13. ASSUME NEW s \in Sandboxes, HandleDelete(s) PROVE TypeOK'
  BY <1>13 DEF HandleDelete, DeletionObserved, SetRecord
<1>14. CASE StartPass
  BY <1>14 DEF StartPass, Listed
<1>15. CASE EndFilter
  <2>1. PICK T \in SUBSET active : todo' = T /\ rearm' \in {FALSE, active # T}
    BY <1>15 DEF EndFilter
  <2>2. rearm' \in BOOLEAN
    BY <2>1, Zenon
  <2>3. budget' \in Nat
    BY <1>15 DEF EndFilter, Disturb
  <2> QED
    BY <1>15, <2>1, <2>2, <2>3 DEF EndFilter
<1>16. ASSUME NEW s \in Sandboxes, FilterTerminating(s) PROVE TypeOK'
  BY <1>16 DEF FilterTerminating, Filtering, Terminating, IsPendingDeletion
<1>17. ASSUME NEW s \in Sandboxes, FilterStale(s) PROVE TypeOK'
  BY <1>17 DEF FilterStale, ExpectDeletion, Filtering, Terminating, isSandboxStale,
     IsPendingDeletion, SetRecord
<1>18. ASSUME NEW s \in Sandboxes, FilterActive(s) PROVE TypeOK'
  BY <1>18 DEF FilterActive, UpdateAccepted, Filtering, Terminating, isSandboxStale,
     IsPendingDeletion, Version, Controllers, Stages
<1>19. ASSUME NEW s \in Sandboxes, FilterWriteFails(s) PROVE TypeOK'
  BY <1>19 DEF FilterWriteFails, Disturb, Filtering, Terminating, isSandboxStale,
     IsPendingDeletion
<1>20. ASSUME NEW s \in Sandboxes, DeleteStuck(s) PROVE TypeOK'
  BY <1>20 DEF DeleteStuck, ExpectDeletion, SetRecord
<1>21. ASSUME NEW s \in Sandboxes, DeleteExcess(s) PROVE TypeOK'
  BY <1>21 DEF DeleteExcess, ExpectDeletion, SetRecord
<1>22. ASSUME NEW s \in Sandboxes, DeleteOK(s) PROVE TypeOK'
  BY <1>22 DEF DeleteOK, Version, Controllers, Stages
<1>23. ASSUME NEW s \in Sandboxes, DeleteFails(s) PROVE TypeOK'
  <2>1. creations' \in Nat /\ deletions' \subseteq Sandboxes /\ expired' \in BOOLEAN
    <3>1. CASE s \in Expecting
      BY <1>23, <3>1, RecordType DEF DeleteFails, DeletionObserved
    <3>2. CASE s \notin Expecting
      BY <1>23, <3>2 DEF DeleteFails
    <3> QED
      BY <3>1, <3>2
  <2> QED
    BY <1>23, <2>1 DEF DeleteFails, Disturb
<1>24. ASSUME NEW s \in Sandboxes, CreateOK(s) PROVE TypeOK'
  BY <1>24 DEF CreateOK, Version, Controllers, Stages
<1>25. ASSUME NEW n \in 1..MaxReplicas, BeginCreates(n) PROVE TypeOK'
  BY <1>25 DEF BeginCreates, TryExpectCreations, StartBatch, Counted, MinOf, SetRecord
<1>26. CASE DeferCreates
  BY <1>26 DEF DeferCreates, Counted, currentReplicas
<1>27. CASE NoChange
  BY <1>27 DEF NoChange, Counted, currentReplicas, totalReplicas
<1>28. CASE CreateFails
  BY <1>28 DEF CreateFails, Disturb
<1>29. CASE NextBatch
  BY <1>29 DEF NextBatch, DoubleBatch, MinOf
<1>30. CASE EndCreates
  <2>1. creations' \in Nat /\ deletions' \subseteq Sandboxes /\ expired' \in BOOLEAN
    <3>1. CASE lost + left > 0
      <4>1. SetRecord(IF lost + left < creations THEN creations - (lost + left) ELSE 0,
                      deletions, expired)
        BY <1>30, <3>1 DEF EndCreates, LowerCreations
      <4> HIDE DEF SetRecord
      <4> QED
        BY <4>1, RecordType
    <3>2. CASE ~(lost + left > 0)
      BY <1>30, <3>2 DEF EndCreates
    <3> QED
      BY <3>1, <3>2
  <2>2. errs' \in BOOLEAN
    BY <1>30 DEF EndCreates
  <2> QED
    BY <1>30, <2>1, <2>2 DEF EndCreates
<1>31. CASE BeginExcess
  BY <1>31, SubsetFinite DEF BeginExcess, SetRecord, StartBatch, MinOf, Counted,
     currentReplicas
<1>32. CASE DeferExcess
  BY <1>32 DEF DeferExcess, Counted, currentReplicas
<1>33. CASE EndExcess
  BY <1>33 DEF EndExcess
<1>34. CASE UpdateStatus
  <2>1. EndPass
    BY <1>34 DEF UpdateStatus
  <2> QED
    BY <1>34, <2>1, EndPassType, SubsetFinite DEF UpdateStatus, currentReplicas, Wake
<1>35. CASE StatusFails
  <2>1. EndPass
    BY <1>35 DEF StatusFails
  <2> QED
    BY <1>35, <2>1, EndPassType DEF StatusFails, Disturb
<1>u. CASE UNCHANGED vars
  BY <1>u DEF vars
<1> QED
  BY <1>u, <1>1, <1>2, <1>3, <1>4, <1>5, <1>6, <1>7, <1>8, <1>9, <1>10, <1>11,
     <1>12, <1>13, <1>14, <1>15, <1>16, <1>17, <1>18, <1>19, <1>20, <1>21, <1>22,
     <1>23, <1>24, <1>25, <1>26, <1>27, <1>28, <1>29, <1>30, <1>31, <1>32, <1>33,
     <1>34, <1>35 DEF Next, World, Watch, Pass

-----------------------------------------------------------------------------
\* The watch moves the cache towards the API server.
LEMMA Delivered ==
    ASSUME NEW c \in Version, NEW a \in Version, Precedes(c, a),
           NEW v \in NextVersions(c, a)
    PROVE  v \in Version /\ Precedes(c, v) /\ Precedes(v, a) /\ v.stage # "absent"
BY DEF Precedes, NextVersions, StageRank, OwnerRank, Version, Stages, Controllers

\* "Precedes" is an order on versions.
LEMMA PrecedesTransitive ==
    ASSUME NEW u \in Version, NEW c \in Version, NEW a \in Version,
           Precedes(u, c), Precedes(c, a)
    PROVE  Precedes(u, a)
BY DEF Precedes, StageRank, OwnerRank, Version, Stages, Controllers

\* It is reflexive on versions that occur in it.
LEMMA PrecedesReflexive ==
    ASSUME NEW c \in Version, NEW a \in Version, Precedes(c, a)
    PROVE  Precedes(c, c) /\ Precedes(a, a)
BY DEF Precedes, StageRank, OwnerRank, Version, Stages, Controllers

\* The three lists of versions stay ordered.
LEMMA LagStep == IInv /\ [Next]_vars => Lag'
<1> SUFFICES ASSUME IInv, [Next]_vars PROVE Lag'
  OBVIOUS
<1>t. TypeOK /\ Lag /\ Loops /\ WarmPoolAssumption
  BY WarmPoolAssumption DEF IInv
<1>1. ASSUME NEW s \in Sandboxes, Adopt(s) PROVE Lag'
  BY <1>1, <1>t DEF Adopt, TypeOK, Lag, Precedes, ByPool, StageRank, OwnerRank,
     Version, Stages, Controllers
<1>2. ASSUME NEW s \in Sandboxes, ExternalDelete(s) \/ Finalize(s) \/ DeleteOK(s) PROVE Lag'
  <2>1. PICK g \in {"deleting", "gone"} :
           /\ api' = [api EXCEPT ![s].stage = g]
           /\ api[s].stage \in {"live", "deleting"} /\ StageRank(api[s].stage) <= StageRank(g)
    BY <1>2 DEF ExternalDelete, Finalize, DeleteOK, Present, StageRank
  <2>2. UNCHANGED <<cache, adds, phase, view>>
    BY <1>2 DEF ExternalDelete, Finalize, DeleteOK
  <2>3. api'[s].owner = api[s].owner /\ api'[s].stage = g /\ \A r \in Sandboxes \ {s} : api'[r] = api[r]
    BY <2>1, <1>t DEF TypeOK, Version
  <2>4. Precedes(cache[s], api'[s])
    BY <2>1, <2>3, <1>t DEF Lag, Precedes, TypeOK, StageRank, Version, Stages
  <2> QED
    BY <2>2, <2>3, <2>4, <1>t DEF Lag
<1>3. ASSUME NEW s \in Sandboxes, CreateOK(s) PROVE Lag'
  BY <1>3, <1>t DEF CreateOK, TypeOK, Lag, Precedes, StageRank, OwnerRank, Version,
     Stages, Controllers
<1>4. ASSUME NEW s \in Sandboxes, FilterActive(s) PROVE Lag'
  <2>1. Present(view[s]) /\ phase = "filter" /\ view[s].owner # "claim" /\ phase' = phase
    BY <1>4, <1>t DEF FilterActive, Filtering, Loops
  <2>2. view[s].owner # "pool" => api[s] = view[s]
    BY <1>4 DEF FilterActive, UpdateAccepted
  <2>3. api' = IF view[s].owner = "pool" THEN api ELSE [api EXCEPT ![s].owner = "pool"]
    BY <1>4 DEF FilterActive
  <2>4. UNCHANGED <<cache, adds, view>> /\ view[s].stage # "deleting"
    BY <1>4 DEF FilterActive, Terminating
  <2> QED
    BY <2>1, <2>2, <2>3, <2>4, <1>t DEF Present, TypeOK, Lag, Precedes, StageRank,
       OwnerRank, Version, Stages, Controllers
<1>5. ASSUME NEW s \in Sandboxes, NEW v \in Version, Apply(s, v),
             Precedes(cache[s], v), Precedes(v, api[s]),
             v.stage = "absent" => s \notin adds
      PROVE  Lag'
  <2>1. cache' = [cache EXCEPT ![s] = v] /\ UNCHANGED <<api, phase, view>>
    BY <1>5 DEF Apply
  <2>2. \A r \in Sandboxes : Precedes(cache'[r], api'[r])
    BY <2>1, <1>5, <1>t DEF TypeOK, Lag
  <2>3. ASSUME NEW r \in Sandboxes, phase # "idle" PROVE Precedes(view'[r], cache'[r])
    <3>1. Precedes(view[r], cache[r])
      BY <2>3, <1>t DEF Lag
    <3>2. CASE r = s
      BY <3>1, <3>2, <2>1, <1>5, <1>t, PrecedesTransitive DEF TypeOK
    <3>3. CASE r # s
      BY <3>1, <3>3, <2>1, <1>t DEF TypeOK
    <3> QED
      BY <3>2, <3>3
  <2>4. \A r \in Sandboxes : r \in adds' => cache'[r].stage # "absent"
    BY <2>1, <1>5, <1>t DEF Apply, Present, TypeOK, Lag
  <2>5. \A r \in Sandboxes : cache'[r].owner = "orphan" => r \in Orphaned
    <3>1. v.owner = "orphan" => cache[s].owner = "orphan"
      BY <1>5, <1>t DEF Precedes, OwnerRank, TypeOK, Version, Controllers
    <3> QED
      BY <3>1, <2>1, <1>t DEF TypeOK, Lag
  <2> QED
    BY <2>1, <2>2, <2>3, <2>4, <2>5 DEF Lag
<1>6. ASSUME NEW s \in Sandboxes, WatchEvent(s) PROVE Lag'
  <2>1. PICK v \in NextVersions(cache[s], api[s]) : Apply(s, v)
    BY <1>6 DEF WatchEvent
  <2> QED
    BY <2>1, <1>5, <1>t, Delivered DEF Lag, TypeOK
<1>7. ASSUME NEW s \in Sandboxes, Relist(s) PROVE Lag'
  <2>1. Apply(s, api[s]) /\ api[s] \in Version /\ Precedes(cache[s], api[s])
    BY <1>7, <1>t DEF Relist, Lag, TypeOK
  <2>2. Precedes(api[s], api[s]) /\ (api[s].stage = "absent" => s \notin adds)
    BY <2>1, <1>t, PrecedesReflexive DEF Lag, TypeOK, Precedes, StageRank, Version,
       Stages
  <2> QED
    BY <2>1, <2>2, <1>5
<1>8. ASSUME NEW s \in Sandboxes, HandleCreate(s) PROVE Lag'
  BY <1>8, <1>t DEF HandleCreate, Lag
<1>9. CASE StartPass
  BY <1>9, <1>t, PrecedesReflexive DEF StartPass, Lag, TypeOK
<1>10. CASE Restart
  <2>1. cache' = api /\ api' = api /\ adds' = {} /\ phase' = "idle"
    BY <1>10 DEF Restart, EndPass
  <2>2. \A s \in Sandboxes : api[s].owner = "orphan" => cache[s].owner = "orphan"
    BY <1>t DEF Lag, Precedes, OwnerRank, TypeOK, Version, Controllers
  <2> QED
    BY <2>1, <2>2, <1>t, PrecedesReflexive DEF Lag, TypeOK
<1>q. CASE /\ UNCHANGED <<api, cache, adds>>
           /\ phase' # "idle" => phase # "idle" /\ view' = view
  BY <1>q, <1>t DEF Lag
<1> QED
  BY <1>1, <1>2, <1>3, <1>4, <1>6, <1>7, <1>8, <1>9, <1>10, <1>q
  DEF Next, World, Watch, Pass, Scale, UpdateTemplate, MemberUpdated, Expire,
      TimerFires, HandleDelete, EndFilter, FilterTerminating, FilterStale,
      Filtering, FilterWriteFails, DeleteStuck, DeleteExcess, DeleteFails,
      BeginCreates, Counted, DeferCreates, NoChange, CreateFails, NextBatch,
      EndCreates, BeginExcess, DeferExcess, EndExcess, UpdateStatus, StatusFails,
      EndPass, vars

-----------------------------------------------------------------------------
\* The loops of a pass keep to what the list showed.
LEMMA LoopsStep == IInv /\ [Next]_vars => Loops'
<1> SUFFICES ASSUME IInv, [Next]_vars PROVE Loops'
  OBVIOUS
<1>t. TypeOK /\ Loops
  BY DEF IInv
<1>1. CASE StartPass
  BY <1>1, <1>t DEF StartPass, Listed, Loops
<1>2. CASE EndFilter
  <2>1. PICK T \in SUBSET active : todo' = T
    BY <1>2 DEF EndFilter
  <2> QED
    BY <1>2, <2>1, <1>t DEF EndFilter, Loops
<1>3. ASSUME NEW s \in Sandboxes, FilterTerminating(s) \/ FilterStale(s) PROVE Loops'
  BY <1>3, <1>t DEF FilterTerminating, FilterStale, Filtering, Loops
<1>4. ASSUME NEW s \in Sandboxes, FilterActive(s) \/ FilterWriteFails(s) PROVE Loops'
  BY <1>4, <1>t DEF FilterActive, FilterWriteFails, Filtering, Loops
<1>5. ASSUME NEW s \in Sandboxes, DeleteStuck(s) PROVE Loops'
  BY <1>5, <1>t DEF DeleteStuck, Loops
<1>6. ASSUME NEW s \in Sandboxes, DeleteExcess(s) PROVE Loops'
  BY <1>6, <1>t DEF DeleteExcess, Loops, TypeOK
<1>7. ASSUME NEW s \in Sandboxes, DeleteOK(s) PROVE Loops'
  BY <1>7, <1>t DEF DeleteOK, Loops, TypeOK
<1>8. ASSUME NEW s \in Sandboxes, DeleteFails(s) PROVE Loops'
  BY <1>8, <1>t DEF DeleteFails, Loops, TypeOK
<1>9. ASSUME NEW s \in Sandboxes, CreateOK(s) PROVE Loops'
  BY <1>9, <1>t DEF CreateOK, Loops, TypeOK
<1>10. ASSUME NEW n \in 1..MaxReplicas, BeginCreates(n) PROVE Loops'
  BY <1>10, <1>t DEF BeginCreates, Counted, StartBatch, MinOf, Loops, TypeOK
<1>11. CASE CreateFails
  BY <1>11, <1>t DEF CreateFails, Loops, TypeOK
<1>12. CASE NextBatch
  BY <1>12, <1>t DEF NextBatch, DoubleBatch, MinOf, Loops, TypeOK
<1>13. CASE BeginExcess
  <2>1. PICK V \in SUBSET active : todo' = V /\ StartBatch(Cardinality(V))
    BY <1>13 DEF BeginExcess
  <2>2. togo' <= left'
    BY <2>1, <1>t, SubsetFinite DEF StartBatch, MinOf, TypeOK
  <2> QED
    BY <1>13, <2>1, <2>2, <1>t DEF BeginExcess, Counted, Loops
<1>14. CASE EndExcess
  BY <1>14, <1>t DEF EndExcess, Loops
<1>15. CASE Restart \/ UpdateStatus \/ StatusFails
  BY <1>15, <1>t DEF Restart, UpdateStatus, StatusFails, EndPass, Loops
<1>q. CASE /\ UNCHANGED <<inflight, todo, active, view, togo, left>>
           /\ phase' = phase \/ (phase' = "status" /\ inflight = {})
  BY <1>q, <1>t DEF Loops
<1>16. CASE EndCreates
  BY <1>16, <1>t DEF EndCreates, Loops
<1> QED
  BY <1>1, <1>2, <1>3, <1>4, <1>5, <1>6, <1>7, <1>8, <1>9, <1>10, <1>11, <1>12,
     <1>13, <1>14, <1>15, <1>16, <1>q
  DEF Next, World, Watch, Pass, Scale, UpdateTemplate, Adopt, ExternalDelete,
      Finalize, MemberUpdated, Expire, TimerFires, WatchEvent, Relist, Apply,
      HandleCreate, HandleDelete, Counted, DeferCreates, NoChange, DeferExcess, vars
=============================================================================
