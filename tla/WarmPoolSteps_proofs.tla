------------------------ MODULE WarmPoolSteps_proofs ------------------------
(***************************************************************************)
(* The steps that keep the counting parts of the inductive invariant.      *)
(***************************************************************************)
EXTENDS WarmPoolTypes_proofs

USE DEF store, informer, expectations, snapshot, counts, batch, wakeups

\* Only CreateOK brings objects into existence.
LEMMA OnlyCreatesAppear ==
    ASSUME IInv, [Next]_vars, ~\E s \in Sandboxes : CreateOK(s), NEW r \in Sandboxes
    PROVE  api'[r].stage = "absent" <=> api[r].stage = "absent"
<1>t. TypeOK
  BY DEF IInv
<1>1. ASSUME NEW s \in Sandboxes, Adopt(s) \/ FilterActive(s)
      PROVE  api'[r].stage = "absent" <=> api[r].stage = "absent"
  BY <1>1, <1>t DEF Adopt, FilterActive, TypeOK, Version
<1>2. ASSUME NEW s \in Sandboxes, ExternalDelete(s) \/ Finalize(s) \/ DeleteOK(s)
      PROVE  api'[r].stage = "absent" <=> api[r].stage = "absent"
  <2>1. \E g \in {"deleting", "gone"} : api' = [api EXCEPT ![s].stage = g]
    BY <1>2 DEF ExternalDelete, Finalize, DeleteOK
  <2>2. api[s].stage # "absent"
    BY <1>2 DEF ExternalDelete, Finalize, DeleteOK, Present
  <2> QED
    BY <2>1, <2>2, <1>t DEF TypeOK, Version
<1>q. CASE api' = api
  BY <1>q
<1> QED
  BY <1>1, <1>2, <1>q
  DEF Next, World, Watch, Pass, Scale, UpdateTemplate, MemberUpdated, Expire,
      TimerFires, Restart, WatchEvent, Relist, Apply, HandleCreate, HandleDelete,
      StartPass, EndFilter, FilterTerminating, FilterStale, FilterWriteFails,
      DeleteStuck, DeleteExcess, DeleteFails, BeginCreates, DeferCreates, NoChange,
      CreateFails, NextBatch, EndCreates, BeginExcess, DeferExcess, EndExcess,
      UpdateStatus, StatusFails, vars

\* Within a pass the list stays and only CreateOK adds to what it misses.
LEMMA MissedStep ==
    ASSUME IInv, [Next]_vars, view' = view, ~\E s \in Sandboxes : CreateOK(s)
    PROVE  Missed' = Missed
BY OnlyCreatesAppear DEF Missed

\* A create is missed by the list of the pass that issues it.
LEMMA MissedCreate ==
    ASSUME IInv, NEW s \in Sandboxes, CreateOK(s)
    PROVE  Missed' = Missed \cup {s} /\ s \notin Missed
<1>1. /\ api[s].stage = "absent" /\ view' = view
      /\ api' = [api EXCEPT ![s] = [owner |-> "pool", stage |-> "live"]]
      /\ phase # "idle"
  BY DEF CreateOK
<1>2. TypeOK /\ Lag
  BY DEF IInv
<1>3. view[s].stage = "absent"
  BY <1>1, <1>2 DEF Lag, Precedes, StageRank, TypeOK, Version, Stages
<1> QED
  BY <1>1, <1>2, <1>3 DEF Missed, TypeOK

-----------------------------------------------------------------------------
\* No member escapes the count unnoticed.
LEMMA CoverageStep == IInv /\ [Next]_vars => Coverage'
<1> SUFFICES ASSUME IInv, [Next]_vars PROVE Coverage'
  OBVIOUS
<1>t. TypeOK /\ Lag /\ Loops /\ Coverage
  BY DEF IInv
<1>1. ASSUME NEW s \in Sandboxes, CreateOK(s) PROVE Coverage'
  <2>1. Missed' = Missed \cup {s}
    BY <1>1, MissedCreate
  <2>2. Members' \subseteq Members \cup {s}
    BY <1>1, <1>t DEF CreateOK, Members, TypeOK
  <2> QED
    BY <1>1, <2>1, <2>2, <1>t DEF CreateOK, Coverage
<1>2. ASSUME NEW s \in Sandboxes, Adopt(s) \/ ExternalDelete(s) \/ Finalize(s) PROVE Coverage'
  <2>1. Missed' = Missed
    BY <1>2, <1>t, MissedStep DEF TypeOK, Adopt, ExternalDelete, Finalize, CreateOK
  <2>2. Members' \subseteq Members
    BY <1>2, <1>t DEF Adopt, ExternalDelete, Finalize, Members, Present, ByPool,
       TypeOK, Version
  <2> QED
    BY <1>2, <2>1, <2>2, <1>t DEF Adopt, ExternalDelete, Finalize, Coverage
<1>3. CASE StartPass
  <2>1. \A s \in Members : cache[s].stage = "absent" \/ s \in Listed
    BY <1>t DEF Members, Listed, Present, ByPool, Lag, Precedes, StageRank,
       OwnerRank, TypeOK, Version, Stages, Controllers
  <2>2. \A s \in Members : api[s].stage # "absent"
    BY DEF Members, Present
  <2>3. Members' = Members /\ Missed' = {s \in Sandboxes : cache[s].stage = "absent" /\ api[s].stage # "absent"}
    BY <1>3 DEF StartPass, Members, Missed
  <2>4. Members \subseteq Missed' \cup Listed
    BY <2>1, <2>2, <2>3 DEF Members
  <2> QED
    BY <1>3, <2>3, <2>4 DEF StartPass, Coverage
<1>4. ASSUME NEW s \in Sandboxes, FilterTerminating(s) PROVE Coverage'
  <2>1. Missed' = Missed /\ Members' = Members
    BY <1>4 DEF FilterTerminating, Missed, Members
  <2>2. ~ByPool(view[s]) => s \notin Members
    BY <1>4, <1>t DEF FilterTerminating, Filtering, Terminating, Members, Lag,
       Precedes, ByPool, StageRank, OwnerRank, TypeOK, Version, Stages, Controllers
  <2> QED
    BY <1>4, <2>1, <2>2, <1>t DEF FilterTerminating, Filtering, Coverage
<1>5. ASSUME NEW s \in Sandboxes, FilterStale(s) \/ FilterWriteFails(s) PROVE Coverage'
  <2>1. Missed' = Missed /\ Members' = Members
    BY <1>5 DEF FilterStale, FilterWriteFails, Missed, Members
  <2> QED
    BY <1>5, <2>1, <1>t DEF FilterStale, FilterWriteFails, Filtering, Coverage
<1>6. ASSUME NEW s \in Sandboxes, FilterActive(s) PROVE Coverage'
  <2>1. Missed' = Missed
    BY <1>6, MissedStep DEF FilterActive, Filtering, CreateOK
  <2>2. Members' \subseteq Members \cup {s}
    BY <1>6, <1>t DEF FilterActive, Members, TypeOK
  <2> QED
    BY <1>6, <2>1, <2>2, <1>t DEF FilterActive, Filtering, Coverage
<1>7. CASE EndFilter
  <2>1. Missed' = Missed /\ Members' = Members
    BY <1>7 DEF EndFilter, Missed, Members
  <2> QED
    BY <1>7, <2>1, <1>t DEF EndFilter, Coverage
<1>8. ASSUME NEW s \in Sandboxes, DeleteOK(s) PROVE Coverage'
  <2>1. Missed' = Missed
    BY <1>8, <1>t, MissedStep DEF DeleteOK, CreateOK, Loops
  <2>2. Members' \subseteq Members
    BY <1>8, <1>t DEF DeleteOK, Members, Present, ByPool, TypeOK, Version
  <2>3. phase \in {"filter", "grace", "excess"} /\ phase' = phase /\ todo' = todo
        /\ inflight' = inflight \ {s}
    BY <1>8, <1>t DEF DeleteOK, Loops
  <2> QED
    BY <1>8, <2>1, <2>2, <2>3, <1>t DEF DeleteOK, Coverage
<1>9. ASSUME NEW s \in Sandboxes, DeleteFails(s) PROVE Coverage'
  <2>1. Missed' = Missed /\ Members' = Members
    BY <1>9 DEF DeleteFails, Missed, Members
  <2> QED
    BY <1>9, <2>1, <1>t DEF DeleteFails, Coverage
<1>q. CASE /\ UNCHANGED <<api, view, active, terminating, skipped>>
           /\ \/ phase' \in {"idle", "excess", "status"}
              \/ phase = "grace" /\ phase' \in {"grace", "create"}
              \/ phase' = phase /\ UNCHANGED <<todo, inflight>>
              \/ phase' = phase /\ phase # "filter"
  BY <1>q, <1>t DEF Coverage, Members, Missed
<1>10. CASE phase' \in {"idle", "excess", "status"}
  BY <1>10 DEF Coverage
<1> QED
  BY <1>1, <1>2, <1>3, <1>4, <1>5, <1>6, <1>7, <1>8, <1>9, <1>10, <1>q
  DEF Next, World, Watch, Pass, Scale, UpdateTemplate, MemberUpdated, Expire,
      TimerFires, WatchEvent, Relist, Apply, HandleCreate, HandleDelete, Counted,
      DeferCreates, NoChange, DeferExcess, Restart, EndPass, DeleteStuck,
      DeleteExcess, BeginCreates, CreateFails, NextBatch, EndCreates, BeginExcess,
      EndExcess, UpdateStatus, StatusFails, vars

\* An open gate means that every create was observed.
LEMMA GateOpen == IInv /\ SatisfiedExpectations => Unseen = {}
<1> SUFFICES ASSUME IInv, SatisfiedExpectations PROVE Unseen = {}
  OBVIOUS
<1>1. IsFiniteSet(Unseen) /\ Cardinality(Unseen) \in Nat
  BY SubsetFinite DEF Unseen
<1>2. CASE creations = 0
  <2>1. Cardinality(Unseen) = 0
    BY <1>1, <1>2 DEF IInv, ExpectationsCoverWrites, TypeOK
  <2> QED
    BY <1>1, <2>1, FS_EmptySet
<1> QED
  BY <1>2 DEF SatisfiedExpectations, IInv, Record

\* Nothing but a create makes an object unseen.
LEMMA UnseenStep ==
    ASSUME IInv, [Next]_vars, ~\E s \in Sandboxes : CreateOK(s)
    PROVE  Unseen' \subseteq Unseen
<1>t. TypeOK /\ Lag
  BY DEF IInv
<1>1. \A r \in Sandboxes : api'[r].stage = "absent" <=> api[r].stage = "absent"
  BY OnlyCreatesAppear
<1>2. ASSUME NEW s \in Sandboxes, NEW v, Apply(s, v), v.stage = "absent" => api[s].stage = "absent"
      PROVE  Unseen' \subseteq Unseen
  <2>1. /\ cache'[s] = v /\ \A r \in Sandboxes \ {s} : cache'[r] = cache[r]
        /\ adds' \subseteq adds \cup {s}
        /\ s \in adds' => s \in adds \/ cache[s].stage = "absent"
    BY <1>2, <1>t DEF Apply, TypeOK
  <2> QED
    BY <1>1, <1>2, <2>1 DEF Unseen
<1>5. ASSUME NEW s \in Sandboxes, WatchEvent(s) PROVE Unseen' \subseteq Unseen
  BY <1>5, <1>2, <1>t, Delivered DEF WatchEvent, TypeOK, Lag
<1>6. ASSUME NEW s \in Sandboxes, Relist(s) PROVE Unseen' \subseteq Unseen
  BY <1>6, <1>2 DEF Relist
<1>3. CASE cache' = cache /\ adds' \subseteq adds
  BY <1>3, <1>1 DEF Unseen
<1>4. CASE Restart
  BY <1>4, <1>1 DEF Restart, Unseen
<1> QED
  BY <1>3, <1>4, <1>5, <1>6
  DEF Next, World, Watch, Pass, Scale, UpdateTemplate, Adopt, ExternalDelete,
      Finalize, MemberUpdated, Expire, TimerFires, HandleCreate, HandleDelete,
      StartPass, EndFilter, FilterTerminating, FilterStale, FilterActive,
      FilterWriteFails, DeleteStuck, DeleteExcess, DeleteOK, DeleteFails,
      BeginCreates, DeferCreates, NoChange, CreateFails, NextBatch, EndCreates,
      BeginExcess, DeferExcess, EndExcess, UpdateStatus, StatusFails, vars

-----------------------------------------------------------------------------
\* The record never exceeds a batch; it expires only when it covers nothing.
LEMMA RecordStep == IInv /\ [Next]_vars => Record'
<1> SUFFICES ASSUME IInv, [Next]_vars PROVE Record'
  OBVIOUS
<1>t. TypeOK /\ Record /\ WarmPoolAssumption
  BY WarmPoolAssumption DEF IInv
<1>1. ASSUME NEW s \in Sandboxes, CreateOK(s) PROVE Record'
  BY <1>1, <1>t DEF CreateOK, Record
<1> SUFFICES ASSUME ~\E s \in Sandboxes : CreateOK(s) PROVE Record'
  BY <1>1
<1>u. Unseen = {} => Unseen' = {}
  BY UnseenStep
<1>2. ASSUME NEW n \in 1..MaxReplicas, BeginCreates(n) PROVE Record'
  <2>1. n <= MaxBatchSize
    <3>1. n <= Deficit /\ active \subseteq Sandboxes /\ terminating \subseteq Sandboxes
      BY <1>2, <1>t DEF BeginCreates, TypeOK
    <3>2. Cardinality(active) \in Nat /\ Cardinality(terminating) \in Nat
      BY <3>1, SubsetFinite
    <3> QED
      BY <3>1, <3>2, <1>t DEF Deficit, MinOf, totalReplicas, TypeOK
  <2>2. creations' = n /\ expired' = FALSE
    BY <1>2 DEF BeginCreates, TryExpectCreations, SetRecord
  <2> QED
    BY <2>1, <2>2 DEF Record
<1>3. CASE BeginExcess \/ Restart
  <2>1. creations' = 0 /\ ~expired'
    BY <1>3, Zenon DEF BeginExcess, Restart, SetRecord
  <2> QED
    BY <2>1, <1>t DEF WarmPoolAssumption, Record
<1>4. CASE Expire
  BY <1>4, <1>t, <1>u DEF Expire, Record
<1>5. CASE EndCreates
  BY <1>5, <1>t, <1>u DEF EndCreates, LowerCreations, SetRecord, Record, TypeOK
<1>6. ASSUME NEW s \in Sandboxes, HandleCreate(s) PROVE Record'
  BY <1>6, <1>t, <1>u DEF HandleCreate, LowerCreations, SetRecord, Record, TypeOK
<1>7. ASSUME NEW s \in Sandboxes, HandleDelete(s) \/ DeleteFails(s) PROVE Record'
  BY <1>7, <1>t, <1>u DEF HandleDelete, DeleteFails, DeletionObserved, SetRecord,
     Record
<1>8. ASSUME NEW s \in Sandboxes, FilterStale(s) \/ DeleteStuck(s) \/ DeleteExcess(s) PROVE Record'
  BY <1>8, <1>t, <1>u DEF FilterStale, Filtering, DeleteStuck, DeleteExcess,
     ExpectDeletion, SetRecord, Record
<1>q. CASE /\ UNCHANGED <<creations, expired>>
           /\ phase' = phase \/ phase' # "create"
  BY <1>q, <1>t, <1>u DEF Record
<1> QED
  BY <1>2, <1>3, <1>4, <1>5, <1>6, <1>7, <1>8, <1>q
  DEF Next, World, Watch, Pass, Scale, UpdateTemplate, Adopt, ExternalDelete,
      Finalize, MemberUpdated, TimerFires, WatchEvent, Relist, Apply, StartPass,
      EndFilter, FilterTerminating, FilterActive, FilterWriteFails, DeleteOK,
      DeferCreates, NoChange, CreateFails, NextBatch, DeferExcess, EndExcess,
      UpdateStatus, StatusFails, EndPass, vars

\* pendingCreations covers what is unobserved and what is still to be issued.
LEMMA CoverWritesStep == IInv /\ [Next]_vars => ExpectationsCoverWrites'
<1> SUFFICES ASSUME IInv, [Next]_vars PROVE ExpectationsCoverWrites'
  OBVIOUS
<1>t. TypeOK /\ Lag /\ Loops /\ ExpectationsCoverWrites
  BY DEF IInv
<1>f. /\ IsFiniteSet(Unseen) /\ Cardinality(Unseen) \in Nat
      /\ IsFiniteSet(Unseen') /\ Cardinality(Unseen') \in Nat
  BY SubsetFinite DEF Unseen
<1>1. ASSUME NEW s \in Sandboxes, CreateOK(s) PROVE ExpectationsCoverWrites'
  <2>1. Unseen' \subseteq Unseen \cup {s}
    BY <1>1, <1>t DEF CreateOK, Unseen, TypeOK
  <2>2. Cardinality(Unseen \cup {s}) <= Cardinality(Unseen) + 1 /\ IsFiniteSet(Unseen \cup {s})
    BY <1>f, FS_AddElement
  <2>3. Cardinality(Unseen') <= Cardinality(Unseen \cup {s})
    BY <2>1, <2>2, FS_Subset
  <2>4. Cardinality(Unseen \cup {s}) \in Nat
    BY <2>2, FS_CardinalityType
  <2> QED
    BY <1>1, <2>2, <2>3, <2>4, <1>f, <1>t DEF CreateOK, ExpectationsCoverWrites,
       TypeOK
<1> SUFFICES ASSUME ~\E s \in Sandboxes : CreateOK(s) PROVE ExpectationsCoverWrites'
  BY <1>1
<1>u. Unseen' \subseteq Unseen /\ Cardinality(Unseen') <= Cardinality(Unseen)
  BY UnseenStep, <1>f, FS_Subset
<1>2. ASSUME NEW n \in 1..MaxReplicas, BeginCreates(n) PROVE ExpectationsCoverWrites'
  <2>1. Cardinality(Unseen') = 0
    BY <1>2, <1>u, GateOpen, FS_EmptySet DEF BeginCreates, TryExpectCreations
  <2>2. creations' = n /\ left' = n /\ lost' = 0
    BY <1>2 DEF BeginCreates, TryExpectCreations, SetRecord, StartBatch
  <2> QED
    BY <2>1, <2>2 DEF ExpectationsCoverWrites
<1>3. CASE BeginExcess
  <2>1. Cardinality(Unseen') = 0
    BY <1>3, <1>u, GateOpen, FS_EmptySet DEF BeginExcess
  <2> QED
    BY <1>3, <2>1 DEF BeginExcess, SetRecord, ExpectationsCoverWrites
<1>4. CASE Restart
  <2>1. Unseen' = {}
    BY <1>4 DEF Restart, Unseen
  <2>2. Cardinality(Unseen') = 0
    BY <2>1, FS_EmptySet
  <2> QED
    BY <1>4, <2>2 DEF Restart, EndPass, SetRecord, ExpectationsCoverWrites
<1>5. CASE CreateFails
  BY <1>5, <1>u, <1>f, <1>t DEF CreateFails, ExpectationsCoverWrites, TypeOK
<1>6. CASE EndCreates
  <2>1. creations' = IF lost + left < creations THEN creations - (lost + left) ELSE 0
    BY <1>6, <1>t DEF EndCreates, LowerCreations, SetRecord, TypeOK
  <2> QED
    BY <1>6, <2>1, <1>u, <1>f, <1>t DEF EndCreates, ExpectationsCoverWrites, TypeOK
<1>7. ASSUME NEW s \in Sandboxes, HandleCreate(s) PROVE ExpectationsCoverWrites'
  <2>1. s \in Unseen
    BY <1>7, <1>t DEF HandleCreate, Unseen, Lag, Precedes, StageRank, TypeOK,
       Version, Stages
  <2>2. Unseen' \subseteq Unseen \ {s}
    BY <1>7, <1>u, <1>t DEF HandleCreate, Unseen, Lag
  <2>3. Cardinality(Unseen \ {s}) = Cardinality(Unseen) - 1 /\ IsFiniteSet(Unseen \ {s})
    BY <2>1, <1>f, FS_RemoveElement
  <2>4. Cardinality(Unseen') <= Cardinality(Unseen) - 1
    BY <2>2, <2>3, FS_Subset
  <2> QED
    BY <1>7, <2>4, <1>f, <1>t DEF HandleCreate, LowerCreations, SetRecord,
       ExpectationsCoverWrites, TypeOK
<1>8. CASE creations' = creations /\ (phase' = "create" => phase = "create" /\ UNCHANGED <<left, lost>>)
  BY <1>8, <1>u, <1>f, <1>t DEF ExpectationsCoverWrites, TypeOK
<1> QED
  BY <1>2, <1>3, <1>4, <1>5, <1>6, <1>7, <1>8
  DEF Next, World, Watch, Pass, Scale, UpdateTemplate, Adopt, ExternalDelete,
      Expire, Finalize, MemberUpdated, TimerFires, WatchEvent, Relist, Apply,
      StartPass, EndFilter, FilterTerminating, FilterActive, FilterWriteFails,
      DeleteOK, DeferCreates, NoChange, NextBatch, DeferExcess, EndExcess,
      UpdateStatus, StatusFails, HandleDelete, DeleteFails, DeletionObserved,
      FilterStale, Filtering, DeleteStuck, DeleteExcess, ExpectDeletion, SetRecord,
      EndPass, vars

-----------------------------------------------------------------------------
\* What the list misses is bounded by the record of the previous batch.
LEMMA WindowStep == IInv /\ [Next]_vars => Window'
<1> SUFFICES ASSUME IInv, [Next]_vars PROVE Window'
  OBVIOUS
<1>t. TypeOK /\ Loops /\ Window /\ WarmPoolAssumption
  BY WarmPoolAssumption DEF IInv
<1>f. /\ IsFiniteSet(Missed) /\ Cardinality(Missed) \in Nat
      /\ Cardinality(active) \in Nat /\ Cardinality(terminating) \in Nat
  BY <1>t, SubsetFinite DEF Missed, TypeOK
<1>1. ASSUME NEW s \in Sandboxes, CreateOK(s) PROVE Window'
  <2>1. Missed' = Missed \cup {s} /\ s \notin Missed
    BY <1>1, MissedCreate
  <2>2. Cardinality(Missed') = Cardinality(Missed) + 1
    BY <2>1, <1>f, FS_AddElement
  <2> QED
    BY <1>1, <2>2, <1>f, <1>t DEF CreateOK, Window, TypeOK
<1> SUFFICES ASSUME ~\E s \in Sandboxes : CreateOK(s) PROVE Window'
  BY <1>1
<1>2. CASE StartPass
  <2>1. Missed' \subseteq Unseen
    BY <1>2 DEF StartPass, Missed, Unseen
  <2>2. IsFiniteSet(Unseen) /\ Cardinality(Unseen) \in Nat
    BY SubsetFinite DEF Unseen
  <2>3. Cardinality(Missed') <= Cardinality(Unseen) /\ Cardinality(Missed') \in Nat
    BY <2>1, <2>2, FS_Subset, FS_CardinalityType
  <2>4. Cardinality(Unseen) <= creations /\ creations <= MaxBatchSize
    BY <1>2, <2>2 DEF StartPass, IInv, ExpectationsCoverWrites, Record, TypeOK
  <2> QED
    BY <1>2, <2>2, <2>3, <2>4, <1>t DEF StartPass, Window, TypeOK
<1>3. ASSUME NEW n \in 1..MaxReplicas, BeginCreates(n) PROVE Window'
  <2>1. Missed' = Missed
    BY <1>3, MissedStep DEF BeginCreates
  <2>2. n <= desired - (Cardinality(active) + Cardinality(terminating))
    BY <1>3, <1>f, <1>t DEF BeginCreates, Deficit, MinOf, totalReplicas, TypeOK
  <2>3. left' = n /\ lost' = 0 /\ phase = "grace" /\ UNCHANGED <<active, terminating,
  desired>>
        /\ phase' = "create"
    BY <1>3 DEF BeginCreates, Counted, StartBatch
  <2> QED
    BY <2>1, <2>2, <2>3, <1>f, <1>t DEF Window, TypeOK
<1>4. CASE CreateFails
  <2>1. Missed' = Missed
    BY <1>4, MissedStep DEF CreateFails
  <2> QED
    BY <1>4, <2>1, <1>f, <1>t DEF CreateFails, Window, TypeOK
<1>5. CASE phase' \notin {"filter", "grace", "create"}
  BY <1>5 DEF Window
<1>6. CASE /\ view' = view
           /\ \/ phase \in {"filter", "grace"} /\ phase' \in {"filter", "grace"}
              \/ phase' = phase /\ UNCHANGED <<left, lost, active, terminating, desired>>
  <2>1. Missed' = Missed
    BY <1>6, MissedStep
  <2> QED
    BY <1>6, <2>1, <1>t DEF Window
<1>7. ASSUME NEW s \in Sandboxes, DeleteOK(s) \/ DeleteFails(s) PROVE Window'
  <2>1. phase \in {"filter", "grace", "excess"} /\ phase' = phase /\ view' = view
    BY <1>7, <1>t DEF DeleteOK, DeleteFails, Loops
  <2> QED
    BY <2>1, <1>5, <1>6
<1> QED
  BY <1>2, <1>3, <1>4, <1>5, <1>6, <1>7
  DEF Next, World, Watch, Pass, Scale, UpdateTemplate, Adopt, ExternalDelete,
      Expire, Finalize, MemberUpdated, TimerFires, Restart, WatchEvent, Relist,
      Apply, HandleCreate, HandleDelete, EndFilter, Filtering, FilterTerminating,
      FilterStale, FilterActive, FilterWriteFails, DeleteStuck, DeleteExcess,
      DeferCreates, NoChange, NextBatch, EndCreates, BeginExcess, DeferExcess,
      EndExcess, UpdateStatus, StatusFails, EndPass, vars

\* The argument about one call: what holds of a UID in pendingDeletions.
Settled(s) ==
    /\ api[s].stage \in {"deleting", "gone"}
    /\ s \in dels \/ Present(cache[s]) \/ s \in Orphaned \/ api[s].owner = "claim"

\* A deletion expectation outlives its call only if the delete went through.
LEMMA DeletionsStep ==
    IInv /\ [Next]_vars => PendingDeletionsReal' /\ DeletionsAwaited'
<1> SUFFICES ASSUME IInv, [Next]_vars PROVE PendingDeletionsReal' /\ DeletionsAwaited'
  OBVIOUS
<1>d. deletions' \subseteq Sandboxes
  BY TypeStep DEF TypeOK
<1> SUFFICES ASSUME NEW r \in Sandboxes, r \in deletions', r \notin Expecting'
             PROVE  Settled(r)'
  BY <1>d DEF PendingDeletionsReal, DeletionsAwaited, Settled
<1>t. TypeOK /\ Lag /\ Loops
  BY DEF IInv
<1>s. r \in deletions \ Expecting => Settled(r)
  BY DEF IInv, PendingDeletionsReal, DeletionsAwaited, Settled
<1>e. UNCHANGED <<inflight, phase, view>> => Expecting' = Expecting
  BY DEF Expecting
<1>1. ASSUME NEW s \in Sandboxes, DeleteOK(s) PROVE Settled(r)'
  <2>1. CASE r = s
    <3>1. Present(view[s]) /\ phase # "idle" /\ Present(api[s])
      BY <1>1, <1>t DEF DeleteOK, Loops
    <3>2. Present(cache[s])
      BY <3>1, <1>t DEF Lag, Precedes, Present, StageRank, TypeOK, Version, Stages
    <3>3. api'[s].stage = "deleting" /\ cache' = cache
      BY <1>1, <1>t DEF DeleteOK, TypeOK, Version
    <3> QED
      BY <2>1, <3>2, <3>3 DEF Settled, Present
  <2>2. CASE r # s
    <3>1. r \notin Expecting
      BY <1>1, <2>2 DEF DeleteOK, Expecting
    <3> QED
      BY <1>1, <2>2, <3>1, <1>s, <1>t DEF DeleteOK, Settled, TypeOK
  <2> QED
    BY <2>1, <2>2
<1>2. ASSUME NEW s \in Sandboxes, FilterStale(s) \/ DeleteStuck(s) \/ DeleteExcess(s)
      PROVE  Settled(r)'
  <2>1. r \in deletions \ Expecting
    BY <1>2 DEF FilterStale, Filtering, DeleteStuck, DeleteExcess, ExpectDeletion,
       SetRecord, Expecting
  <2> QED
    BY <1>2, <2>1, <1>s DEF FilterStale, DeleteStuck, DeleteExcess, Settled
<1>3. ASSUME NEW s \in Sandboxes, DeleteFails(s) PROVE Settled(r)'
  <2>1. r \in deletions \ Expecting
    BY <1>3 DEF DeleteFails, DeletionObserved, SetRecord, Expecting
  <2> QED
    BY <1>3, <2>1, <1>s DEF DeleteFails, Settled
<1>4. ASSUME NEW s \in Sandboxes, HandleDelete(s) PROVE Settled(r)'
  BY <1>4, <1>s, <1>e DEF HandleDelete, DeletionObserved, SetRecord, Settled
<1>5. ASSUME NEW s \in Sandboxes, NEW v \in Version, Apply(s, v), Precedes(cache[s], v)
      PROVE  Settled(r)'
  <2>1. /\ UNCHANGED <<deletions, api>> /\ Expecting' = Expecting
        /\ dels \subseteq dels' /\ cache' = [cache EXCEPT ![s] = v]
    BY <1>5, <1>e DEF Apply
  <2>2. Settled(r)
    BY <2>1, <1>s
  <2>3. CASE r = s /\ Present(cache[s]) /\ ~Present(v)
    <3>1. v.stage = "gone"
      BY <2>3, <1>5, <1>t DEF Precedes, Present, StageRank, TypeOK, Version, Stages
    <3>2. ByPool(cache[s]) \/ s \in Orphaned \/ api[s].owner = "claim"
      BY <1>t DEF ByPool, Lag, Precedes, OwnerRank, TypeOK, Version, Controllers
    <3>3. ByPool(cache[s]) => s \in dels'
      BY <2>3, <3>1, <1>5 DEF Apply
    <3> QED
      BY <2>1, <2>2, <2>3, <3>2, <3>3 DEF Settled
  <2>4. CASE ~(r = s /\ Present(cache[s]) /\ ~Present(v))
    BY <2>1, <2>2, <2>4, <1>t DEF Settled, TypeOK
  <2> QED
    BY <2>3, <2>4
<1>6. ASSUME NEW s \in Sandboxes, WatchEvent(s) \/ Relist(s) PROVE Settled(r)'
  BY <1>6, <1>5, <1>t, Delivered DEF WatchEvent, Relist, TypeOK, Lag
<1>7. ASSUME NEW s \in Sandboxes, Adopt(s) \/ ExternalDelete(s) \/ Finalize(s) PROVE Settled(r)'
  <2>1. Settled(r) /\ UNCHANGED <<dels, cache>>
    BY <1>7, <1>s, <1>e DEF Adopt, ExternalDelete, Finalize
  <2> QED
    BY <1>7, <2>1, <1>t DEF Adopt, ExternalDelete, Finalize, Settled, TypeOK, Version
<1>8. ASSUME NEW s \in Sandboxes, FilterActive(s) PROVE Settled(r)'
  <2>1. Settled(r) /\ UNCHANGED <<dels, cache>>
    BY <1>8, <1>s, <1>e DEF FilterActive
  <2>2. view[s].owner = "pool" \/ api[s].owner # "claim"
    BY <1>8, <1>t DEF FilterActive, Filtering, UpdateAccepted, Loops
  <2> QED
    BY <1>8, <2>1, <2>2, <1>t DEF FilterActive, Settled, TypeOK, Version
<1>9. ASSUME NEW s \in Sandboxes, CreateOK(s) PROVE Settled(r)'
  <2>1. Settled(r) /\ UNCHANGED <<dels, cache>> /\ r # s
    BY <1>9, <1>s, <1>e DEF CreateOK, Settled
  <2> QED
    BY <1>9, <2>1, <1>t DEF CreateOK, Settled, TypeOK
<1>10. CASE deletions' = {}
  BY <1>10
<1>11. CASE /\ UNCHANGED <<api, cache, dels, deletions>>
            /\ inflight = {} \/ UNCHANGED <<inflight, phase, view>>
  <2>1. r \notin Expecting
    BY <1>11, <1>e DEF Expecting
  <2> QED
    BY <1>11, <2>1, <1>s DEF Settled
<1>12. CASE StartPass \/ EndCreates \/ UpdateStatus \/ StatusFails
  <2>1. inflight = {} /\ UNCHANGED <<api, cache, dels>> /\ deletions' = deletions
    BY <1>12, <1>t DEF StartPass, EndCreates, UpdateStatus, StatusFails, Loops,
       LowerCreations, SetRecord
  <2> QED
    BY <2>1, <1>11
<1>13. CASE World \/ UNCHANGED vars
  BY <1>7, <1>10, <1>11, <1>13
  DEF World, Scale, UpdateTemplate, MemberUpdated, Expire, TimerFires, Restart,
      SetRecord, vars
<1>14. CASE Watch
  BY <1>4, <1>6, <1>11, <1>14 DEF Watch, HandleCreate, LowerCreations, SetRecord
<1>15. CASE Pass
  <2>1. ASSUME NEW s \in Sandboxes, FilterTerminating(s) \/ FilterWriteFails(s)
        PROVE  Settled(r)'
    BY <2>1, <1>11 DEF FilterTerminating, FilterWriteFails, Filtering
  <2>2. ASSUME NEW n \in 1..MaxReplicas, BeginCreates(n) PROVE Settled(r)'
    BY <2>2, <1>10 DEF BeginCreates, TryExpectCreations, SetRecord
  <2>3. CASE BeginExcess
    BY <2>3, <1>10 DEF BeginExcess, SetRecord
  <2>4. CASE EndFilter
    BY <2>4, <1>11 DEF EndFilter
  <2>5. CASE CreateFails
    BY <2>5, <1>11 DEF CreateFails
  <2>6. CASE NextBatch
    BY <2>6, <1>11 DEF NextBatch
  <2>7. CASE EndExcess
    BY <2>7, <1>11 DEF EndExcess
  <2>8. CASE DeferCreates \/ NoChange \/ DeferExcess
    BY <2>8, <1>11 DEF DeferCreates, NoChange, DeferExcess, Counted
  <2> QED
    BY <1>15, <2>1, <2>2, <2>3, <2>4, <2>5, <2>6, <2>7, <2>8,
       <1>1, <1>2, <1>3, <1>8, <1>9, <1>12 DEF Pass
<1> QED
  BY <1>13, <1>14, <1>15 DEF Next
=============================================================================
