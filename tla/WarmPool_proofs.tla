-------------------------- MODULE WarmPool_proofs ---------------------------
(***************************************************************************)
(* What holds of the warm pool for every set of Sandboxes, target, batch   *)
(* size, strategy and number of disturbances.                              *)
(***************************************************************************)
EXTENDS WarmPoolSteps_proofs

USE DEF store, informer, expectations, snapshot, counts, batch, wakeups

\* The start: a synced cache and an empty memory.
LEMMA InitInductive == Init => IInv
<1> SUFFICES ASSUME Init PROVE IInv
  OBVIOUS
<1>i. \A s \in Sandboxes :
         /\ InitVersion(s) \in Version
         /\ InitVersion(s).stage = "absent" => InitVersion(s).owner = "pool"
         /\ InitVersion(s).stage \in {"absent", "live"}
         /\ InitVersion(s).owner = "orphan" => s \in Orphaned
  BY DEF InitVersion, Version, Controllers, Stages
<1>1. TypeOK
  <2>1. /\ errs \in BOOLEAN /\ rearm \in BOOLEAN /\ queued \in BOOLEAN
        /\ timer \in BOOLEAN /\ expired \in BOOLEAN
    BY Zenon DEF Init
  <2>2. api \in [Sandboxes -> Version] /\ cache \in [Sandboxes -> Version]
    BY <1>i DEF Init
  <2>3. view \in [Sandboxes -> Version]
    BY DEF Init, Version, Controllers, Stages
  <2>4. hash \in [Sandboxes -> 0..MaxTemplate] /\ template \in 0..MaxTemplate
    BY WarmPoolAssumption DEF Init
  <2>5. tmpl \in 0..MaxTemplate /\ desired \in 0..MaxReplicas
    BY WarmPoolAssumption DEF Init
  <2> QED
    BY <2>1, <2>2, <2>3, <2>4, <2>5, WarmPoolAssumption DEF Init, TypeOK, Phases
<1>2. Lag
  <2>1. \A s \in Sandboxes : Precedes(InitVersion(s), InitVersion(s))
    BY <1>i DEF Precedes, StageRank, OwnerRank, Version, Controllers
  <2>2. \A s \in Sandboxes : api[s] = InitVersion(s) /\ cache[s] = InitVersion(s)
    BY DEF Init
  <2>3. phase = "idle" /\ adds = {}
    BY DEF Init
  <2> QED
    BY <1>i, <2>1, <2>2, <2>3 DEF Lag
<1>3. Unseen = {} /\ Cardinality(Unseen) = 0
  BY FS_EmptySet DEF Init, Unseen
<1>4. Loops /\ Coverage /\ Window /\ PendingDeletionsReal /\ DeletionsAwaited
  BY DEF Init, Loops, Coverage, Window, PendingDeletionsReal, DeletionsAwaited
<1>5. Record /\ ExpectationsCoverWrites
  BY <1>3, WarmPoolAssumption DEF Init, Record, ExpectationsCoverWrites
<1> QED
  BY <1>1, <1>2, <1>4, <1>5 DEF IInv

\* Every reachable state satisfies the inductive invariant.
THEOREM Inductive == Spec => []IInv
<1>1. Init => IInv
  BY InitInductive
<1>2. IInv /\ [Next]_vars => IInv'
  BY TypeStep, LagStep, LoopsStep, CoverageStep, RecordStep, WindowStep,
     CoverWritesStep, DeletionsStep DEF IInv
<1> QED
  BY <1>1, <1>2, PTL DEF Spec

\* Type correctness of the pool controller.
THEOREM TypeCorrect == Spec => []TypeOK
<1>1. IInv => TypeOK
  BY DEF IInv
<1> QED
  BY <1>1, Inductive, PTL

\* pendingCreations covers every create whose add event is not handled.
THEOREM CreationsCovered == Spec => []ExpectationsCoverWrites
<1>1. IInv => ExpectationsCoverWrites
  BY DEF IInv
<1> QED
  BY <1>1, Inductive, PTL

\* No runaway.
THEOREM NoRunaway == Spec => []OvershootAtMostOneBatch
<1>1. IInv => OvershootAtMostOneBatch
  <2> SUFFICES ASSUME IInv, phase = "create"
               PROVE  Cardinality(Members \ skipped) + left <= desired + MaxBatchSize
    BY DEF OvershootAtMostOneBatch
  <2> DEFINE C == active \cup terminating
             U == C \cup Missed
  <2>1. TypeOK /\ WarmPoolAssumption
    BY WarmPoolAssumption DEF IInv
  <2>2. /\ IsFiniteSet(active) /\ Cardinality(active) \in Nat
        /\ IsFiniteSet(terminating) /\ Cardinality(terminating) \in Nat
        /\ IsFiniteSet(Missed) /\ Cardinality(Missed) \in Nat
        /\ Cardinality(active \cap terminating) \in Nat
        /\ Cardinality(C \cap Missed) \in Nat
        /\ IsFiniteSet(C) /\ Cardinality(C) \in Nat
        /\ IsFiniteSet(U) /\ Cardinality(U) \in Nat
        /\ Cardinality(Members \ skipped) \in Nat
    BY <2>1, SubsetFinite DEF TypeOK, Missed, Members
  <2>3. Cardinality(C) <= Cardinality(active) + Cardinality(terminating)
    <3>1. Cardinality(active \cup terminating) =
             Cardinality(active) + Cardinality(terminating) - Cardinality(active \cap terminating)
      BY <2>2, FS_Union
    <3> QED
      BY <2>2, <3>1
  <2>4. Cardinality(U) <= Cardinality(C) + Cardinality(Missed)
    <3>1. Cardinality(C \cup Missed) =
             Cardinality(C) + Cardinality(Missed) - Cardinality(C \cap Missed)
      <4> HIDE DEF C
      <4> QED
        BY <2>2, FS_Union
    <3> HIDE DEF C
    <3> QED
      BY <2>2, <3>1
  <2>5. Members \ skipped \subseteq U
    BY DEF IInv, Coverage
  <2>6. Cardinality(Members \ skipped) <= Cardinality(U)
    BY <2>2, <2>5, FS_Subset
  <2>7. Cardinality(Missed) + left + lost + Cardinality(active) + Cardinality(terminating)
            <= desired + MaxBatchSize
    BY DEF IInv, Window
  <2> HIDE DEF C, U
  <2> QED
    BY <2>1, <2>2, <2>3, <2>4, <2>6, <2>7 DEF TypeOK, WarmPoolAssumption
<1> QED
  BY <1>1, Inductive, PTL

\* A pending deletion belongs to an object that is really being deleted.
THEOREM DeletionsReal == Spec => []PendingDeletionsReal
<1>1. IInv => PendingDeletionsReal
  BY DEF IInv
<1> QED
  BY <1>1, Inductive, PTL

\* The event a pending deletion waits for can still come.
THEOREM DeletionsWaitForEvents == Spec => []DeletionsAwaited
<1>1. IInv => DeletionsAwaited
  BY DEF IInv
<1> QED
  BY <1>1, Inductive, PTL

\* The pool never takes a Sandbox back from a claim.
THEOREM ClaimsStay == Spec => ClaimsKept
<1>1. IInv /\ [Next]_vars =>
        [\A s \in Sandboxes : api[s].owner = "claim" => api'[s].owner = "claim"]_vars
  <2> SUFFICES ASSUME IInv, [Next]_vars, NEW r \in Sandboxes, api[r].owner = "claim"
               PROVE  api'[r].owner = "claim"
    OBVIOUS
  <2>t. TypeOK /\ Lag /\ Loops
    BY DEF IInv
  <2>1. ASSUME NEW s \in Sandboxes, FilterActive(s) PROVE api'[r].owner = "claim"
    <3>1. view[s].owner = "pool" \/ r # s
      BY <2>1, <2>t DEF FilterActive, Filtering, UpdateAccepted, Loops
    <3> QED
      BY <3>1, <2>1, <2>t DEF FilterActive, TypeOK, Version
  <2>2. ASSUME NEW s \in Sandboxes, CreateOK(s) PROVE api'[r].owner = "claim"
    BY <2>2, <2>t DEF CreateOK, Lag, Precedes, TypeOK
  <2>3. ASSUME NEW s \in Sandboxes,
  Adopt(s) \/ ExternalDelete(s) \/ Finalize(s) \/ DeleteOK(s)
        PROVE  api'[r].owner = "claim"
    BY <2>3, <2>t DEF Adopt, ExternalDelete, Finalize, DeleteOK, TypeOK, Version
  <2>q. CASE api' = api
    BY <2>q
  <2> QED
    BY <2>1, <2>2, <2>3, <2>q
    DEF Next, World, Watch, Pass, Scale, UpdateTemplate, MemberUpdated, Expire,
        TimerFires, Restart, WatchEvent, Relist, Apply, HandleCreate, HandleDelete,
        StartPass, EndFilter, FilterTerminating, FilterStale, FilterWriteFails,
        DeleteStuck, DeleteExcess, DeleteFails, BeginCreates, DeferCreates,
        NoChange, CreateFails, NextBatch, EndCreates, BeginExcess, DeferExcess,
        EndExcess, UpdateStatus, StatusFails, vars
<1> QED
  BY <1>1, Inductive, PTL DEF Spec, ClaimsKept
=============================================================================
