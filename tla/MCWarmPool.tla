----------------------------- MODULE MCWarmPool -----------------------------
(***************************************************************************)
(* Instances of WarmPool for TLC.                                          *)
(***************************************************************************)
EXTENDS WarmPool, TLC

\* UIDs are interchangeable except for the role they start in.
Symmetry == Permutations(Sandboxes \ (Orphaned \cup Unlabelled))
=============================================================================
