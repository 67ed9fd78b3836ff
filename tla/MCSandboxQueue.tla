--------------------------- MODULE MCSandboxQueue ---------------------------
(* Model values and symmetry for checking SandboxQueue with TLC.           *)
EXTENDS SandboxQueue

Symmetry == Permutations(Workers) \cup Permutations(Keys) \cup Permutations(Objects)
=============================================================================
