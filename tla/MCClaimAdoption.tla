-------------------------- MODULE MCClaimAdoption --------------------------
(***************************************************************************)
(* Instances of ClaimAdoption for TLC: the one of the configuration, and   *)
(* others that differ in what lags and what fails.                         *)
(***************************************************************************)
EXTENDS ClaimAdoption, TLC

CONSTANTS
    Parts,   \* the instances that are explored
    c1, c2, s1, s2, s3

VARIABLE part   \* the instance of this behaviour

TwoClaims == {c1, c2}
OneClaim == {c1}
TwoWarm == {s1, s2}
ThreeWarm == {s1, s2, s3}

\* Claims and Sandboxes are known by their names only.
SymClaims == Permutations(TwoClaims)
SymWarm == Permutations(ThreeWarm)

\* With current caches: whatever fails of the requests, or a restart; and deleted claims.
Failing == INSTANCE ClaimAdoption WITH Lag <- {}, Faults <- {"busy", "error", "unread", "crash"}
Dropping == INSTANCE ClaimAdoption WITH Lag <- {}, Faults <- {"drop"}

\* Where claims are deleted the networks of the warm Sandboxes are ready from the start.
PartsInit ==
    /\ part \in Parts /\ Init
    /\ part = "dropping" => \A s \in Warm : net[s] = "ready"
PartsNext ==
    /\ UNCHANGED part
    /\ \/ part = "given" /\ Next
       \/ part = "failing" /\ Failing!Next
       \/ part = "dropping" /\ Dropping!Next
PartsSpec == PartsInit /\ [][PartsNext]_<<vars, part>>
=============================================================================
