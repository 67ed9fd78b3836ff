-------------------------- MODULE ClaimAssignment --------------------------
(***************************************************************************)
(* What the SandboxClaim controller promises of ownership, whatever it     *)
(* reads and in whatever order it writes: a warm Sandbox is handed to one  *)
(* claim and never passed on, a cold one is made for one claim, and a      *)
(* claim never holds two.                                                  *)
(*                                                                         *)
(* extensions/controllers/sandboxclaim_controller.go.                      *)
(***************************************************************************)
CONSTANTS Claims, Warm

VARIABLE holder   \* Sandbox -> "none" | "pool" | the claim that owns it

Boxes == Warm \cup Claims    \* a cold Sandbox is named after its claim

HeldBy(c) == {s \in Boxes : holder[s] = c}

\* Nobody holds anything.
InitAssignment == holder = [s \in Boxes |-> IF s \in Warm THEN "pool" ELSE "none"]

\* completeAdoption: ownership moves from the pool to a claim that holds nothing.
Adopt(c, s) ==
    /\ holder[s] = "pool" /\ HeldBy(c) = {}
    /\ holder' = [holder EXCEPT ![s] = c]

\* createSandbox.
CreateCold(c) ==
    /\ holder[c] = "none" /\ HeldBy(c) = {}
    /\ holder' = [holder EXCEPT ![c] = c]

Release(s) ==
    /\ holder[s] # "none"
    /\ holder' = [holder EXCEPT ![s] = "none"]

\* A deleted claim's Sandboxes are collected together.
Collect(c) == HeldBy(c) # {} /\ holder' = [s \in Boxes |-> IF holder[s] = c THEN "none" ELSE holder[s]]

NextAssignment ==
    \/ \E c \in Claims : CreateCold(c) \/ Collect(c) \/ \E s \in Warm : Adopt(c, s)
    \/ \E s \in Boxes : Release(s)

Assignment == InitAssignment /\ [][NextAssignment]_holder
=============================================================================
