------------------------------ MODULE MCSignIn ------------------------------
(* Instances of SignIn for TLC. *)
EXTENDS SignIn, TLC

CONSTANTS cli, desktop

MCPlatform == [d \in Devices |-> IF d = cli THEN "cli" ELSE "desktop"]
Symmetry == Permutations(Emails)
=============================================================================
