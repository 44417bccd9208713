------------------------------ MODULE MCVaults ------------------------------
(* Instances of Vaults for TLC. *)
EXTENDS Vaults, TLC

CONSTANTS cli, phone

MCPlatform == [d \in Devices |-> IF d = cli THEN "cli" ELSE "mobile"]
=============================================================================
