--------------------------- MODULE MCAccountKeys ---------------------------
(* Instances of AccountKeys for TLC. *)
EXTENDS AccountKeys, TLC

CONSTANTS cli, mac, phone

MCPlatform == [d \in Devices |-> CASE d = cli -> "cli" [] d = mac -> "desktop" [] OTHER -> "mobile"]
=============================================================================
