--------------------------- MODULE MCDesktopHost ---------------------------
(* Instances of Vaults and DesktopHost for TLC. *)
EXTENDS DesktopHost, TLC

CONSTANTS cli, mac, phone

MCPlatform == [d \in Devices |-> CASE d = cli -> "cli" [] d = mac -> "desktop" [] OTHER -> "mobile"]
=============================================================================
