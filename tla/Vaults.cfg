SPECIFICATION VaultsSpec
CONSTANTS
    None = None
    cli = cli
    phone = phone
    Devices = {cli, phone}
    Platform <- MCPlatform
    Vault = {v1, v2}
    max_vaults_per_user = 1
    MaxWrites = 2
    MaxFaults = 1
    MaxSignIns = 1
    MaxCommands = 4
INVARIANTS
    VaultsTypeOK
    VaultLimitHolds
PROPERTIES
    OrphansGo
CHECK_DEADLOCK FALSE
