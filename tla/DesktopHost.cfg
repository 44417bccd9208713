SPECIFICATION Spec
CONSTANTS
    None = None
    cli = cli
    mac = mac
    phone = phone
    Mac = mac
    Devices = {mac, phone}
    Platform <- MCPlatform
    Vault = {v1}
    Slots = {1, 2}
    max_vaults_per_user = 1
    MaxWrites = 0
    MaxFaults = 1
    MaxSignIns = 1
    MaxCommands = 2
INVARIANTS
    ListedVaultHasKey
PROPERTIES
    ForgottenVaultRests
    MarkReleased
CHECK_DEADLOCK FALSE
