SPECIFICATION Spec
CONSTANTS
    None = None
    cli = cli
    mac = mac
    phone = phone
    Devices = {cli, mac}
    Platform <- MCPlatform
    Passphrases = {p, q}
    Founders = {None}
    MaxKeys = 2
    MaxRequests = 2
    MaxSignIns = 2
    MaxFaults = 1
INVARIANTS
    StoredKeyIsTheAccounts
    VaultsStayOpen
CHECK_DEADLOCK FALSE
