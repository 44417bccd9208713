SPECIFICATION Spec
CONSTANTS
    None = None
    cli = cli
    mac = mac
    phone = phone
    Devices = {mac, phone}
    Platform <- MCPlatform
    Passphrases = {p}
    Founders = {mac, phone}
    MaxKeys = 1
    MaxRequests = 3
    MaxSignIns = 3
    MaxFaults = 1
INVARIANTS
    CollectedBlobGone
PROPERTIES
    AnswerHandled
CHECK_DEADLOCK FALSE
