SPECIFICATION FairSpec
CONSTANTS
    None = None
    big = big
    huge = huge
    Paths = {p1, p2}
    Contents = {small, big, huge}
    Requests = {r1, r2}
    Hashes <- MCHashes
    NoHash <- MCNoHash
    HashOf <- MCHashOf
    Size <- MCSize
    MaxFileSize = 3
    MaxVaultBytes = 3
    MAX_VERSIONS_PER_FILE = 3
    VERSION_RETENTION_SECS = 1
    TRASH_RETENTION_SECS = 1
    MaxStarted = 3
    Faults = {}
    MaxFaults = 0
    MaxTime = 0
    OneWritePerSecond = FALSE
INVARIANTS
    TypeOK
    QuotaHolds
PROPERTIES
    HistoryComplete
    ImplementsService
    RequestEnds
CHECK_DEADLOCK FALSE
