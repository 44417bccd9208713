SPECIFICATION Spec
CONSTANTS
    None = None
    big = big
    huge = huge
    Paths = {p1}
    Contents = {small, big}
    Requests = {r1}
    Hashes <- MCHashes
    NoHash <- MCNoHash
    HashOf <- MCHashOf
    Size <- MCSize
    MaxFileSize = 3
    MaxVaultBytes = 3
    MAX_VERSIONS_PER_FILE = 2
    VERSION_RETENTION_SECS = 2
    TRASH_RETENTION_SECS = 2
    MaxStarted = 4
    Faults = {"commit", "uncertain", "blob", "disconnect", "crash"}
    MaxFaults = 1
    MaxTime = 3
    OneWritePerSecond = TRUE
INVARIANTS
    RowBlobAgree
    RowContentKept
    TrashHoldsDeleted
CHECK_DEADLOCK FALSE
