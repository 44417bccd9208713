SPECIFICATION Spec
CONSTANTS
    None = None
    note = note
    copy = copy
    Devices = {d1, d2}
    Paths = {copy, note}
    PathOrder <- MCTwoPaths
    CopyOf <- MCCopy
    Contents = {x, y}
    Oversize = {}
    UserChoices = {"KeepBoth", "KeepRemote", "Defer"}
    InitialFiles = {None}
    Joining = {}
    Ignorer = None
    InitiallyIgnored <- MCIgnored
    Hashes <- MCHashes
    NoHash <- MCNoHash
    HashOf <- MCHashOf
    BATCH_MAX_OPS = 2
    MAX_ATTEMPTS = 2
    MaxActive = 2
    EditMidCycle = TRUE
    ResumePlans = TRUE
    MaxEdits = 3
    MaxIgnoreEdits = 0
    MaxRev = 4
    MaxFaults = 0
INVARIANTS
    TypeOK
    EtagSound
PROPERTIES
    PlannedConflictIsForeign
SYMMETRY Symmetry
CHECK_DEADLOCK FALSE
