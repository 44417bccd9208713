SPECIFICATION Spec
CONSTANTS
    None = None
    note = note
    copy = copy
    Devices = {d1, d2}
    Paths = {copy, note}
    PathOrder <- MCTwoPaths
    CopyOf <- MCNoCopy
    Contents = {x, y}
    Oversize = {}
    UserChoices = {"KeepLocal", "Defer"}
    InitialFiles = {None}
    Joining = {}
    Ignorer = None
    InitiallyIgnored <- MCIgnored
    Hashes <- MCHashes
    NoHash <- MCNoHash
    HashOf <- MCHashOf
    BATCH_MAX_OPS = 2
    MAX_ATTEMPTS = 2
    MaxActive = 1
    EditMidCycle = FALSE
    ResumePlans = TRUE
    MaxEdits = 3
    MaxIgnoreEdits = 0
    MaxRev = 9
    MaxFaults = 0
PROPERTIES
    NoSilentClobber
CHECK_DEADLOCK FALSE
