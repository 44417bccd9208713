SPECIFICATION FairSpec
CONSTANTS
    None = None
    note = note
    copy = copy
    Devices = {d1, d2}
    Paths = {copy, note}
    PathOrder <- MCTwoPaths
    CopyOf <- MCNoCopy
    Contents = {x, y, z}
    Oversize = {z}
    UserChoices = {"KeepLocal", "KeepRemote"}
    InitialFiles = {x}
    Joining = {d2}
    Ignorer = None
    InitiallyIgnored <- MCIgnored
    Hashes <- MCHashes
    NoHash <- MCNoHash
    HashOf <- MCHashOf
    BATCH_MAX_OPS = 2
    MAX_ATTEMPTS = 2
    MaxActive = 1
    EditMidCycle = FALSE
    ResumePlans = FALSE
    MaxEdits = 2
    MaxIgnoreEdits = 1
    MaxRev = 9
    MaxFaults = 1
PROPERTIES
    NoLocalLoss
    Converges
    NoSilentClobber
    LateConflictIsForeign
    IgnoredUntouched
CHECK_DEADLOCK FALSE
