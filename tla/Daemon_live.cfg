SPECIFICATION FairSpec
CONSTANTS
    None = None
    Paths = {p1}
    Versions = {v1, v2}
    quiet = 1
    batch = 2
    poll_active = 1
    poll_idle = 1
    active_window = 1
    backoff_base = 1
    backoff_max = 1
    SELF_WRITE_GRACE = 1
    ChannelCapacity = 1
    MaxFaults = 1
INVARIANTS
    TypeOK
    Tracked
PROPERTIES
    EditSynced
    RemoteLands
    LoopRests
CHECK_DEADLOCK FALSE
