SPECIFICATION Spec
CONSTANTS
    None = None
    Paths = {note}
    Path = note
    Hashes = {h1, h2, h3, h4}
    NoHash = NoHash
    BATCH_BYTE_BUDGET = 2
    BATCH_MAX_OPS = 3
    MaxLen = 5
INVARIANTS
    TypeOK
    ParentIsCurrent
    ChunksAreGreedyCover
PROPERTIES
    ChangeSurvivesCycle
    CycleSettles
CHECK_DEADLOCK FALSE
