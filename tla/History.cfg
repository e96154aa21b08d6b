CONSTANTS
    Topics = {a, b}
    RingCapacity = 3
    BatchSize = 2
    MaxRows = 2
    LoadMax = 1
    MayFail = {"load", "save", "trim", "delete"}
    MaxMessages = 4
    MaxRequests = 2
    MaxStarts = 2
SPECIFICATION FairSpec
INVARIANTS
    RowsInOrder
    SavedUnlessFailed
    ClearedStaysCleared
PROPERTIES
    DiskKeeps
    EventuallySaved
