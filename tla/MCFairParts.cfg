\* Every part but the queue stops at a bound of its own.
SPECIFICATION PartsSpec
CHECK_DEADLOCK FALSE
CONSTANTS
    Capacity = 3
    Elements = {m1, m2}
    Torn = Torn
    DrainMax = 2
    LogCapacity = 3
    LogVisibleRows = 2
    MaxGeneration = 5
    WaitSteps = 2
    MaxSpawns = 3
    JsonDocs <- MCDocs
    JsonInputs <- MCInputs
    JsonMaxLines = 7
    JsonMaxDepth = 3
INVARIANTS
    NoSlotRace
    LogViewMatches
    NoOrphanNoStalePid
    JsonLinesExact
    LinesNest
PROPERTIES
    ImplementsFifo
    EveryMessageDelivered
    LogCatchesUp
    ForeignPortIsDropped
    JsonEnds
    JsonProgress
