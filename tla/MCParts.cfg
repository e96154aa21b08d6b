\* Every part but the tree stops at a bound of its own.
SPECIFICATION PartsSpec
CHECK_DEADLOCK FALSE
CONSTANTS
    a = a
    b = b
    c = c
    long = long
    stub = stub
    Empty = Empty
    Topics <- SevenTopics
    Cut <- CutAll
    Payloads = {x}
    NoPayload = NoPayload
    MaxChildren = 2
    MaxMessages = 3
    MaxTrees = 2
    MaxProfiles = 2
    MaxSubs = 3
    MaxKeys = 2
    MaxEdits = 1
    FilterTopics <- MCTopics
    FilterTexts = {"a", "b"}
    ChartMaxSamples = 3
    ChartMinInterval = 2
    ChartWindow = 6
    ChartTimes = {1, 2, 3, 4, 5, 6, 7, 8}
    ChartValues = {0, 1, 2}
    ViewMessages <- MCMessages
    DiffMaxLines = 2
    DiffLineLen = 3
    HistoryMaxRows = 2
    RingCapacity = 2
    MaxStamps = 3
    MaxChecks = 3
    Releases = {1, 2, 3}
    AppVersion = 2
INVARIANTS
    NoDanglingNode
    SubtreeAddsUp
    BadgesLag
    OneNodePerTopic
    PortsAreTheirOwn
    FocusIsShown
    OneRowPerProfile
    MarksAreFresh
    FrozenOrLive
    AxisFitsSamples
    SpikesAreKept
    OneCheckAtATime
PROPERTIES
    RejectedLeavesNoTrace
    DiffIsExact
    HistoryIsFresh
