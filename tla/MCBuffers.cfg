SPECIFICATION PartsSpec
CONSTANTS
    Capacity = 3
    Topics = {s, t}
    Blocks = {p1, p2, p3, p4}
    Null = Null
    MaxGeneration = 6
    Clips <- MCClips
    NodePaths <- MCNodePaths
    CopiedTopics <- MCCopiedTopics
    TopicCap = 3
    PayloadCap = 6
    PayloadDisplay = 6
INVARIANT OneOwner
PROPERTIES
    ImplementsLog
    TextIsWhole
