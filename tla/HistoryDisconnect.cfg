CONSTANTS
    Topics = {a, b}
    RingCapacity = 3
    BatchSize = 2
    MaxRows = 2
    LoadMax = 1
    MayFail = {}
    MaxMessages = 4
    MaxRequests = 2
    MaxStarts = 2
SPECIFICATION Spec
PROPERTY StoredAcrossSessions
