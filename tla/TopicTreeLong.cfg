CONSTANTS
    a = a
    b = b
    c = c
    long = long
    stub = stub
    Empty = Empty
    Topics <- LongTopic
    Cut <- CutAll
    Payloads = {x}
    NoPayload = NoPayload
    MaxChildren = 2
    MaxMessages = 2
    MaxTrees = 2
SPECIFICATION Spec
INVARIANT OneNodePerTopic
