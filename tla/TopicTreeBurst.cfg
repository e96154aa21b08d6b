CONSTANTS
    a = a
    b = b
    c = c
    long = long
    stub = stub
    Empty = Empty
    Topics <- OneTopic
    Cut <- CutAll
    Payloads = {x, y}
    NoPayload = NoPayload
    MaxChildren = 2
    MaxMessages = 2
    MaxTrees = 1
SPECIFICATION FairSpec
PROPERTY ShowsLatestPayload
