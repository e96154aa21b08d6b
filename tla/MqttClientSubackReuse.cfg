CONSTANTS
    a = a
    b = b
    NoTopic = NoTopic
    Profiles <- TwoProfiles
    MaxSubs = 2
    MayFail = {"tunnel", "new", "dial", "loop"}
    MaxConnects = 2
    MaxReconnects = 0
SPECIFICATION Spec
INVARIANT AckNamesItsTopic
