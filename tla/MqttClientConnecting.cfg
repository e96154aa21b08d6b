CONSTANTS
    a = a
    b = b
    NoTopic = NoTopic
    Profiles <- OneFilter
    MaxSubs = 2
    MayFail = {"tunnel", "new", "dial", "loop"}
    MaxConnects = 1
    MaxReconnects = 0
SPECIFICATION Spec
INVARIANT ConnectingMeansAttempt
