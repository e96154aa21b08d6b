CONSTANTS
    a = a
    b = b
    NoTopic = NoTopic
    Profiles <- TwoFilters
    MaxSubs = 2
    MayFail = {"tunnel", "new", "dial", "loop"}
    MaxConnects = 1
    MaxReconnects = 1
SPECIFICATION FairSpec
INVARIANTS
    AtomicsAgree
    NoLostSubscription
    AckNamesItsTopic
PROPERTIES
    JoinReturns
    ShownSettles
    TunnelDeathTearsDown
