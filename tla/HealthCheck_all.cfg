SPECIFICATION FairSpec
CONSTANTS
    u1 = u1
    u2 = u2
    w1 = w1
    w2 = w2
    Urls = {u1, u2}
    Workers = {w1, w2}
    Deployments <- AnyCluster
    TTL = 3
    MaxCount = 2
    None = None
PROPERTIES
    CountIsConsecutive
    CountersExpire
    RecoveryIsSeen
    FailureIsSeen
    CheckEnds
