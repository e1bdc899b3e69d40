SPECIFICATION FairSpec
CONSTANTS
    u1 = u1
    u2 = u2
    w1 = w1
    w2 = w2
    Urls = {u1, u2}
    Workers = {w1, w2}
    Deployments <- OneOfEach
    TTL = 3
    MaxCount = 1
    None = None
PROPERTY
    EveryFailureIsSeen
