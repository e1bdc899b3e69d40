SPECIFICATION FairSpec
CONSTANTS
    Namespaces = {ns1, ns2}
    Instances = {i1, i2}
    DnsNames = {n1, n2}
    Workers = {w1, w2}
    MaxTasks = 3
    Batches <- OneOrTwo
    Faults = TRUE
    None = None
CHECK_DEADLOCK FALSE
INVARIANTS
    TypeOK
    EntryIsLaunchedNode
    IsolatedTermination
    ResponseMeansListed
    ResponseMeansForgotten
PROPERTIES
    DeletesOwnNames
    ImplementsLifecycle
    EveryTaskSettles
    UnlistedIsAccountedFor
