SPECIFICATION OneOfThem
CONSTANTS
    Users = {u1}
    Passwords = {p1, p2}
    Clients = {c1, c2}
    TTL = 2
    Hosts = {h1}
    Tasks = {t1, t2}
    Pool = 1
    None = None
    Null = Null
    Pollers = {a1}
    Capacities <- SmallNodes
    MaxNodes = 2
    Amounts <- SomeAmounts
    Quantities = {0, 3}
    MaxServices = 2
    DefaultNode <- TwoByThree
    Applications <- SomeApplications
    NodeCounts <- SomeNodeCounts
    Filler = "remainder_pod"
INVARIANTS
    CapacityRespected
    LeftOutFitsNowhere
    NoMoreThanNeeded
    DistributedEvenly
    AdmissionIsEarned
    RemovedUserIsOut
    FinalAnswerIsWhole
    DiscoveryIsTrue
PROPERTIES
    PasswordChangeTakesEffect
    TaskEnds
    ImplementsDelivery
