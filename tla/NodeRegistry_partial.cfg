SPECIFICATION Spec
CONSTANTS
    Namespaces = {ns1}
    Instances = {i1, i2}
    DnsNames = {n1, n2}
    Workers = {w1}
    MaxTasks = 2
    Batches <- UpToTwo
    Faults = FALSE
    None = None
CHECK_DEADLOCK FALSE
INVARIANT
    LaunchedInstancesAreSaved
