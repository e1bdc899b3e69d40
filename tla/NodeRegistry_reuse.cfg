SPECIFICATION Spec
CONSTANTS
    Namespaces = {ns1}
    Instances = {i1, i2}
    DnsNames = {n1}
    Workers = {w1, w2}
    MaxTasks = 3
    Batches <- OneOnly
    Faults = FALSE
    None = None
CHECK_DEADLOCK FALSE
PROPERTY
    DeletesCorrespondingKeys
