CONSTANTS
    Search = {s1}
    Task = {s1}
    Node = {n1, n2}
    NodesOf <- AllNodes
    Request = {1, 2, 3}
    None = None
    MaxClears = 1
    MaxLost = 1
SPECIFICATION FairSpec
INVARIANTS
    TypeOK
    ShownComplete
    SuccessComplete
    PollingAlive
PROPERTIES
    PageSettles
CHECK_DEADLOCK FALSE
