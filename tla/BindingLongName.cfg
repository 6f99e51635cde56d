SPECIFICATION JobFairSpec
CONSTANTS
    Nodes = {n1, n2}
    Cluster = {n1, n2}
    NodeList <- TwoNodes
    LongNodes = {n1}
    OtherNames = {}
    Jobs = {j1, j2}
    Users = {}
    NoClient = NoClient
    MaxRestarts = 3
    MaxTroubles = 0
    MaxHistory = 0
    n1 = n1
    n2 = n2
PROPERTIES
    EventuallyBound
CHECK_DEADLOCK FALSE
