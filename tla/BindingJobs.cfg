SPECIFICATION JobFairSpec
CONSTANTS
    Nodes = {n1, n2}
    Cluster = {n1, n2}
    NodeList <- TwoNodes
    LongNodes = {}
    OtherNames = {}
    Jobs = {j1, j2}
    Users = {}
    NoClient = NoClient
    MaxRestarts = 4
    MaxTroubles = 2
    MaxHistory = 0
    n1 = n1
    n2 = n2
INVARIANTS
    TypeOK
    OneObjectPerNode
    DoneMeansBound
    JobInv
PROPERTIES
    EventuallyBound
CHECK_DEADLOCK FALSE
