SPECIFICATION Spec
CONSTANTS
    Nodes = {n1, n2}
    Cluster = {n1, n2}
    NodeList <- TwoNodes
    LongNodes = {}
    OtherNames = {mine}
    Jobs = {j1}
    Users = {u1}
    NoClient = NoClient
    MaxRestarts = 2
    MaxTroubles = 1
    MaxHistory = 4
    n1 = n1
    n2 = n2
INVARIANTS
    OneObjectPerNode
CHECK_DEADLOCK FALSE
