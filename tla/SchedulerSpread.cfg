SPECIFICATION SpreadSpec
CONSTANTS
    Nodes = {n1, n2}
    Pods = {p1, p2, p3}
    Capacity <- EqualNodes
    Claims <- SmallClaims
    Unstable = {n2}
    MaxLag = 2
    MaxRedeclared = 0
    NoStorage = NoStorage
    NoSizes = NoSizes
    n1 = n1
    n2 = n2
    p1 = p1
    p2 = p2
    p3 = p3
INVARIANTS
    Spread
CHECK_DEADLOCK FALSE
