SPECIFICATION Spec
CONSTANTS
    Nodes = {n1, n2}
    Pods = {p1}
    Capacity <- EqualNodes
    Claims <- TwoClaims
    Unstable = {n2}
    MaxLag = 2
    MaxRedeclared = 0
    NoStorage = NoStorage
    NoSizes = NoSizes
    n1 = n1
    n2 = n2
    p1 = p1
    p2 = p2
    p3 = p3
INVARIANTS
    NeverOvercommitted
CHECK_DEADLOCK FALSE
