SPECIFICATION FairSpec
CONSTANTS
    Nodes = {n1, n2}
    Pods = {p1, p2}
    Capacity <- UnequalNodes
    Claims <- TwoPods
    Unstable = {n2}
    MaxLag = 2
    MaxRedeclared = 1
    NoStorage = NoStorage
    NoSizes = NoSizes
    n1 = n1
    n2 = n2
    p1 = p1
    p2 = p2
    p3 = p3
INVARIANTS
    TypeOK
    NoOvercommit
    SizesAddUp
PROPERTIES
    EveryPodRuns
CHECK_DEADLOCK FALSE
