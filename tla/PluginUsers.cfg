SPECIFICATION LifecycleSpec
CONSTANTS
    VolIDs = {v1}
    Sizes = {2}
    NodeSizes = {}
    DefaultSize = 3
    NoAnnotation = NoAnnotation
    BadAnnotation = BadAnnotation
    NoQuantity = NoQuantity
    NoObject = NoObject
    NoVolume = NoVolume
    MaxRetries = 0
    MaxLog = 7
    MaxLate = 1
    MaxEdits = 3
    v1 = v1
INVARIANTS
    NeverBothBackends
PROPERTIES
    ImplementsLedger
    EditsKept
    RemovedOnlyWhenDeleting
