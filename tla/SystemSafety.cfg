SPECIFICATION DeleterSafety
CONSTANTS
    VolIDs = {v1}
    Sizes = {1}
    NodeSizes = {}
    DefaultSize = 1
    NoAnnotation = NoAnnotation
    BadAnnotation = BadAnnotation
    NoQuantity = NoQuantity
    NoObject = NoObject
    NoVolume = NoVolume
    MaxRetries = 0
    MaxLog = 6
    MaxLate = 1
    MaxLag = 1
    v1 = v1
CONSTRAINT BoundedLag
INVARIANTS
    SysTypeOK
    ReadyHasSizes
PROPERTIES
    ImplementsLedger
    NoStepBack
    CtlSyncsNotForgotten
