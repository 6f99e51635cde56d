SPECIFICATION Spec
CONSTANTS
    VolIDs = {v1, v2}
    Sizes = {2}
    NodeSizes = {}
    DefaultSize = 3
    NoAnnotation = NoAnnotation
    BadAnnotation = BadAnnotation
    NoQuantity = NoQuantity
    NoObject = NoObject
    NoVolume = NoVolume
    MaxRetries = 1
    MaxLog = 2
    MaxLate = 1
    MaxEdits = 0
    v1 = v1
    v2 = v2
SYMMETRY Symmetry
INVARIANTS
    VolumesHaveDirs
    BoundVolumesKept
    ReleasedVolumesGone
    AllocatableNotUnderstated
    IInv
PROPERTIES
    ImplementsLedger
    SyncsNotForgotten
