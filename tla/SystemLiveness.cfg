SPECIFICATION EditorSpec
CONSTANTS
    VolIDs = {}
    Sizes = {1}
    NodeSizes = {}
    DefaultSize = 1
    NoAnnotation = NoAnnotation
    BadAnnotation = BadAnnotation
    NoQuantity = NoQuantity
    NoObject = NoObject
    NoVolume = NoVolume
    MaxRetries = 0
    MaxLog = 3
    MaxLate = 1
    MaxLag = 10
PROPERTIES
    EventuallyReady
    SettlesTerminating
