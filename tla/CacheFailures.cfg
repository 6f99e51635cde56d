SPECIFICATION Spec
CONSTANTS
    VolIDs = {v1, v2}
    Volumes = {a, b}
    Absent = Absent
    Torn = Torn
    Unknown = Unknown
    DumpsMayFail = TRUE
INVARIANTS
    SetsDurable
    CacheInv
CHECK_DEADLOCK FALSE
