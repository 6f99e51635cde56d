SPECIFICATION Spec
CONSTANTS
    VolIDs = {v1, v2}
    Volumes = {a, b}
    Absent = Absent
    Torn = Torn
    Unknown = Unknown
    DumpsMayFail = FALSE
INVARIANTS
    DeletesDurable
CHECK_DEADLOCK FALSE
