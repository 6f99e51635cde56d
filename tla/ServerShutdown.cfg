SPECIFICATION PatientSpec
CONSTANTS
    MaxTroubles = 3
PROPERTIES
    ShutsDownBySignal
CHECK_DEADLOCK FALSE
