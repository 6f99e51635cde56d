SPECIFICATION FairSpec
CONSTANTS
    MaxTroubles = 3
INVARIANTS
    TypeOK
    WorksOnSyncedCaches
    InformersStarted
PROPERTIES
    EventuallyServes
    PluginShutsDown
    SecondSignalEnds
CHECK_DEADLOCK FALSE
