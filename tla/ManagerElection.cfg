SPECIFICATION FairSpec
CONSTANTS
    Processes = {m1, m2}
    Nobody = Nobody
    Former = Former
    LeaseDuration = 15
    RenewDeadline = 10
    RetryPeriod = 2
    MaxDelay = 10
    MaxTroubles = 2
INVARIANTS
    OverlapBounded
    LeaseInv
PROPERTIES
    AlwaysAgainController
