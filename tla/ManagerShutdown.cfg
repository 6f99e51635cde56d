SPECIFICATION UndisturbedSpec
CONSTANTS
    Processes = {m1, m2}
    Nobody = Nobody
    Former = Former
    LeaseDuration = 15
    RenewDeadline = 10
    RetryPeriod = 2
    MaxDelay = 2
    MaxTroubles = 1
PROPERTIES
    ShutdownCompletes
