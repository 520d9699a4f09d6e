\* With the IMU; a heading of four values turns past +-pi.
CONSTANTS
    UseImu = TRUE
    QueueDepth = 2
    StartTicks = 1
    MaxMoves = 2
    HalfTurn = 2
    MaxRequests = 1
SPECIFICATION FairSpec
INVARIANTS
    HeadingFollowsImu
PROPERTIES
    ImplementsOdometer
    StopIsReported
    ResetServed
