CONSTANTS
    UseImu = TRUE
    QueueDepth = 1
    StartTicks = 0
    MaxMoves = 1
    HalfTurn = 2
    MaxRequests = 0
SPECIFICATION FairSpec
PROPERTY AngularVelocityIsTheTurn
