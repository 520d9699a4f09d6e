CONSTANTS
    QueueDepth = 2
    HeartbeatRange = 2
    MaxCommands = 4
SPECIFICATION FairSpec
INVARIANTS
    LatestCommandHolds
    AnswerIsTrue
PROPERTIES
    CommandsInOrder
    LastCommandArrives
CHECK_DEADLOCK FALSE
