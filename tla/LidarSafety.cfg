\* Two activations, four rings; a batch of 1 node and a buffer of 3 make a
\* rotation overflow local_scan and reach MAX_SCAN_NODES.
CONSTANTS
    BatchSize = 1
    ScanCapacity = 3
    MaxScanNodes = 2
    Version = 4
    SpuriousWakeups = TRUE
    LossyCommands = FALSE
    MaxActivations = 2
    MaxRings = 4
SPECIFICATION Spec
INVARIANTS
    LockHeldInside
    PublishedScanIsWhole
    ScanTimeSpansTheScan
    MotorOffWhenDeactivated
    StuckMeansPowerCycled
PROPERTIES
    PublishedInOrder
    ImplementsMailbox
