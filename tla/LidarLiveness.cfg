CONSTANTS
    BatchSize = 1
    ScanCapacity = 3
    MaxScanNodes = 2
    Version = 4
    SpuriousWakeups = FALSE
    LossyCommands = TRUE
    MaxActivations = 1
    MaxRings = 2
SPECIFICATION FairSpec
PROPERTIES
    StopCompletes
    SignalledScanIsPublished
    DeviceStarted
