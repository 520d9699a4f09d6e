\* A spurious wakeup of pthread_cond_timedwait reaches the assertion.
CONSTANTS
    BatchSize = 1
    ScanCapacity = 3
    MaxScanNodes = 2
    Version = 4
    SpuriousWakeups = TRUE
    LossyCommands = FALSE
    MaxActivations = 1
    MaxRings = 2
SPECIFICATION Spec
INVARIANT EventAssertHolds
