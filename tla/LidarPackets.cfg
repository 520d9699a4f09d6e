CONSTANTS
    None = None
    BatchSize = 3
    PackageSampleBytes = 3
    SampleNum = 2
    RecvBufferSize = 10
    Streams <- MCStreams
    MaxFaults = 2
    MaxTimeouts = 2
SPECIFICATION Spec
INVARIANTS
    NodesAreGenuine
    
    BatchesAreExpected
    CleanPackagesArrive
CHECK_DEADLOCK FALSE
