CONSTANTS
    Wants = {1, 3}
    Timeouts = {0, 2, 7}
    ByteTicks = 2
    MaxInput = 4
    MaxOutput = 2
    CommandLength = 2
    Parities = {"none", "even", "odd", "mark", "space"}
    StopBits = {"one", "two"}
    FlowControls = {"none", "hardware", "software"}
    Leftovers = {{}, {"ICANON", "PARENB", "PARODD", "CMSPAR", "CSTOPB", "CRTSCTS", "IXON"}}
    MaxDescriptors = 2
SPECIFICATION FairSpec
INVARIANTS
    OpenPortIsSet
    WaitEndsInTime
    ReadIsWhole
PROPERTIES
    CallReturns
