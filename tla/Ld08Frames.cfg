CONSTANTS
    Slots = 3
    CutDrop = 1
    MaxChunk = 2
    MaxPoints = 8
SPECIFICATION FairSpec
INVARIANTS
    TypeOK
    PointsAreKept
    OneRotationPerFrame
PROPERTIES
    WholeUnlessLate
    RepeatedOnlyIfLate
    FrameIsPublished
    ShutdownCompletes
