CONSTANTS
    None = None
    MapWidth = 6
    MapHeight = 6
    Parameters <- MCParameters
    MapOrigin <- MCMapOrigin
    Resolution = 4
    MatchStep = 1
    Gains <- MCGains
    ScanMatchRange = 2
    ScanMatchSkip = 1
    YawOffset = 2
    IgnoreSector <- MCSector
    IgnoreRange = 1
    LogOddsHit = 9
    LogOddsMiss <- MCLogOddsMiss
    LogOddsMax = 50
    LogOddsMin <- MCLogOddsMin
    Beams <- MCBeams
    Dropouts = {}
    RangeMin = 1
    RangeMax = 3
    Walls <- MCWalls
    Starts <- MCStarts
    Strides <- MCStrides
    MaxMoves = 2
    MaxScans = 2
    MaxSteps = 3
SPECIFICATION Spec
INVARIANTS
    PoseFollowsOdometry
    TransformIsTheFrame
PROPERTY
    NoPhantomObstacle
