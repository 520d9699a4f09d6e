CONSTANTS
    MapWidth = 6
    MapHeight = 5
    Reach = 8
SPECIFICATION RaySpec
INVARIANTS
    RayIsNearTheLine
    RayIsDrawn
CHECK_DEADLOCK FALSE
