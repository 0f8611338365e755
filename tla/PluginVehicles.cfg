SPECIFICATION Spec
CONSTANTS
    MAX_WHEEL_COUNT = 1
    MAX_TRAILERS = 1
    MAX_GEARS = 1
    MaxValue = 1
    SCS_U32_NIL = 2
    MaxQueued = 1
    NoFrame = NoFrame
    Lists <- MCLists
    Ids <- MCVehicles
INVARIANTS
    TypeOK
    NoGhostWheels
    ConfigShown
