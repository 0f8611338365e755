SPECIFICATION Spec
CONSTANTS
    MAX_WHEEL_COUNT = 2
    MAX_TRAILERS = 1
    MAX_GEARS = 1
    MaxValue = 1
    SCS_U32_NIL = 2
    Lists <- MCLists
INVARIANTS
    TypeOK
    Effect
