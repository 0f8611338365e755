SPECIFICATION Spec
CONSTANTS
    MAX_WHEEL_COUNT = 0
    MAX_TRAILERS = 2
    MAX_GEARS = 1
    MaxValue = 1
    SCS_U32_NIL = 2
    MaxQueued = 2
    NoFrame = NoFrame
    Lists <- MCJobLists
    Ids <- MCJob
INVARIANTS
    NoChangeLost
    PausedInSync
    ConfigShown
    JobGoneAfterEnd
