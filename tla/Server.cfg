SPECIFICATION FairSpec
CONSTANTS
    SCS_U32_NIL = 1000
    MAX_WHEEL_COUNT = 14
    MAX_TRAILERS = 10
    MaxValue = 1
    MaxChanges = 1
    MaxFailures = 1
    MaxQueued = 2
    NoValue = NoValue
    NoFrame = NoFrame
    Games <- MCGames
    Watched <- MCWatched
    Events <- MCEvents
INVARIANTS
    TypeOK
    SessionComplete
    UnloadQuiet
    NothingLeaks
    PausedAsLeft
    ClientsSeeGame
    RegistrationsAccepted
    StoresFit
    OneWriter
    AllSerialized
    EventsComplete
PROPERTIES
    ShutdownEnds
