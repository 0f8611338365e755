SPECIFICATION FairSpec
CONSTANTS
    Client = {c1, c2}
    NoClient = NoClient
    Fds = {1, 4}
    m_topSocket = 3
    MAX_CLIENTS = 1
    MsgParts = 2
    MaxUnread = 0
    RecvClears = TRUE
    Event <- MCEvent
INVARIANTS
    SelectNeverFails
    WholeMessages
PROPERTIES
    ImplementsFeed
    StopEndsThread
    DeadConnectionsClosed
    QueueServed
