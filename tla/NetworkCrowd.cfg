SPECIFICATION Spec
CONSTANTS
    Client = {c1, c2, c3}
    NoClient = NoClient
    Fds = {1, 4, 5}
    m_topSocket = 3
    MAX_CLIENTS = 1
    MsgParts = 1
    MaxUnread = 1
    RecvClears = FALSE
    Event = {}
SYMMETRY ClientSymmetry
INVARIANTS
    TypeOK
    DescriptorsTracked
    NeverBlocks
    CapacityBound
PROPERTY HealthyClientsKept
