SPECIFICATION FairSpec
CONSTANTS
    game = game
    other = other
    net = net
    free = free
    Producers <- MCProducers
    Net = net
    Event <- MCEvent
    NoEvent <- MCNoEvent
    Free = free
    MaxPushes = 3
INVARIANTS
    TypeOK
    MutexOwner
    NoPopOnEmpty
PROPERTIES
    ImplementsFifo
    MutexReleased
    DrainsWhenQuiet
