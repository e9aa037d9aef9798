SPECIFICATION FairSpec
CONSTANTS
    a = a
    b = b
    None = None
    Node = {a, b}
    Reaches <- OneWay
    AnnounceInterval = 2
    PeerTimeout = 5
    PruneInterval = 3
    MaxCommands = 0
    MaxQuits = 1
PROPERTIES
    FoundBothWays
    TrafficSettles
CHECK_DEADLOCK FALSE
