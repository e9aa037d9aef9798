SPECIFICATION Spec
CONSTANTS
    a = a
    b = b
    None = None
    Node = {a, b}
    Reaches <- OneWay
    AnnounceInterval = 2
    PeerTimeout = 5
    PruneInterval = 3
    MaxCommands = 1
    MaxQuits = 1
INVARIANTS
    TypeOK
    StaleIsPruned
PROPERTIES
    OfflineWasMissed
CHECK_DEADLOCK FALSE
