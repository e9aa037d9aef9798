SPECIFICATION Spec
CONSTANTS
    t1 = t1
    t2 = t2
    Transfer = {t1, t2}
    Size <- Sizes
    ChunkSize = 2
    MaxConcurrent = 2
    MaxTotal = 4
    Path = {1, 2}
    None = None
    MaxTries = 2
CHECK_DEADLOCK FALSE
INVARIANTS
    TypeOK
    PartIsPrefix
    DoneIsDelivered
