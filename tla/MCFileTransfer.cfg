SPECIFICATION FairSpec
CONSTANTS
    t1 = t1
    t2 = t2
    l1 = l1
    l2 = l2
    NoFile = NoFile
    NoTransfer = NoTransfer
    Transfer = {t1, t2}
    Link = {l1, l2}
    On <- OnTwo
    Size <- Sizes
    TooLarge = {}
    NetCap <- Caps
    Editable = {t1}
INVARIANTS
    TypeOK
    SuccessIsVerified
    DoneIsStored
    PartIsActive
    StalledHasCause
PROPERTIES
    SendingEnds
CHECK_DEADLOCK FALSE
