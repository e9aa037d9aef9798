SPECIFICATION Spec
CONSTANTS
    a = a
    b = b
    m1 = m1
    m2 = m2
    NoMsg = NoMsg
    Node = {a, b}
    Msg = {m1, m2}
    From <- FromBoth
    High = 0
    Low = 0
    NetCap = 1
    LossKind = {"clean", "oserror"}
    OtherKind = {"file_offer", "file_data"}
    MaxOther = 1
INVARIANTS
    TypeOK
    PendingHasOwner
    DeliveredIsShown
PROPERTY ImplementsDelivery
CHECK_DEADLOCK FALSE
