SPECIFICATION FairSpec
CONSTANTS
    a = a
    b = b
    m1 = m1
    m2 = m2
    NoMsg = NoMsg
    Node = {a, b}
    Msg = {m1, m2}
    From <- FromBoth
    High = 0
    Low = 0
    NetCap = 1
    LossKind = {"reset"}
    OtherKind = {"file_data"}
    MaxOther = 2
PROPERTY TrackedIsResolved
CHECK_DEADLOCK FALSE
