SPECIFICATION FairSpec
CONSTANTS
    i1 = i1
    i2 = i2
    o1 = o1
    c1 = c1
    c2 = c2
    d1 = d1
    d2 = d2
    s1 = s1
    None = None
    Inbound = {i1, i2}
    Outbound = {o1}
    Conn = {c1, c2}
    Dial = {d1, d2}
    Sender = {s1}
    MaxConnections = 1
    MaxUnread = 1
INVARIANTS
    TypeOK
    OvershootBounded
    TableIsServed
    OwnedUnlessReused
PROPERTY EndedIsForgotten
CHECK_DEADLOCK FALSE
