SPECIFICATION FairSpec
CONSTANTS
    a = a
    b = b
    c1 = c1
    c2 = c2
    NoConn = NoConn
    Node = {a, b}
    Conn = {c1, c2}
    Initiator <- Crossed
    MaxSend <- Sends
INVARIANTS
    TypeOK
    EstablishedIsMutual
    NonceIsFresh
    AcceptedIsPrefix
    RefusedMeansUnwritten
    ReplacedIsClosed
PROPERTY HalfOpenEnds
CHECK_DEADLOCK FALSE
