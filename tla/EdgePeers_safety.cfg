SPECIFICATION Spec
CONSTANTS
    Edge1 = Edge1
    Edge2 = Edge2
    Sock1 = Sock1
    Sock2 = Sock2
    Sock3 = Sock3
    SN = SN
    Bcast = Bcast
    NoMac = NoMac
    NoSock = NoSock
    Edges = {Edge1, Edge2}
    Socks = {Sock1, Sock2, Sock3}
    CanReach <- OneBlocked
    PurgeFreq = 2
    RegTimeout = 1
    MaxTime = 3
    MaxMsgs = 2
    MaxMoves = 1
    Lossy = TRUE
SYMMETRY Symmetry
INVARIANTS
    TypeOK
    OneEntry
    AckProvenance
PROPERTIES
    EvictionJustified
    NoMoveInPlace
CHECK_DEADLOCK FALSE
