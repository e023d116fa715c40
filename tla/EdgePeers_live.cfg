SPECIFICATION FairSpec
CONSTANTS
    Edge1 = Edge1
    Edge2 = Edge2
    Sock1 = Sock1
    Sock2 = Sock2
    Sock3 = Sock3
    SN = SN
    Bcast = Bcast
    NoMac = NoMac
    NoSock = NoSock
    Edges = {Edge1, Edge2}
    Socks = {Sock1, Sock2}
    CanReach <- AllPairs
    PurgeFreq = 2
    RegTimeout = 1
    MaxTime = 6
    MaxMsgs = 2
    MaxMoves = 0
    Lossy = FALSE
INVARIANT KnownFresh
PROPERTY HandshakeCompletes
CHECK_DEADLOCK FALSE
