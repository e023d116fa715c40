SPECIFICATION FairSpec
CONSTANTS
    m1 = m1
    m2 = m2
    m3 = m3
    c1 = c1
    c2 = c2
    s1 = s1
    s2 = s2
    s3 = s3
    Macs = {m1, m2}
    Comms = {c1, c2}
    Socks = {s1, s2, s3}
    SN = SN
    NoSock = NoSock
    Home <- TwoCommunities
    DropMulti = {m1}
    Routers = {m2}
    Timeout = 1
    Period = 1
    MaxTime = 3
    MaxMsgs = 2
    MaxMoves = 1
INVARIANTS
    TypeOK
    NotReflected
PROPERTIES
    ImplementsRegistry
    Delivered
CHECK_DEADLOCK FALSE
