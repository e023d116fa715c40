SPECIFICATION Spec
CONSTANTS
    SnSock <- MCSnSock
    MaxSends = 2
    PktBuf = 95
    SA <- MCSA
    AesEncrypt <- MCAesEncrypt
    AesDecrypt <- MCAesDecrypt
    sBox <- MCsBox
    subKeys <- MCsubKeys
    Rounds = 2
    Edges = {1, 2}
    Mac <- MCMac
    Sock <- MCSock
    Community <- MCab
    TapFrames <- MCFrames
    Nonces <- MCNonces
    Junk <- MCJunk
    SnmSock <- MCSnmSock
    CmdLine <- MCCmdLine
    Others <- MCOthers
    Peer <- MCPeer
    Names <- MCNames
    NameLists <- MCNameLists
    SnLists <- MCSnLists
    Cookies <- MCCookies
    Stray = {0, 16}
    Before <- MCBefore
    MinSn = 2
    MaxSn = 2
    MaxComm = 3
    MaxCrashes = 1
INVARIANTS
    TypeOK
    Understood
    FramesIntact
    OnlyOversizeBreaks
PROPERTIES
    AnswerForCommunity
    ReadsBack
CHECK_DEADLOCK FALSE
