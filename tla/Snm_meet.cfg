SPECIFICATION Spec
CONSTANTS
    Sn1 = Sn1
    Sn2 = Sn2
    Sn3 = Sn3
    SNs = {Sn1, Sn2, Sn3}
    Comms = {c1}
    CmdLine <- AskFirst
    MinSn = 3
    MaxSn = 4
    MaxComm = 3
    MaxMsgs = 8
    MaxCrashes = 0
    Lossy = FALSE
INVARIANT OneSideKnows
CHECK_DEADLOCK FALSE
