SPECIFICATION FairSpec
CONSTANTS
    A = A
    B = B
    C = C
    Sns = {A, B, C}
    CmdLines <- Lines
    Existing <- Coordinators
    Knows <- Neighbours
    Load <- Loads
    Keep = 2
    RingMax = 2
    MaxComm = 3
    Interval = 2
    IntMax = 32767
    Epochs = {400, 1000}
    MaxTime = 2
    MaxMsgs = 2
INVARIANTS
    TypeOK
    RegistersWithCoordinators
    TimelyNeverCrashes
    BestAsked
PROPERTIES
    FindsWorking
CHECK_DEADLOCK FALSE
