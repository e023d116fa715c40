SPECIFICATION Spec
CONSTANTS
    Sn1 = Sn1
    Sn2 = Sn2
    Sn3 = Sn3
    SNs = {Sn1, Sn2}
    Comms = {c1, c2}
    CmdLine <- AskFirst
    MinSn = 2
    MaxSn = 1
    MaxComm = 1
    MaxMsgs = 3
    MaxCrashes = 1
    Lossy = TRUE
SYMMETRY CommSymmetry
INVARIANTS
    TypeOK
    SupersSaved
    CounterpartAdvertised
    BackupListFits
PROPERTIES
    ReadyOnlyGrows
    VolunteersWithinLimit
CHECK_DEADLOCK FALSE
