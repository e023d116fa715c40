SPECIFICATION Spec
CONSTANTS
    Sn1 = Sn1
    Sn2 = Sn2
    Sn3 = Sn3
    Sns = {Sn1, Sn2, Sn3}
    Advertisers = {Sn1, Sn2}
    Answers = {"ADV", "RSP"}
    Backups <- NewCommunity
    Attempts = 1
    Files <- OneFile
    RingMax = 2
    DflLifetime = 1
    MinLifetime = 1
    MaxLifetime = 2
    Granted = 1
    RegTimeout = 2
    Timely = FALSE
    MaxMsgs = 2
    MaxFlips = 1
INVARIANTS
    TypeOK
    RingSaved
    AnswerIsCurrent
