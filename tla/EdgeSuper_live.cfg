SPECIFICATION FairSpec
CONSTANTS
    Sn1 = Sn1
    Sn2 = Sn2
    Sn3 = Sn3
    Sns = {Sn1, Sn2, Sn3}
    Advertisers = {Sn1, Sn2}
    Answers = {"ADV", "RSP"}
    Backups <- Counterparts
    Attempts = 3
    Files <- FullFile
    RingMax = 4
    DflLifetime = 1
    MinLifetime = 1
    MaxLifetime = 3
    Granted = 2
    RegTimeout = 20
    Timely = TRUE
    MaxMsgs = 2
    MaxFlips = 2
PROPERTIES
    NeverForgotten
    FailsOver
    MainKeptWhileAnswering
