SPECIFICATION Spec
CONSTANTS
    Edge1 = Edge1
    Edge2 = Edge2
    Edges = {Edge1, Edge2}
    Skew <- OneAhead
    Files <- Versions
    MaxSA = 3
    MaxSpecs = 4
    TickInterval = 1
    Start = 2
    MaxTime = 6
INVARIANTS
    TypeOK
    Decodable
PROPERTIES
    TxKeyCurrent
    KeepsLastKey
CHECK_DEADLOCK FALSE
