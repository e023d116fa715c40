SPECIFICATION Spec
CONSTANTS
    Edge1 = Edge1
    Edge2 = Edge2
    Edges = {Edge1, Edge2}
    Skew <- OneAhead
    Files <- NextWeek
    MaxSA = 3
    MaxSpecs = 4
    TickInterval = 1
    Start = 2
    MaxTime = 9
INVARIANT NoCleartext
CHECK_DEADLOCK FALSE
