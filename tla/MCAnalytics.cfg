SPECIFICATION Spec
CONSTANTS
    a = a
    b = b
    c = c
    d = d
    Nodes = {a, b, c, d}
    Weights = {8, 16}
    One = 3200000
    AuditGraphs <- Audited
    CallEdges <- Calling
    Depths = {0, 2, 9}
    MaxMoves = 1
INVARIANTS TypeOK BestReported
PROPERTIES ComponentsSpec
CHECK_DEADLOCK FALSE
