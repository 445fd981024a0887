SPECIFICATION Spec
CONSTANTS
    EntIDs = {e1, e2}
    Writers = {w1, w2}
    None = None
    Capacity = 2
    MaxWrites = 3
INVARIANTS
    TypeOK
    StaleIsScheduled
PROPERTIES
    CatchesUp
