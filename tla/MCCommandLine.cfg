SPECIFICATION Spec
CONSTANTS
    j1 = j1
    j2 = j2
    Jobs = {j1, j2}
    Mix <- EveryKindBesideTwo
    Free = free
    MaxMoves = 1
INVARIANTS TypeOK 
PROPERTIES RepliesSpec EveryAnswered
CHECK_DEADLOCK FALSE
