SPECIFICATION Spec
CONSTANTS
    e1 = e1
    e2 = e2
    e3 = e3
    e4 = e4
    EntIDs <- MCEntIDs
    r1 = r1
    r2 = r2
    RelIDs <- MCRelIDs
    Databases <- MCDatabases
    Keys <- MCKeys
    Readers = {p1}
    Writers = {w1, w2}
    Absent = Absent
    NoKey = NoKey
    ByName = ByName
    Unsampled = {e2}
    MaxWrites = 2
SYMMETRY Symm
INVARIANTS
    TypeOK
    EntitiesFresh
    NeighborhoodsFresh
