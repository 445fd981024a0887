SPECIFICATION Spec
CONSTANTS
    EntIDs = {e1, e2}
    RelIDs = {r1}
    Data = {d1, d2}
    BadData = BadData
    Versions = {0, 2}
    NoRow = NoRow
    Clients = {c1, c2}
    NoClient = NoClient
    NoResult = NoResult
    MaxTxn = 3
    MaxBatch = 2
SYMMETRY Symm
INVARIANTS
    TypeOK
    VersionsGrow
    NoLostUpdate
    EndpointsFirst
    AllOrNothing
PROPERTY
    Promise
