SPECIFICATION Spec
CONSTANTS
    gitA = gitA
    astA = astA
    b = b
    l = l
    z = z
    a = a
    x = x
    c1 = c1
    c2 = c2
    EntIDs <- MCEntIDs
    RelIDs <- MCRelIDs
    Data = {c1, c2}
    BadData = BadData
    Versions = {0}
    NoRow = NoRow
    NameOf <- MCNameOf
    Blank = Blank
    Long = Long
    Batches <- MCBatches
    Handlers = {h1, h2}
    None = None
    ListLimit = 2
    MaxBatches = 4
    MaxDeletes = 1
INVARIANTS TypeOK OneEntityPerName
PROPERTIES ReplacesWhatWasListed SuccessIsShown RefusalsExplained
