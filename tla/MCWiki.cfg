SPECIFICATION Spec
CONSTANTS
    e1 = e1
    e2 = e2
    e3 = e3
    e4 = e4
    e5 = e5
    e6 = e6
    e7 = e7
    A = a
    B = b
    C = c
    Calls = {r1, r2}
    Entities = {e1, e2, e3, e4, e5, e6, e7}
    Dirs <- DirsByName
    Misc = misc
    Layouts <- ThreeLayouts
    SlugOf <- Slugs
    MinTopicSize = 2
    MaxTopics = 2
    Movable = {e5}
    MayRelate <- Relations
    NoPage = nopage
    Broken = broken
    MaxMoves = 1
    MaxCrashes = 1
INVARIANTS TypeOK DescribedOnce
SYMMETRY Symmetry
