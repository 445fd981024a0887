SPECIFICATION Spec
CONSTANTS
    Files = {f1}
    Contents = {c1, c2}
    Gone = Gone
    Runs = {r1, r2}
    MaxCommits = 3
INVARIANTS TypeOK NothingSkipped SinkNotBehind
SYMMETRY Symmetry
