SPECIFICATION SnapshotSpec
CONSTANTS
    EntityIDs = {e1, e2}
    RelationshipIDs = {r1}
    Snapshotters = {s1}
    NoSnapshot = NoSnapshot
    MaxSnapshots = 2
    Second = 4
    Units = {1, 2, 4}
    MaxTime = 4
    MaxLog = 3
INVARIANT SnapshotsAccelerate
