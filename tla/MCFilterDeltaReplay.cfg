CONSTANTS
    a = a
    b = b
    x = x
    y = y
    Ids = {a, b}
    Required = {}
    Exprs = {x, y}
    Unparseable = {y}
    Snapshot <- MCSnapshot
    SnapshotOrder <- MCSnapshotOrder
    MaxUpdates = 2
    MaxRevision = 1
    MaxTicks = 3
SPECIFICATION Spec
INVARIANT
    ReplayAccepts
