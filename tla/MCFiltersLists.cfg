CONSTANTS
    idOptional = idOptional
    idAdded = idAdded
    idRequired = idRequired
    exprX = exprX
    exprY = exprY
    Ids <- MCIds
    Required = {idRequired}
    Exprs = {exprX, exprY}
    Unparseable = {}
    Snapshot <- MCSnapshot
    SnapshotOrder <- MCSnapshotOrder
    MaxUpdates = 2
    MaxRevision = 1
    MaxTicks = 3
    Null = Null
    Values = {0, 1, 2}
    MaxDepth = 4
    MaxPredicates = 2
    Spatial = FALSE
    ListTypes = {"string"}
    Wild = FALSE
SPECIFICATION MCSpec
INVARIANT PruningSound
CHECK_DEADLOCK FALSE
