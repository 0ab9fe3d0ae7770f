CONSTANTS
    Null = Null
    Names <- TheNames
    Streams = {1, 2}
    InputRows <- TheRows
    MaxRows = 2
    MaxBatches = 2
    MaxInput = 3
    PageSize = 2
    RowsPerCall = 1
    SourceRows = 3
    StateBytes = 5
    e1 = e1
    e2 = e2
    p1 = p1
    p2 = p2
    SinkThreads = {t1, t2}
    SinkBatches = 2
    AggregateThreads = {r, s, t}
    Root = r
    Groups = {g1, g2}
    Partitions = {d1, d2}
    AggregateRows = 3
    SessionProcesses = {q1, q2}
    MaxChunk = 2
    SessionRows = 3
    MaxRestarts = 1
    Failure = Failure
    MaxThreads = 2
    AggregateValues = {1, 3}
    Weights = {2, Null}
    AxisTypes = {"int64", "utf8", "float64"}
    MaxCells = 4
    ByteBits = 2
    WindowRows = {3}
SPECIFICATION MCSpec
SYMMETRY Symmetry
INVARIANT InOutRowsExact FinalRowsExact FinalizedWhole LeftAtEnd ResultExact CallsServed TotalsExact AggregatesExact
CHECK_DEADLOCK FALSE
