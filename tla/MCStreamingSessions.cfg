CONSTANTS
    Executions = {e1}
    Processes = {p1, p2}
    Floats = {1, 2}
    Null = Null
    Partitionings <- FloatPartitionings
    MaxChunk = 2
    MaxRows = 3
    MaxRestarts = 1
SPECIFICATION Spec
SYMMETRY Symmetry
INVARIANT TotalsExact
CHECK_DEADLOCK FALSE
