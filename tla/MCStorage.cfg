CONSTANTS
    Namespaces = {worker}
    worker = worker
    Clients = {c1, c2}
    MaxKey = 2
    Workloads <- MCWorkloads
    MaxCalls = 3
    PostAttempts = 2
    Processes = {p1, p2}
    Executions = {e1, e2, e3, e4}
    Transport = "stdio"
    Dedicated = TRUE
    MaxEnded = 1
SPECIFICATION MCSpec
SYMMETRY Symmetry
INVARIANT AnswersTrue CleanupOwed
PROPERTY ImplementsStorage LiveKept
CHECK_DEADLOCK FALSE
