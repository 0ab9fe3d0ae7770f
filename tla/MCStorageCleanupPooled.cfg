CONSTANTS
    Processes = {p1, p2}
    Executions = {e1, e2, e3}
    Transport = "stdio"
    Dedicated = FALSE
    MaxEnded = 1
SPECIFICATION Spec
PROPERTY LiveKept
