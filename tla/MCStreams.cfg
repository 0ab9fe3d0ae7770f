CONSTANTS
    Substreams = {1, 2}
    Processes = {p1, p2}
    Modes <- MCModes
    MaxPuts = 3
    MaxLosses = 1
    LogMayFail = TRUE
    Transports = {"bytes", "http"}
    NumInputs = 2
    MaxReplies = 3
    MaxRetries = 2
    Nil = Nil
    Given <- MCGiven
    Carried <- MCCarried
    MaxTurns = 3
SPECIFICATION MCSpec
INVARIANT RepliesInOrder CachingPerInput EverySubstreamOnce FlushInOrder FlushCostLinear ParamsSurvive
PROPERTY StreamsEnd
CHECK_DEADLOCK FALSE
