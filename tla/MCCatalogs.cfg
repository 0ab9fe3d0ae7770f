CONSTANTS
    Attaches = {a1}
    Requests = {r1, r2}
    Paths <- ThePaths
    Names = {x}
    Items = {i1, i2}
    Settings <- TheSettings
    MaxVersion = 4
    WritableCatalogs = {"a", "b"}
    Sessions = {"s1"}
    Serial = TRUE
    MaxRowId = 1
    MaxTables = 2
    Processes = {p1, p2}
    Principals = {"user"}
    Domains = {"jwt", "grant"}
    Offsets = {0, 1}
    Lifetimes = {0, 1, 2}
    Skew = 1
    MaxTime = 3
    MaxHeld = 2
    MaxRestarts = 1
    NoSchema = NoSchema
    MaxRegistrations = 3
SPECIFICATION MCSpec
SYMMETRY Symmetry
INVARIANT CacheSound TreeClosed NotNullHolds NothingOrphaned AttachesLast TicketRestores ResolvesAsListed
CHECK_DEADLOCK FALSE
