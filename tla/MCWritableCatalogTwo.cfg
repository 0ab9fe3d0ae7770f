CONSTANTS
    Catalogs = {"a", "b"}
    Sessions = {"s1"}
    Serial = TRUE
    MaxRowId = 1
    MaxTables = 2
SPECIFICATION Spec
INVARIANT WritesOwnCatalog
