SPECIFICATION MCSpec
CONSTANTS
    Commands = {m1, m2}
    InitialSchemas <- MCSchemas
    MaxAttempts = 3
    MaxForeign = 1
    Passwords = {new, old}
    Unset = unset
    NoAccount = absent
    MaxReaderAttempts = 4
    MaxDrops = 1
    MaxRows = 2
    MaxFiles = 1
    MaxCommits = 3
    MaxInspections = 1
INVARIANTS
    CommandsInv
    ReportIsOwn
    ReportedSchemaStays
    RerunIsNoop
    ProvisionedCanRead
    ListingsCoverTotals
PROPERTIES
    OnlyLegacyMigrates
    AccessKept
CHECK_DEADLOCK FALSE
