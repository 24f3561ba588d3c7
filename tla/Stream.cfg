SPECIFICATION FairSpec
CONSTANTS
    Locations <- PlainLocations
    MaxOffset = 3
    MaxStarts = 3
    MaxSignals = 2
INVARIANTS
    StreamInv
    AppendedOnce
    ProgressInTable
    NoStartBeforeSchema
PROPERTIES
    QueryStoppedFirst
    FirstErrorKept
    ShutdownEnds
CHECK_DEADLOCK FALSE
