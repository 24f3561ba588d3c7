SPECIFICATION Spec
CONSTANTS
    Locations <- SlashLocations
    MaxOffset = 1
    MaxStarts = 1
    MaxSignals = 1
INVARIANTS
    HistoricalCheckpointsRejected
CHECK_DEADLOCK FALSE
