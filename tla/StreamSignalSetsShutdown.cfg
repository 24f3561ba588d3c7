SPECIFICATION Spec
CONSTANTS
    Locations <- PlainLocations
    MaxOffset = 1
    MaxStarts = 1
    MaxSignals = 1
PROPERTIES
    SignalSetsShutdown
CHECK_DEADLOCK FALSE
