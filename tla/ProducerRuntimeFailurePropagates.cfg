CONSTANTS
    InitialDelay = 5
    MaxDelay = 15
    BufferSize = 2
    MaxConnects = 1
    MaxTrades = 2
    MaxCopies = 2
    MaxSigterms = 2
    MaxSigints = 1
SPECIFICATION Spec
INVARIANTS RuntimeFailurePropagates
CHECK_DEADLOCK FALSE
