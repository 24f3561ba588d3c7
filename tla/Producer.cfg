CONSTANTS
    InitialDelay = 5
    MaxDelay = 15
    BufferSize = 2
    MaxConnects = 3
    MaxTrades = 2
    MaxCopies = 2
    MaxSigterms = 2
    MaxSigints = 1
SPECIFICATION FairSpec
INVARIANTS ProducerInv LogInOrder NoGapInSession AckedInLog
    BackoffFollowsLosses NothingHalfPublished SigtermExitDrained
PROPERTIES FailureIsFinal SigtermEnds
CHECK_DEADLOCK FALSE
