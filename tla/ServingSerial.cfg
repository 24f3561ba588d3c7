CONSTANTS
    b1 = b1  b2 = b2  e1 = e1  BTC = BTC  ETH = ETH
    Rows <- MCRows
    NullRows <- MCNullRows
    Symbols <- MCSymbols
    SymbolOf <- MCSymbolOf
    Contents <- MCContents
    Operators = {o1}
    Exclusive = TRUE
    Orphans = FALSE
    MaxSnapshots = 2
    MaxAttempts = 3
    MaxAnomalies = 1
SPECIFICATION FairSpec
INVARIANTS TargetIsSnapshot ServingInv
PROPERTIES FailureKeepsTarget PublishedReport CommandEnds PublicationSpec
CHECK_DEADLOCK FALSE
