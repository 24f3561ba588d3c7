CONSTANTS
    b1 = b1  b2 = b2  e1 = e1  BTC = BTC  ETH = ETH
    Rows <- MCRows
    NullRows <- MCNullRows
    Symbols <- MCSymbols
    SymbolOf <- MCSymbolOf
    Contents <- SmallContents
    Operators = {o1, o2}
    Exclusive = FALSE
    Orphans = TRUE
    MaxSnapshots = 2
    MaxAttempts = 2
    MaxAnomalies = 1
SPECIFICATION Spec
INVARIANT CompleteUnlessRaced
CHECK_DEADLOCK FALSE
