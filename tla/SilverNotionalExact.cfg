SPECIFICATION PipelineSpec
CONSTANTS
    Records <- FewMessages
    Messages <- FewMessages
    History <- MCHistory
    Builders = {s1}
    One = 100
    Lost = 10
    DecimalLimit = 1000
    MillisLimit = 5
    MaxRows = 2
    MaxAttempts = 1
INVARIANTS
    NotionalExact
CHECK_DEADLOCK FALSE
