SPECIFICATION PipelineSpec
CONSTANTS
    Records <- AllRecords
    Messages <- FewMessages
    History <- MCHistory
    Builders = {s1, s2}
    One = 100
    Lost = 10
    DecimalLimit = 1000
    MillisLimit = 5
    MaxRows = 3
    MaxAttempts = 2
INVARIANTS
    TypeOK
    LabelMeansComplete
    SilverPassesGate
    SilverIsComplete
    NotionalNearest
    PoisonStopsBuilds
    ServedIsPrefix
PROPERTIES
    ServedNeverOlder
SYMMETRY BuilderSymmetry
CHECK_DEADLOCK FALSE
