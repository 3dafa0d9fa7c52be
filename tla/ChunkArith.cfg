SPECIFICATION Spec
CONSTANTS
    MaxTables = 100
    IntMax = 63
    Totals <- SomeTotals
    Lanes <- AllInts
INVARIANTS
    EveryPairSliced
    AgreesWithBatching
    SlicesInBounds
