SPECIFICATION Spec
CONSTANTS
    MIN_SOURCES = 2
    Pools <- SomePools
    SCALE = 100
    PER_UNIT = 10
    Infinity = 30000
    None = None
    MaxTrades = 2
INVARIANTS
    AggregationTypeOK
    TornReadsAreContained
    InfinityIsOutvoted
    AgreementIsSubmitted
