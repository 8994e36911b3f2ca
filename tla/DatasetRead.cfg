SPECIFICATION FairSpec
CONSTANTS
    Datasets <- AllDatasets
    Channels <- AnyChannel
    Positions <- AnyPosition
    Counts <- AnyCount
INVARIANTS
    TypeOK
    PointerAtSample
    ReturnsRequestedSamples
PROPERTIES
    NoThrowAfterGuards
    CallEnds
    ReadsAtomically
CHECK_DEADLOCK FALSE
