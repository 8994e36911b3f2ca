SPECIFICATION FairSpec
CONSTANTS
    Datasets <- OffsetDatasets
    Channels = {1}
    Positions = {2, 3, 4, 5}
    Counts = {1, 2}
INVARIANT
    ReadsActualLocation
CHECK_DEADLOCK FALSE
