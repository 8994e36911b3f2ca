SPECIFICATION Spec
CONSTANTS
    INT64_MAX = 7
    Files <- SomeFiles
    Counts <- SomeCounts
    Annotations <- SomeAnnotations
INVARIANTS
    TypeOK
    AcceptedNeverOverflows
    AcceptedInRange
CHECK_DEADLOCK FALSE
