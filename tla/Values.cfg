SPECIFICATION MCSpec
CONSTANTS
    Keys <- GlobalKeys
    Scalars = {"1", "2", "cf32_le", "null"}
    CheckedKeys = {"datatype", "version", "num_channels"}
    RequiredKeys = {"datatype", "version"}
    UncheckedKeys = {"version"}
    Good <- GlobalGood
    Defaults <- GlobalDefaults
    Fallbacks <- GlobalFallbacks
    Pointers <- AllPointers
    Values <- AllValues
    FieldNumbers <- BoundaryNumbers
    NotANumber = NotANumber
    Trillion = 10
    Nothing = Nothing
    Names <- AnyName
    Machines = {"LITTLE", "BIG"}
    DatetimeTexts <- SomeDatetimes
    Digits = 2
    MaxDay = 106751
    Garbage <- SomeGarbage
    MaxDatetimes = 2
    HexTexts <- SomeHex
    ValueBytes = 1
    MaxValues = 2
    GeoNumbers <- SomeCoordinates
    Altitudes = {0, 181}
    NaN = NaN
    Text = Text
    NoAltitude = NoAltitude
    Extras <- SomeExtras
    NotObject <- SomeScalar
    Documents <- SomeDocuments
INVARIANTS
    TypeOK
    VettedKeysPass
    ReloadReadsTheSame
    AcceptedMeetsSchema
    RefusedFailsSchema
    DecodesWhatWasWritten
    SizesAgree
    ParserWithinSchema
    FieldsReadBack
    OrderIsChronological
    HashesCompareAsDigests
    UUIDsCompareAsText
    PointsComeBack
    DocumentsComeBack
CHECK_DEADLOCK FALSE
