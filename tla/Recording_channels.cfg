SPECIFICATION RecordingSpec
VIEW ObjectFilesAndData
CONSTRAINT Small
CONSTANTS
    Kinds = {"captures", "annotations"}
    Tags <- RecordingTags
    Items <- RecordingItems
    Globals <- RecordingGlobals
    ArgLists <- Unsorted
    Paths = {"rec.sigmf-meta"}
    MetaPaths = {"rec.sigmf-meta"}
    ForeignFiles <- RecordingDocs
    MaxLen = 2
    NoStart = NoStart
    NoPath = NoPath
    NoFile = NoFile
    Torn = Torn
    DataFiles <- RecordingFiles
    NoCount = NoCount
INVARIANT
    AnnotationReadsRestOnAnyChannel
