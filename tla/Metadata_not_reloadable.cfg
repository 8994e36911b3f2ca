SPECIFICATION Spec
CONSTANTS
    Kinds = {"captures", "annotations"}
    Tags = {"a", "b"}
    Items <- FileItems
    Globals <- FileGlobals
    ArgLists <- TwoLists
    Paths = {"rec.sigmf-meta"}
    MetaPaths = {"rec.sigmf-meta"}
    ForeignFiles = {}
    MaxLen = 2
    NoStart = NoStart
    NoPath = NoPath
    NoFile = NoFile
    Torn = Torn
INVARIANT
    SavedFilesReload
