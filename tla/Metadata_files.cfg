SPECIFICATION Spec
VIEW ObjectAndFiles
CONSTANTS
    Kinds = {"captures"}
    Tags = {"a", "b"}
    Items <- FileItems
    Globals <- FileGlobals
    ArgLists <- FileArgs
    Paths = {"rec.sigmf-meta"}
    MetaPaths = {"rec.sigmf-meta"}
    ForeignFiles <- ForeignDocs
    MaxLen = 2
    NoStart = NoStart
    NoPath = NoPath
    NoFile = NoFile
    Torn = Torn
INVARIANTS
    SavedFilesConform
PROPERTIES
    ReloadRestores
