SPECIFICATION Spec
VIEW ObjectAndFiles
CONSTANTS
    Kinds = {"captures"}
    Tags = {"a", "b"}
    Items <- ListItems
    Globals <- ListGlobals
    ArgLists <- ListArgs
    Paths = {"rec.json"}
    MetaPaths = {}
    ForeignFiles = {}
    MaxLen = 4
    NoStart = NoStart
    NoPath = NoPath
    NoFile = NoFile
    Torn = Torn
INVARIANTS
    TypeOK
    ListsOrdered
PROPERTIES
    StrictCallsAreAtomic
    StrictKeepsLoadable
