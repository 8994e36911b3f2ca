SPECIFICATION MCSpec
CONSTANTS
    Savers = {s1, s2}
    Objects = {"short", "long", "bad"}
    Blocks <- SaveBlocks
    Conforming = {"short"}
    LevelOf <- SaveLevels
    Paths = {"rec.sigmf-meta", "rec.json"}
    MetaPaths = {"rec.sigmf-meta"}
    NoPath = NoPath
    NoFile = NoFile
    Hole = Hole
    Torn = Torn
PROPERTY
    ReturnedSaveIsWritten
