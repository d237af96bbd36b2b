SPECIFICATION Spec
CONSTANTS
    Dbs = {memo, todo}
    NoDb = NoDb
    Ids = {i1, i2}
    NoId = NoId
    Values = {v1, v2}
    NoRec = NoRec
    Handles = {h1, h2}
    NoHandle = NoHandle
    NoList = NoList
    Cached = {todo}
    DlpErrors = TRUE
SYMMETRY Symmetry
INVARIANTS
    WriteHandleRight
    LoadHonest
    CacheCoherent
    WipeHonest
