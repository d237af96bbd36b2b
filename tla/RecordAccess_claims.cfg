SPECIFICATION Spec
CONSTANTS
    Dbs = {memo, todo}
    NoDb = NoDb
    Ids = {i1, i2}
    NoId = NoId
    Values = {v1}
    NoRec = NoRec
    Handles = {h1, h2}
    NoHandle = NoHandle
    NoList = NoList
    Cached = {}
    DlpErrors = TRUE
SYMMETRY Symmetry
INVARIANTS
    LoadComplete
    CreatedHasId
