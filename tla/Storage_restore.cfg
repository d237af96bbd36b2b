SPECIFICATION StorageSpec
CONSTANTS
  Databases <- DbNames
  Untransferable = {"Launcher"}
  FileOf <- FileNames
  Versions = {1, 2}
  Gone = Gone
  PalmIds = {p1, p2, p3}
  PcIds = {t1, t2}
  NoId = NoId
  Categories = {work}
  NoCategory = NoCategory
  Hashes = {h1}
  NoHash = NoHash
CONSTRAINT PartBound
INVARIANT RestoreDeletesOthers
