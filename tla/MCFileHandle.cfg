SPECIFICATION Spec
CONSTANTS
  Sector = 2
  Page = 4
  CacheSize = 4
  Sizes = {1, 3, 9}
  FileLens = {0, 5}
  MaxOps = 3
  MaxSessions = 2
  ReadAfterWrite = FALSE
INVARIANTS
  TypeOK
  ReadEnds
PROPERTY
  IsByteFile
CHECK_DEADLOCK FALSE
