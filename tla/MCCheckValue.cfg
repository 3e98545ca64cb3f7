SPECIFICATION Spec
CONSTANTS
  Sector = 2
  Page = 4
  CacheSize = 12
  Val = 1
  Chunk = 8
  Section = 16
  SegNumber = 3
  Big = 24
  PerSector = 8
  MultiPerSector = 16
  Lengths <- SomeLengths
  Faults = {"read", "write", "close"}
INVARIANTS
  TypeOK
  ValidAfterCalculate
  DamageIsDetected
  DataKept
PROPERTY
  HashProgress
