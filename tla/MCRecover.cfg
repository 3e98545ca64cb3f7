SPECIFICATION FairSpec
CONSTANTS
  NParts = 2
  DiskSize = 10
  BootBegin <- Begins
  TotalSectors <- Totals
  BLOCK_SIZE = 2
  UnitBlocks = 2
  Slots = 2
  GptSectors = 3
  MaxRun = 3
  SwapSectors = 2
  NoLimit <- Unlimited
  Limits = {1}
  Kinds = {"short", "head", "data", "bits"}
INVARIANTS
  TypeOK
  StaysInside
  NeverMisplaced
  DamagedTouchesNothing
  SuccessMeansRestored
PROPERTY
  RecoverEnds
