SPECIFICATION Spec
CONSTANTS
  NParts = 2
  NBlocks = 2
  UnitBlocks = 1
  SplitRecs = 1
  MaxDele = 3
  Faults = {}
INVARIANT
  FailedBackupLeavesNothing
