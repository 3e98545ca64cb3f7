SPECIFICATION MCSpec
CONSTANTS
  NParts = 2
  NBlocks = 3
  UnitBlocks = 2
  SplitRecs = 1
  MaxDele = 2
  Faults <- AllFaults
INVARIANTS
  TypeOK
  ReadsBackInOrder
  CompleteMeansCovered
  SuccessMeansValid
  AbortCleansUp
  ScanLeavesNoUnfinished
  IInv
  CompleteMeansDurable
PROPERTIES
  ScanCanResume
  BackupEnds
