SPECIFICATION Spec
CONSTANTS
  Machines <- MCMachines
  Beyond <- MCBeyond
  Fine = 2
  Coarse = 4
  Cluster = 4
  Rear = 3
  Spare = 6
  NearGap = 3
  Shift = 4
  Wrap = 256
  NewKey = "random"
  SizeSlack = 3
  SysSlack = 2
  Extra = 4
  MinNewDisk = 10
  MaxRounds = 2
INVARIANTS
  OtherDiskIsNotTheImages
