SPECIFICATION FairSpec
CONSTANTS
  SPLIT_SIZE = 5
  MY_DEFINE_BUFFER_SIZE = 3
  HeadSize = 1
  Sizes = {2, 3, 5}
  MaxReqs = 4
PROPERTY
  FileReadReturns
