CONSTANTS
  BufferSize = 6
  MaxTicks = 1
  Slice = 1
  MaxBurst = 1
  Ids <- MCIds
SPECIFICATION FairSpec
PROPERTIES
  TimeoutFires
