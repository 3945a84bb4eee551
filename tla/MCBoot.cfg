CONSTANTS
  PageCount = 24
  PageSize = 4
  MaxOrders = 3
  IntOrders = 4
  FrameArraySize = 3
  Reservations = {}
  Sizes <- MCSizes
  CellBase = 128
  HeaderSize = 2
  VirtualBase = 192
  Boards <- MCBoards
  MaxReserved = 5
  Entries = 4
  RootEntries = 8
  KernelBase = 64
SPECIFICATION KernelSpec
INVARIANTS
  BlocksPartition
  BuddiesMerged
  ReservedKept
  TreeRead
  RamdiskRead
  KernelMapped
  TablesOwned
