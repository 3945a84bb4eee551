CONSTANTS
  PageCount = 5
  PageSize = 4
  MaxOrders = 4
  IntOrders = 2
  FrameArraySize = 1
  Reservations <- MCReservations
  Sizes <- MCSizes
  chunk_sizes <- MCChunks
  MaxOwned = 3
SPECIFICATION DynSpec
INVARIANTS
  BlocksAccounted
PROPERTIES
  ImplementsHeap
