CONSTANTS
  BufferSize = 8
  MaxTicks = 2
  Slice = 1
  MaxBurst = 2
  Ids <- MCIds
SPECIFICATION CallingSpec
INVARIANTS
  TasksIntact
  TimerArmed
  QueuesOrdered
  ClaimHeld
  OneSlice
PROPERTIES
  TimeoutFires
  UartServed
