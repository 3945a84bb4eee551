CONSTANTS
  Tasks = {t1, t2}
  FrameCount = 8
  Entries = 5
  Roots = 2
  Trampoline = 1
  Code = 2
  CodeSize = 1
  Stack = 4
  StackSize = 1
  SignalStack = 6
  SignalStackSize = 1
  KernelBase = 10
  MaxMappings = 4
  Requests <- MCRequests
  Touched <- MCTouched
SYMMETRY TaskSymmetry
SPECIFICATION Spec
CHECK_DEADLOCK FALSE
INVARIANTS
  MappingsApart
  LeavesMapped
  PagesOwned
PROPERTIES
  Isolated
  ForkCopies
