CONSTANTS
  MaxPid = 4
  RxMax = 1
  Syscalls <- SignalCalls
  Targets = {3}
  Signums = {1, 2}
  Registrations <- MCRegistrations
  StackFrames = 2
  SignalPids = {3}
  ExecPids = {4}
  Commands = {"exec"}
  ChildReturns = FALSE
SPECIFICATION SFairSpec
INVARIANTS
  QueuedOnce
  FramesIntact
  RunsAsItself
PROPERTIES
  SignalKept
  SignalHandled
