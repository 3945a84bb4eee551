CONSTANTS
  MaxPid = 4
  RxMax = 1
  Syscalls <- AllCalls
  Targets <- MCTargets
  ExecPids = {}
  Commands = {"exec", "settimeout"}
SPECIFICATION Spec
INVARIANTS
  NoTaskLost
  OnlyRunningExecutes
  NoUseAfterFree
  ExecWaitSound
  NoMissedInput
  IInv
PROPERTIES
  ImplementsLifecycle
