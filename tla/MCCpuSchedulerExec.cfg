CONSTANTS
  MaxPid = 4
  RxMax = 1
  Syscalls <- ExecCalls
  Targets <- MCTargets
  ExecPids = {3, 4}
  Commands = {"exec", "settimeout"}
SPECIFICATION Spec
PROPERTIES
  ReadyQueueKept
