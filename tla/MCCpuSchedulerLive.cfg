CONSTANTS
  MaxPid = 4
  RxMax = 1
  Syscalls <- LiveCalls
  Targets = {3}
  ExecPids = {4}
  Commands = {"exec", "settimeout"}
SPECIFICATION FairSpec
PROPERTIES
  ReadyRuns
  KilledReaped
  SleepEnds
