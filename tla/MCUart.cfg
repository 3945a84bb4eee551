CONSTANTS
  RingSize = 3
  Threads <- MCThreads
  Processes <- MCProcesses
  Texts <- MCTexts
  DebugTexts <- MCDebug
  Inputs <- MCInputs
SPECIFICATION Spec
INVARIANTS
  OutputArmed
  WritersWaitForRoom
PROPERTIES
  BytesOrdered
