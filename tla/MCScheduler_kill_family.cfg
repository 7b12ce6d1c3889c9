SPECIFICATION Spec
CONSTANTS
  MaxProcesses = 5
  HighestPriority = 0
  Calls <- KillCalls
INVARIANTS KillSucceeds

CHECK_DEADLOCK FALSE
