SPECIFICATION Spec
CONSTANTS
  MaxProcesses = 4
  HighestPriority = 0
  Calls <- EndCalls

PROPERTIES OnlyTheDeadAreFreed
CHECK_DEADLOCK FALSE
