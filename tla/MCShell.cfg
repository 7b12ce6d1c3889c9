SPECIFICATION ShellSpec
CONSTANTS
  MaxProcesses = 4
  HighestPriority = 0
  Calls <- LifeCalls
PROPERTIES
  CommandEnds
CHECK_DEADLOCK FALSE
