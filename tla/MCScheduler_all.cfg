SPECIFICATION Spec
CONSTANTS
  MaxProcesses = 4
  HighestPriority = 1
  Calls <- AllCalls
INVARIANTS
  TypeOK
  
  RunningIsFirst
  IdleNeverRuns
  ZombieIsPending
  ProcessQtyExact
PROPERTIES
  NoOvertaking
CHECK_DEADLOCK FALSE
