SPECIFICATION SemSpec
SYMMETRY ObjectSymmetry
CONSTANTS
  MaxProcesses = 3
  HighestPriority = 0
  Calls <- SemCalls
  MaxSemaphores = 4
  Objects = {s1, s2}
  NoObject = NoObject
  InfoAt <- IdleBytes
  MaxWaiters = 2
  MaxValue = 2
INVARIANTS
  
  
  
  RunningIsFirst

  
CHECK_DEADLOCK FALSE
