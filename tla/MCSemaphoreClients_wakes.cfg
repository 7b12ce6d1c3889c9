SPECIFICATION ClientSpec
CONSTANTS
  MaxProcesses = 5
  HighestPriority = 0
  Calls <- ClientCalls
  MaxSemaphores = 2
  Objects = {s1}
  NoObject = NoObject
  InfoAt <- GateBytes
  MaxWaiters = 3
  MaxValue = 2
PROPERTIES PostWakesWaiter
CHECK_DEADLOCK FALSE
