SPECIFICATION FairMemorySpec
CONSTANTS
  MaxProcesses = 4
  HighestPriority = 1
  Calls <- MemoryCalls
  BLOCK_QTY = 18
  MaxArgs = 1
INVARIANTS
  MemoryTypeOK
  NothingFreedTwice
  StacksDisjoint
PROPERTIES
  OnlyRefusalsLoseStacks
  ImplementsScheduler
  DeadAreFreed
  NoStarvation
CHECK_DEADLOCK FALSE
