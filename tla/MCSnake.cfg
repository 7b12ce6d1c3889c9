SPECIFICATION Spec
CONSTANTS
  Width = 5
  Height = 3
  DeclaredColumns = 3
  StartHead <- Heads
  RandQty = 3
  pseudoRand <- Numbers
  MaxLen <- Lengths
INVARIANTS
  TypeOK
PROPERTIES
  BodiesKept
  NoTurnBack
  CrashDecides
  FruitFound
CHECK_DEADLOCK FALSE
