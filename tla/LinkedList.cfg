SPECIFICATION Spec
CONSTANTS
  Nodes = {n1, n2, n3}
  NULL = NULL
INVARIANTS
  TypeOK
  LinkedForward
  LinkedBackward
  WalkComplete
PROPERTIES
  ImplementsQueue
  OperationsImplement
