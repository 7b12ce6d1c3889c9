SPECIFICATION Spec
CONSTANTS
  BlockQty = 3
  BlockSize = 4
  Holders = {h1, h2, h3, h4}
  Sizes <- EdgeSizes
  StateSize = 3
  StrayPointers = {stray}
  NULL = NULL
INVARIANTS
  TypeOK
  BlocksDisjoint
  FreeArrayExact
  AccountingExact
PROPERTIES
  ImplementsAllocator
