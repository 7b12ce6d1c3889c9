SPECIFICATION UserSpec
CONSTANTS
  BlockQty = 3
  BlockSize = 4
  Holders = {h1, h2}
  Sizes <- EdgeSizes
  StateSize = 3
  StrayPointers = {stray, NULL}
  NULL = NULL
INVARIANTS BlocksDisjoint
