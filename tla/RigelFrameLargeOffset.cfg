SPECIFICATION Spec
CONSTANTS
  ImmBits = 4
  MaxLocals = 3
  MaxLocalsFP = 3
  AllocaSizes = {4}
  CalleeFrame = 8
  PairKinds = {FALSE}
  CSRCounts = {0}
INVARIANT LocalsKeepTheirValues
CHECK_DEADLOCK FALSE
