SPECIFICATION Spec
CONSTANTS
  ImmBits = 4
  MaxLocals = 2
  MaxLocalsFP = 2
  AllocaSizes = {0}
  CalleeFrame = 8
  PairKinds = {FALSE}
  CSRCounts = {0}
INVARIANT RestoresCallerState
CHECK_DEADLOCK FALSE
