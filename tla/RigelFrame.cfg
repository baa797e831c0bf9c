SPECIFICATION Spec
CONSTANTS
  ImmBits = 4
  MaxLocals = 3
  MaxLocalsFP = 1
  AllocaSizes = {0, 4, 8}
  CalleeFrame = 8
  PairKinds = {FALSE, TRUE}
  CSRCounts = {0, 1, 2}
INVARIANTS
  TypeOK
  LocalsKeepTheirValues
  RestoresCallerState
  MaskNamesSaves
CHECK_DEADLOCK FALSE
