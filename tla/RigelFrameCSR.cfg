\* Functions that use one or two callee-saved registers, with at most one
\* local, with and without a frame pointer and calls.
SPECIFICATION Spec
CONSTANTS
  ImmBits = 4
  MaxLocals = 1
  MaxLocalsFP = 1
  AllocaSizes = {0}
  CalleeFrame = 8
  PairKinds = {FALSE}
  CSRCounts = {1, 2}
INVARIANT MaskDescribesSaves
CHECK_DEADLOCK FALSE
