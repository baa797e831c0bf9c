\* A callee that returns a struct through a hidden pointer (its only
\* argument) from one or two return statements.
CONSTANTS
  MaxArgs = 1
  NamedCounts = {}
  MaxLocals = 0
  AllocaSizes = {0}
  AllocaCalls = {}
  MaxRets = 0
  MaxReturns = 2
  SRetKinds = {TRUE}
SPECIFICATION Spec
INVARIANT ReturnRegsLiveOut
CHECK_DEADLOCK FALSE
