\* Variadic callees whose eight named arguments fill A0..A7, called with
\* one unnamed argument (on the stack past the 32-byte home area).
CONSTANTS
  MaxArgs = 9
  NamedCounts = {8}
  MaxLocals = 1
  AllocaSizes = {0}
  AllocaCalls = {}
  MaxRets = 0
  MaxReturns = 1
  SRetKinds = {FALSE}
SPECIFICATION Spec
INVARIANT ArgsReceivedAsPassed
CHECK_DEADLOCK FALSE
