\* Callers that alloca 8 bytes before calls of up to 9 arguments (one in
\* memory), to fixed-arity callees only.
CONSTANTS
  MaxArgs = 9
  NamedCounts = {}
  MaxLocals = 1
  AllocaSizes = {8}
  AllocaCalls = {"stack"}
  MaxRets = 0
  MaxReturns = 1
  SRetKinds = {FALSE}
SPECIFICATION Spec
INVARIANT ArgsReceivedAsPassed
CHECK_DEADLOCK FALSE
