\* Calls of 0..10 arguments (two past the eight argument registers), to
\* fixed-arity callees and to variadic callees naming 1..7 of them, with
\* and without locals, frame pointer and calls in the callee.  A caller
\* that allocas 8 bytes makes only calls with every argument in A0..A7;
\* the other calls after an alloca are the violation run
\* RigelArgPassingAlloca.cfg.
CONSTANTS
  MaxArgs = 10
  NamedCounts = {1, 2, 3, 4, 5, 6, 7}
  MaxLocals = 1
  AllocaSizes = {0, 8}
  AllocaCalls = {"regs"}
  MaxRets = 2
  MaxReturns = 2
  SRetKinds = {FALSE, TRUE}
SPECIFICATION Spec
INVARIANTS TypeOK ArgsReceivedAsPassed ResultsReceivedAsReturned
PROPERTIES CalleeWritesOnlyItsFrame
\* A single call is compiled and run to its end; nothing follows.
CHECK_DEADLOCK FALSE
