\* Two input registers, up to two selects in the first block (each reading
\* inputs or earlier selects).
CONSTANTS
  NumIn = 2
  MaxSel = 2

SPECIFICATION Spec

INVARIANTS
  TypeOK
  SuccessorsMatchBranches
  PhisMatchPredecessors
  SelectPreservesBehaviour

\* Emission ends after the third LLVM block.
CHECK_DEADLOCK FALSE
