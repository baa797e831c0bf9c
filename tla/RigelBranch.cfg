SPECIFICATION Spec
CONSTANTS
  Targets = {"B1", "B2"}
  LayoutNext = "B1"
  MaxLen = 3
  CondOps = {"BEQ", "BNE", "BGE", "BGT", "BLE", "BLT", "BE", "BNZ"}
INVARIANTS
  TypeOK
  AnalysisDescribesBlock
  EditsPreserveSuccessors
CHECK_DEADLOCK FALSE
