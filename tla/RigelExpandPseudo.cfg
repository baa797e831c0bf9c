\* One block of up to three instructions, 2-bit halves.
SPECIFICATION Spec
CONSTANTS
  ImmBits = 2
  Regs = {0, 1}
  Imms <- MCImms
  ImpChoices <- MCImpChoices
  MaxLen = 3
  NumBlocks = 1
INVARIANTS
  TypeOK
  ExpansionPreservesBehaviour
  FlagsStayConsistent
\* The pass stops after its last block.
CHECK_DEADLOCK FALSE
