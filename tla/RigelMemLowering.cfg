CONSTANTS
  ByteBits = 2
  LogByteBits = 1
  MemWords = 2
  ByteVals = {1, 2}
SPECIFICATION Spec
INVARIANTS
  LoadReturnsMemoryValue
  AccessesWithinDatumWords
