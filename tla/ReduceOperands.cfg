SPECIFICATION Spec
CONSTANTS
  WordBits = 6
  SmallBits = 3
  Mantissa <- Reals
  NWords = 2
  Stale = {21}
  Calls <- ReduceCalls
  Buffers <- ReduceBuffers
  MaxCalls = 2
INVARIANTS IntegersCorrect RealCorrect RealSumCorrect LocatedCorrect PackedCorrect
CHECK_DEADLOCK FALSE
