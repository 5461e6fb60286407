CONSTANTS
  IntBits = 5
  MaxSeqLen = 6
  ContextCap = 5
  MaxTokens = 4
SPECIFICATION Spec
CHECK_DEADLOCK FALSE
INVARIANT LegacyGateExact
