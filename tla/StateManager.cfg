CONSTANTS
  MaxSeqLen = 3
  PageTokens = 2
  KvPages = 3
  DeltaSlots = 2
  MaxId = 3
SPECIFICATION Spec
CHECK_DEADLOCK FALSE
INVARIANTS TypeOK PoolsExact NoAliasing NoLeak Isolation
