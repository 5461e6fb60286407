CONSTANTS
  MaxSeqLen = 3
  PageTokens = 2
  KvPages = 4
  DeltaSlots = 3
  MaxId = 3
  MaxRequests = 3
  Prompts = {1}
  Limits = {2}
  MaxResets = 0
  SupportsBatch = TRUE
INIT Init
NEXT Next
INVARIANTS NeverFatal OwnersOfSequences BatchIsSerial
