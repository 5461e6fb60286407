CONSTANTS
  MaxSeqLen = 3
  PageTokens = 2
  KvPages = 3
  DeltaSlots = 2
  MaxId = 2
  MaxRequests = 2
  Prompts = {1, 2}
  Limits = {0, 1, 2}
  MaxResets = 1
  SupportsBatch = TRUE
SPECIFICATION Spec
INVARIANTS CommitContract Conservation AdmissionCovers
PROPERTIES RunReturns ImplementsTurns
