CONSTANTS
  MaxSeqLen = 3
  PageTokens = 2
  KvPages = 4
  DeltaSlots = 3
  MaxId = 4
  MaxBatch = 3
  LayerKinds = {"block", "full", "linear"}
  Sequences = {1, 2}
  MaxLen = 4
  Calls = 4
  Dim <- MCDim
SPECIFICATION MCSpec
CHECK_DEADLOCK FALSE
INVARIANTS
  Coherent RowsInParity LoadedIsWhole ScalesOfTheirGroups RowsAreTheirOwn
  StateIsHistory
PROPERTIES ImplementsStore
