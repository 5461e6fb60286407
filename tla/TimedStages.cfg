SPECIFICATION LayersSpec
CONSTANTS
  LayerKinds = {"full"}
  Sequences = {1, 2}
  MaxLen = 4
  Calls = 1
  Dim <- MCDim
INVARIANT TimedStagesRecorded
CHECK_DEADLOCK FALSE
