CONSTANTS
  Configs <- MCConfigs
  KernelGroup = 4
  Rotary <- MCRotary
SPECIFICATION Spec
CHECK_DEADLOCK FALSE
INVARIANT ScaleOfEach128
