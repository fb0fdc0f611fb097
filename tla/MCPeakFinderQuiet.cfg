SPECIFICATION Spec
CONSTANTS
  PosMod = 16
  W = 1
  ValueMin <- Lowest
  ValueMax = 9
  Value = {0, 1}
  Thresholds = {1}
  StartPos = 0
  MaxSamples = 9
  MaxBlock = 4
INVARIANTS
  LeftMemoryNeverRollsOver
CHECK_DEADLOCK FALSE
