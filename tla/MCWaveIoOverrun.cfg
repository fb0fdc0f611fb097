SPECIFICATION Spec
CONSTANTS
  Formats <- OneFormat
  Source <- Recording
  FullScale = 7
  kMaxBufferSize = 4
  PosMod = 64
  Slot = {1, 2}
  Foreign = FALSE
  WholeReads = FALSE
  MaxRead = 3
  MaxFaults = 0
INVARIANT ReadsIntoTarget
CHECK_DEADLOCK FALSE
