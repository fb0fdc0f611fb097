SPECIFICATION FairSpec
CONSTANTS
  Formats <- AllFormats
  Source <- Recording
  FullScale = 7
  kMaxBufferSize = 8
  PosMod = 64
  Slot = {1, 2}
  Foreign = TRUE
  WholeReads = TRUE
  MaxRead = 3
  MaxFaults = 1
INVARIANTS
  OneOwner
  FileHoldsRecording
  HearsRecording
PROPERTIES
  NeverLost
  ReadLoopEnds
CHECK_DEADLOCK FALSE
