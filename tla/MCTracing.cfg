SPECIFICATION FairSpec
CONSTANTS
  r1 = r1
  r2 = r2
  Recorder = {r1, r2}
  BUCKET_COUNT = 2
  Capacity = 3
  BlockSize = 4
  StringSizes = {0, 4}
  WordMod = 16
  HeaderSize = 2
  MaxEvents = 3
  Aftermath = FALSE
INVARIANTS
  BlocksAreExclusive
  DroppedWhenFull
  ReportIsComplete
PROPERTIES
  CallsReturn
CHECK_DEADLOCK FALSE
