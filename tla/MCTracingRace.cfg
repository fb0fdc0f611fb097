SPECIFICATION Spec
CONSTANTS
  r1 = r1
  r2 = r2
  Recorder = {r1, r2}
  BUCKET_COUNT = 1
  Capacity = 1
  BlockSize = 4
  StringSizes = {0}
  WordMod = 16
  HeaderSize = 2
  MaxEvents = 3
  Aftermath = TRUE
PROPERTIES
  BlocksFurtherRecording
CHECK_DEADLOCK FALSE
