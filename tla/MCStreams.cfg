SPECIFICATION StreamsSpec
CONSTANTS
  Value <- MCValue
  Default = "a"
  Capacity = 3
  mSize = 5
  MaxOffset = 60
  MaxDistance = 13
  SizeMod = 8
  Samples = {0, 1, 2, 3}
  ValueMin <- MCValueMin
  mWindowSize = 3
  MaxSamples = 9
  Inputs <- MCInputs
  Divisors <- MCDivisors
  UintMod = 256
  IntMod = 268435456
  TickRates <- MCTickRates
INVARIANTS
  StaysInBounds
  OffsetDeterminesElement
  FindsReferencePeaks
  ReturnsWindowMaximum
  VectorsMatch
  NumbersRound
  TimeFollowsTheRing
PROPERTIES
  ImplementsDeque
CHECK_DEADLOCK FALSE
