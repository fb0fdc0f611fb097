SPECIFICATION FairSpec
CONSTANTS
  a = a
  b = b
  Value <- MCValue
  Default = a
  Capacity = 2
INVARIANTS
  TypeOK
  NoDataRace
  AssertionsHold
  GottenRefStaysValid
PROPERTIES
  ImplementsFifo
  CallsComplete
