SPECIFICATION Spec
CONSTANTS
  s1 = s1
  s2 = s2
  o1 = o1
  f1 = f1
  Signal = {s1, s2}
  Observer = {o1}
  Functor = {f1}
  SlotsOf <- DifferentSlots
  KeyOrder <- DifferentKeys
  MaxGeneration <- Replaced
  MaxConnections <- ThreeAtMost
  MaxDepth = 2
INVARIANTS
  RunningSlotHasObject
  AutomaticDisconnect
  KnownBothWays
PROPERTIES
  DeliversToAllAlive
CHECK_DEADLOCK FALSE
