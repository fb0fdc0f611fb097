SPECIFICATION Spec
CONSTANTS
  s1 = s1
  s2 = s2
  o1 = o1
  f1 = f1
  Signal = {s1, s2}
  Observer = {o1}
  Functor = {f1}
  SlotsOf <- SameSlots
  KeyOrder <- SameKeys
  MaxGeneration <- OneAtMost
  MaxConnections <- TwoAtMost
  MaxDepth = 1
INVARIANT AutomaticDisconnect
CHECK_DEADLOCK FALSE
