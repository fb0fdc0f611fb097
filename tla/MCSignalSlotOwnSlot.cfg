SPECIFICATION Spec
CONSTANTS
  s1 = s1
  s2 = s2
  o1 = o1
  f1 = f1
  Signal = {s1}
  Observer = {o1}
  Functor = {}
  SlotsOf <- OneSignal
  KeyOrder <- OneKey
  MaxGeneration <- OneAtMost
  MaxConnections <- OneAtMost
  MaxDepth = 1
PROPERTY DestructorReturns
CHECK_DEADLOCK FALSE
