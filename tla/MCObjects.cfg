SPECIFICATION ObjectsSpec
CONSTANTS
  Thread = {"t1", "t2"}
  Var = {"v1", "v2"}
  Obj = {"o1", "o2", "o3"}
  MoveFromInside = FALSE
  Objects = {"r", "s", "t"}
  Values = {1, 2}
  Errors = {7}
  EmptyError = 0
  Moved = 99
  Indeterminate = 98
  Places = {201, 202}
  FreeFns = {101, 102}
  Blocks = {301, 302}
  Payloads = {0, 201}
  MemberCode = {20, 24}
  Object = {"o"}
  LargeResult = {"v2"}
  Original = 0
  MaxDepth = 2
  Addresses = {1, 2, 3}
  Capacities = {0, 1, 2}
  Samples = {1}
  MaxChannels = 2
  MaxSamples = 1
  Begin = 100
  Size = 3
  SizeMod = 8
INVARIANTS
  RefCountIsOwners
  DeletedOnce
  CanaryIsValid
  SwapExchanges
  CallsTarget
  CallsDirectly
  DestroysEveryValue
  HoldsWhatWasGiven
  ScopesNest
  OwnsItsArrays
  ShowsItsPart
  CopiesRange
PROPERTIES
  ImplementsValues
CHECK_DEADLOCK FALSE
