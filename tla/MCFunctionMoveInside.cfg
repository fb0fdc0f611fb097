SPECIFICATION Spec
CONSTANTS
  Thread = {t1}
  Var = {v1, v2}
  Obj = {o1, o2}
  MoveFromInside = TRUE
INVARIANT CanaryIsValid
