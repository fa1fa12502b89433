SPECIFICATION Spec
CONSTANTS
  first = first
  second = second
  Callers <- MCCallers
  MaxCores = 2
SYMMETRY Symmetry
INVARIANTS
  CancelIsItsOwn
  WorksOnTheCurrentCore
  NodeIsOfTheCurrentCore
CHECK_DEADLOCK FALSE
