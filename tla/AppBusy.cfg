SPECIFICATION Spec
CONSTANTS
  first = first
  second = second
  Callers <- MCCallers
  MaxCores = 2
SYMMETRY Symmetry
INVARIANTS
  BusyMeansRunning
CHECK_DEADLOCK FALSE
