SPECIFICATION Spec
CONSTANTS
  one = one
  two = two
  Chan <- MCChan
  Owed = 5
  Bumps = 2
  None = None
SYMMETRY Symmetry
INVARIANTS
  NothingIsLeftOut
  TotalIsRight
CHECK_DEADLOCK FALSE
