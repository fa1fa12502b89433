SPECIFICATION HistorySpec
CONSTANTS
  one = one
  two = two
  first = first
  second = second
  Chan <- MCChan
  Swap <- MCSwap
  Bal = 7
  SwapAmt = 5
  SwapFee = 1
  Fee = 2
  Early = 1
  Late = 2
  MaxTxs = 4
SYMMETRY Symmetry
INVARIANTS
  HistoryTypeOK
  AddsUp
PROPERTIES
  PruningChangesNothing
CHECK_DEADLOCK FALSE
