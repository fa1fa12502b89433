SPECIFICATION SweepSpec
CONSTANTS
  meant = meant
  other = other
  early = early
  late = late
  Addr <- MCAddr
  Coin <- MCCoin
  Targets <- MCTargets
  Normal = 6
  MaxAnswers = 2
  Nil = Nil
SYMMETRY Symmetry
INVARIANTS
  PlanIsStillGood
  SentWhereAsked
CHECK_DEADLOCK FALSE
