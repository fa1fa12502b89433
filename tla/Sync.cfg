SPECIFICATION Spec
CONSTANTS
  atHome = atHome
  first = first
  second = second
  Payments <- MCPayments
  Address <- MCAddress
  Block <- MCBlock
  StartCounter = 1
  StartTip = 1
  MaxTip = 3
  MaxCounter = 3
  Margin = 1
  MaxKills = 1
  MaxErrors = 1
  Unsyncable = TRUE
INVARIANTS
  NothingFoundIsLost
  BackupPaymentsShown
  FindsAreDerived
  EveryFindHasAWayBack
PROPERTIES
  OrderStandsUntilDropped
  NothingCoveredIsSkipped
CHECK_DEADLOCK FALSE
