SPECIFICATION LiveSpec
CONSTANTS
  atHome = atHome
  first = first
  second = second
  Payments <- MCPayments
  Address <- MCAddress
  Block <- MCBlock
  StartCounter = 1
  StartTip = 3
  MaxTip = 3
  MaxCounter = 2
  Margin = 1
  MaxKills = 1
  MaxErrors = 1
  Unsyncable = TRUE
PROPERTIES
  SyncEnds
  UnusableStateIsReplaced
