SPECIFICATION FairSpec
CONSTANTS
  Order <- MCOrder
  Outs <- MCOuts
  Ins <- MCIns
  Worlds <- MCWorlds
  MaxTip = 5
  StartTip = 4
  Chan <- MCChan
  Funding <- MCFunding
  FundScript <- MCFundScript
  ToUsScript <- MCToUs
  Hint <- MCHint
  Branch <- MCBranch
  GapBranch <- MCGapBranch
  Counter <- MCCounter
  Own <- MCOwn
  Gap = 1
  Depth = 6
  From = 3
  Floor = 2
  MaxFalse = 1
INVARIANTS
  OpenIsUnspent
  ClosesAreSeen
  CollectIsThere
  SweepsAreFound
  GapSearchIsComplete
  OwnPaymentsAreSeen
  PaidToIsAFind
PROPERTIES
  SearchEnds
CHECK_DEADLOCK FALSE
