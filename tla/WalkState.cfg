SPECIFICATION Spec
CONSTANTS
  Chan <- MCChan
  Fund <- MCFund
  PeerClose <- MCPeerClose
  OtherClose <- MCOtherClose
  Sweep <- MCSweep
  Hint <- MCHint
  Pending <- MCPending
  Mineable <- MCMineable
  Back = 1
  None = None
  StartTip = 2
  MaxTip = 3
  MaxDrops = 2
INVARIANTS
  NoCloseIsMissed
  NothingCollectedTwice
  NoChannelIsForgotten
  OrdinaryReorgIsCheap
