SPECIFICATION Spec
CONSTANTS
  MaxRestores = 3
  MaxErrors = 2
INVARIANTS
  LooksRestoredIsWhole
  NoWalletIsLost
  MarkedIsSafe
PROPERTIES
  FolderStaysWhileBound
  RestoresAsPromised
