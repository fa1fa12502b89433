SPECIFICATION FairSpec
CONSTANTS
  now = now
  next = next
  dated = dated
  node = node
  other = other
  None = None
  Procs <- MCProcs
  Dated <- MCDated
  MaxKills = 1
  MaxErrors = 2
INVARIANTS
  NodeStaysTogether
  BackupsAreApart
  LibraryKeepsItsFolder
  NextStartContinues
PROPERTIES
  StartIsAnswered
