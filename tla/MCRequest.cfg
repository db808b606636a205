SPECIFICATION FairSpec
CONSTANTS
  Kind <- MCKind
  Header = 2
  Deadlines = {TRUE, FALSE}
  MaxPacket = 2
  MaxTotal = 3
INVARIANTS
  OwnAnswer
  ResponseAlive
PROPERTY CallReturns
CHECK_DEADLOCK FALSE
