SPECIFICATION FairSpec
CONSTANTS
  IdBase = 3
  IdLen = 5
  UriBase = 7
  UriLen = 3
  Room = 45
  NameLens = {0, 1, 18, 19, 21, 22, 29, 30}
  Colons = {0, 1, 18}
PROPERTY
  LinkReturns
CHECK_DEADLOCK FALSE
