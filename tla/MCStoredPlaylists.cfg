SPECIFICATION Spec
CONSTANTS
  NumLists = 2
  MaxRev = 3
  MaxFaults = 2
INVARIANTS
  CacheMatchesRevision
  Fresh
