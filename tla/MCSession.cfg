SPECIFICATION FairSpec
CONSTANTS
  MaxCalls = 1
  MaxReceived = 4
INVARIANTS
  InSync
  SafeTeardown
PROPERTIES
  ExitReturns
  LookupReturns
CHECK_DEADLOCK FALSE
