SPECIFICATION AudioFairSpec
CONSTANTS
  Capacity = 2
  MayEnd = TRUE
  Terminates = TRUE
  MaxFaults = 2
INVARIANTS
  BuffersAccounted
PROPERTIES
  StopLosesNothing
  DecoderReturns
  HandlerReturns
  TerminationEnds
CHECK_DEADLOCK FALSE
