SPECIFICATION Spec
CONSTANTS
  m1 = m1
  s1 = s1
  k1 = k1
  k2 = k2
  Req <- MCReq
  KeyReq <- MCKeyReq
  StreamReq <- MCStreamReq
  MaxSaid = 2
  IdSpace = 3
  MaxWire = 2
INVARIANTS
  NoDrift
  RightChannel
  OnlyFailedWritesLeak
PROPERTIES
  ImplementsPipes
CHECK_DEADLOCK FALSE
SYMMETRY KeysAlike
