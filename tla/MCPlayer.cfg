SPECIFICATION PlayerFairSpec
CONSTANTS
  Tracks <- TwoTracks
  Substream = 1
  PacketLen = 1
  PageLen = 0
  ReadLen = 1
  MaxBytes = 3
  Watermark = 2
  MinBytes = 1
  Prefill = 2
  MaxFaults = 0
  MaxCalls = 2
INVARIANTS
  ByteCountIsExact
  PlayIsClean
PROPERTIES
  CallsReturn
  PlayBegins
CHECK_DEADLOCK FALSE
