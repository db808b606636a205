SPECIFICATION FairSpec
CONSTANTS
  Tracks <- ThreeTracks
  Substream = 2
  PacketLen = 2
  PageLen = 1
  ReadLen = 2
  MaxBytes = 14
  Watermark = 8
  MinBytes = 1
  Prefill = 5
  MaxFaults = 0
INVARIANT ZeroBytesMeansEof
CHECK_DEADLOCK FALSE
