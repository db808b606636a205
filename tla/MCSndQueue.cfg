SPECIFICATION FairSpec
CONSTANTS
  Tracks <- ThreeTracks
  Substream = 2
  PacketLen = 2
  PageLen = 1
  ReadLen = 2
  MaxBytes = 14
  Watermark = 8
  MinBytes = 1
  Prefill = 5
  MaxFaults = 2
INVARIANTS
  ByteCountIsExact
  OneFetchAtATime
  RightKey
  QueueIsGapless
  NullOnlyIfEarly
PROPERTIES
  FetchEnds
  EarlyOnlyIfDue
  LastEndIsTaken
CHECK_DEADLOCK FALSE
