SPECIFICATION LoadFairSpec
CONSTANTS
  Ids = {"old", "new", "other"}
  NoId = "none"
  Current <- Redirected
  Playlists <- UpToFour
  Batch = 2
  MaxClaim = 5
  MaxAnswer = 2
INVARIANTS
  OwnData
  NothingMissed
PROPERTY LoadEnds
