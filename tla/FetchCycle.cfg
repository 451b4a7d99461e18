SPECIFICATION FairSpec
CONSTANTS
  r1 = r1
  r2 = r2
  s1 = s1
  s2 = s2
  s3 = s3
  Reports <- MCReports
  Shards <- MCShards
  SearchArea <- MCSearchArea
  CoverRank <- MCCoverRank
  Unreadable <- MCUnreadable
  MaxRevision = 2
  MaxEditions = 3
  Slots = 1
  Scenarios <- MCScenarios
INVARIANTS
  NoRollback
  RemovedHasEnded
  CachedIsHeld
  HeldIsStored
PROPERTIES
  CatchesUp
CHECK_DEADLOCK FALSE
