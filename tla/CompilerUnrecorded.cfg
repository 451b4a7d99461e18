SPECIFICATION Spec
CONSTANTS
  r1 = r1
  r2 = r2
  s1 = s1
  s2 = s2
  Reports <- MCReports
  Shards <- MCShards
  SearchArea <- MCSearchArea
  ExpiresAt <- MCExpiresAt
  FirstExpiresAt = 9
  SecondExpiresAt = 2
  Unwritable <- MCUnwritable
  Ring <- MCRing
  MaxRevision = 1
  RotateAt = 9
  DiesAfterIndexPut = TRUE
  Scenarios <- MCBothReports
INVARIANTS
  IndexClosed
