SPECIFICATION FairSpec
CONSTANTS
  r1 = r1
  r2 = r2
  s1 = s1
  s2 = s2
  Reports <- MCReports
  Shards <- MCShards
  SearchArea <- MCSearchArea
  ExpiresAt <- MCExpiresAt
  FirstExpiresAt = 2
  SecondExpiresAt = 1
  Unwritable <- MCUnwritable
  Ring <- MCRing
  MaxRevision = 2
  RotateAt = 1
  DiesAfterIndexPut = FALSE
  Scenarios <- MCScenarios
INVARIANTS
  OnlyReleasedPublished
  OneContentPerKey
  IndexClosed
  StaleIsPending
  SignedAlike
PROPERTIES
  IndexIssuedLater
  PublishesAtomically
  Converges
