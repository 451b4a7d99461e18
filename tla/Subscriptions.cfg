SPECIFICATION Spec
CONSTANTS
  Positions = {0, 4}
  VisitPlaces = {0}
  Radius = 1
  MinDuration = 1
  MergeGap = 1
  Retention = 1
  MaxTime = 2
  MaxFixes = 4
  MaxEvents = 1
  ShardSize = 4
  RegionSize = 2
  Res5Cap = 3
  Places <- MCPlaces
  Metric <- MCMetric
  Cells <- MCCells
  CellOf <- MCCellOf
  CentreOf <- MCCentreOf
  Circumradius <- MCCircumradius
  ShardCellOf <- MCShardCellOf
  RegionOf <- MCRegionOf
  Reports <- MCReports
  MatchRadius = 2
  MatchWindow = 1
INVARIANTS
  SameAsAtOnce
  NoFixSkipped
  FollowsHistory
  EvidenceIsFollowed
PROPERTIES
  ClearOfVisits
CHECK_DEADLOCK FALSE
