SPECIFICATION JourneyFairSpec
CONSTANTS
  d1 = d1
  d2 = d2
  f1 = f1
  f2 = f2
  Devices <- MCDevices
  Keys = {1, 2}
  PageSize = 1
  Fetches <- MCFetches
  MaxStops = 1
  Places <- MCPlaces
  Metric <- MCMetric
  Cells <- MCCells
  CellOf <- MCCellOf
  CentreOf <- MCCellOf
  Circumradius <- MCCircumradius
  ShardCellOf <- MCCellOf
  RegionOf <- MCCellOf
  MatchRadius = 4
  MatchWindow = 2
  Times = {0, 1, 2, 3}
  Initial <- MCInitial
  Patches <- MCPatches
  Tolerance = 1
  MaxEdits = 3
  Modes = {"tips", "edits", "sends", "page"}
  Tabs = {1, 2}
  Senders <- MCSenders
INVARIANTS
  OneTipEach
  NothingSkipped
  HeldIsNeverRead
  
  ToldTheTruth
PROPERTIES
  EveryTipIsRead
CHECK_DEADLOCK FALSE
