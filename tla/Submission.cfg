SPECIFICATION FairSpec
CONSTANTS
  p1 = p1
  p2 = p2
  Passes <- MCPasses
  MaxReports = 2
  Dates <- MCDates
  LeapDay <- MCLeapDay
  LocalMoment <- MCLocalMoment
  None = None
  Thrown = Thrown
  RetentionSec = 4320
  WindowBefore = 30
  WindowAfter = 30
  DefaultRadius = 2
  MaxRadius = 3
  MaxName = 2
  MaxDescription = 2
  MaxPhotos = 2
  MaxEdge = 4
  MaxEncoded = 2
  Scenarios <- MCScenarios
INVARIANTS
  AtMostOneReport
  AcknowledgedUnlessDeleted
  FailedNeverAccepted
PROPERTIES
  Delivered
  OutcomeIsShown
CHECK_DEADLOCK FALSE
