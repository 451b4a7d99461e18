SPECIFICATION FairSpec
CONSTANTS
  r1 = r1
  Reports <- MCOneReport
  Criteria <- MCCriteria
  Window <- MCWindow
  Expires = 5
  Late = 1
  Retention = 3
  MaxTime = 5
  Scenarios <- MCScenarios
INVARIANTS
  AtMostOneMatch
  MatchHasReport
  NoFixLeftBehind
PROPERTIES
  EvidenceIsMatched
CHECK_DEADLOCK FALSE
