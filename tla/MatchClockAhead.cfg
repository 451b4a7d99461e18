SPECIFICATION Spec
CONSTANTS
  r1 = r1
  Reports <- MCOneReport
  Criteria <- MCCriteria
  Window <- MCWindow
  Expires = 6
  Late = 1
  Retention = 3
  MaxTime = 6
  Scenarios <- MCAhead
INVARIANTS
  NotifiedOnce
CHECK_DEADLOCK FALSE
