SPECIFICATION Spec
CONSTANTS
  Builds = {1, 2}
  Budgets <- OneFault
INVARIANT ClosedIsNotUsed
CHECK_DEADLOCK FALSE
