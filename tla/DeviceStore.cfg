SPECIFICATION Spec
CONSTANTS
  Builds = {1, 2}
  Budgets <- MCBudgets
INVARIANTS
  StoredIsKept
  DeletedIsGone
  Readable
CHECK_DEADLOCK FALSE
