--------------------------- MODULE MCDeviceStore ---------------------------
(* Four work items and two rows, with the troubles two or three at a time;  *)
(* builds of two schema versions, installed in either order.                *)
EXTENDS DeviceStore

MCBudget(jobs, rowsAllowed, faults, lies, losses, deaths, updates) ==
  [jobs |-> jobs, rows |-> rowsAllowed, faults |-> faults, lies |-> lies,
   losses |-> losses, deaths |-> deaths, updates |-> updates]

MCBudgets ==
  {MCBudget(4, 2, 1, 0, 0, 2, 0), MCBudget(4, 2, 1, 1, 1, 1, 0), MCBudget(3, 2, 1, 0, 0, 1, 2)}
OneFault == {MCBudget(3, 1, 1, 0, 0, 0, 0)}
=============================================================================
