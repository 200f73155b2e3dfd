SPECIFICATION Spec
CONSTANTS
  p1 = p1
  Pane = {p1}
  MaxId = 2
  MaxSockets = 3
  Budgets <- BudgetSet
CHECK_DEADLOCK FALSE
INVARIANTS
  SuspendedIsReleased
  NoStrayProcess
  LiveIsServed
PROPERTIES
  Redials
