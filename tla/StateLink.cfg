SPECIFICATION Spec
CONSTANTS
  s1 = s1
  s2 = s2
  Server = {s1, s2}
  MaxFetches = 2
  Budgets <- BudgetSet
CHECK_DEADLOCK FALSE
INVARIANTS
  EndsAgree
  QuietTabAgrees
  ReloadsFollowRestarts
PROPERTIES
  AttachedIsShown
