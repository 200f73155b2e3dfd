SPECIFICATION Spec
CONSTANTS
  e1 = e1
  e2 = e2
  p1 = p1
  p2 = p2
  d1 = d1
  Entry = {e1, e2}
  Invoker = {p1, p2}
  Editor = {d1}
  HoldWindow = 2
  RateWindow = 2
  EditBudget = 1
  Setups <- Installations
INVARIANTS
  RestartWorstCase
  RateBound
  WakePerEdge
PROPERTIES
  HeldRecomputes
  ExpiryHasGrounds
  EditVisible
