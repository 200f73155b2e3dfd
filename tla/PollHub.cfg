SPECIFICATION FairSpec
CONSTANTS
  s1 = s1
  Server = {s1}
  Client = {c1}
  Concurrency = 2
  Slot = {k1, k2}
  Setups <- Surroundings
INVARIANTS
  SingleFlight
PROPERTIES
  ViewAdvances
  CatchesUp
  GoneIsReported
