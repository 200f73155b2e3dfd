SPECIFICATION RowsSpec
CONSTANTS
  s1 = s1
  s2 = s2
  s3 = s3
  Session = {s1, s2, s3}
  Name = {"a", "b"}
  MaxWindow = 5
  Setups <- SetupSet
CHECK_DEADLOCK FALSE
INVARIANTS
  AskedIsDrawn
  GhostStandsForSomething
PROPERTIES
  RowsSettle
