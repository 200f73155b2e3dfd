SPECIFICATION RowsSpec
CONSTANTS
  s1 = s1
  s2 = s2
  s3 = s3
  Session = {s1, s2, s3}
  Name = {"a", "b"}
  MaxWindow = 5
  Setups <- DialogSetupSet
CHECK_DEADLOCK FALSE
PROPERTIES
  FailureRestores
