SPECIFICATION Spec
CONSTANTS
  s1 = s1
  s2 = s2
  s3 = s3
  p1 = p1
  p2 = p2
  t1 = t1
  t2 = t2
  Sender = {s1, s2, s3}
  Pane = {p1, p2}
  Text = {t1, t2}
  Workloads <- WorkloadSet
  ProbeAttempts = 2
  SubmitSteps = 2
  RetrySteps = 1
  ClearAttempts = 2
  SubmitRetries = 1
  MaxFaults = 2
INVARIANTS
  OwnText
  SubmittedOnce
  WithheldMeansUnsubmitted
  NeverBlind
PROPERTIES
  Delivers
