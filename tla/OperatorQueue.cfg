SPECIFICATION FairSpec
CONSTANTS
  Server = {s1}
  Key = {k1, k2}
  QueueCap = 2
  TTL = 1
  MinGap = 1
  MaxRequests = 2
INVARIANTS
  ArrivalOrder
  InjectedOnce
PROPERTIES
  ReservesFresh
  Settles
