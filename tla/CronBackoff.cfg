SPECIFICATION BackoffSpec
CONSTANTS
  Attribution = 4
  SeedSkew = 1
  Schedules <- Ladders
INVARIANTS
  JoinCountsPings
  Spaced
CHECK_DEADLOCK FALSE
