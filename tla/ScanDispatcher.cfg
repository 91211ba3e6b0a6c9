SPECIFICATION FairSpec
CONSTANTS
  r1 = r1
  r2 = r2
  Rows = {r1, r2}
  Concurrencies = {1, 3}
  MaxConcurrency = 3
  Weights <- HalfQuarters
  MaxFaults = 1
INVARIANTS Capacity OutageNeverBlamed ShutdownReleases
PROPERTIES ShutdownEnds VerificationServed
CHECK_DEADLOCK FALSE
