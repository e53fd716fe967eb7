SPECIFICATION FairSpec
CONSTANTS
  Plans <- MCPlans
  Elapsed <- MCElapsed
  Reviews = {r1, r2}
  MaxCalls = 4
  MaxTools = 2
  MaxNetwork = 1
  MaxCompute = 4
  ModelSeconds = 3
  NetworkSeconds = 2
  LocalSeconds = 1
  MaxEpisodes = 1
  MaxRevision = 0
  MaxCrashes = 2
CHECK_DEADLOCK FALSE
INVARIANTS
  TypeOK
  ChargesCovered
  NeverRunTwice
  WokenOnce
PROPERTIES Settles
