SPECIFICATION Spec
CONSTANTS
  Plans <- MCShortPlan
  Elapsed <- MCInstant
  Reviews = {}
  MaxCalls = 2
  MaxTools = 1
  MaxNetwork = 0
  MaxCompute = 2
  ModelSeconds = 3
  NetworkSeconds = 2
  LocalSeconds = 1
  MaxEpisodes = 2
  MaxRevision = 1
  MaxCrashes = 1
CHECK_DEADLOCK FALSE
INVARIANTS
  PointerSettled
