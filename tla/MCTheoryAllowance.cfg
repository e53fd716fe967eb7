SPECIFICATION Spec
CONSTANTS
  BaseCalls = 1
  MaxEvaluations = 2
  Policies <- MCPolicies
  Reviews = {}
  Continuations = {}
  Elsewhere = 1
  MaxCrashes = 1
INVARIANTS TypeOK SnapshotRenewals ChainHolds CallsWithinGrants
CHECK_DEADLOCK FALSE
