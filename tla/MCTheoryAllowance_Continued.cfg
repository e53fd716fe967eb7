SPECIFICATION Spec
CONSTANTS
  BaseCalls = 1
  MaxEvaluations = 1
  Policies <- OneRenewal
  Reviews = {r1}
  Continuations = {2}
  Elsewhere = 0
  MaxCrashes = 1
PROPERTY AllowanceSpec
CHECK_DEADLOCK FALSE
