SPECIFICATION Spec
CONSTANTS
  f1 = f1
  q1 = q1
  Failures = {f1, q1}
  Reviewed = {f1}
  Roots <- MCRoots
  Policies <- MCPolicies
  MaxFollowups = 1
  MaxQuestions = 2
  Day = 2
  Week = 5
  MaxNow = 6
  MaxFaults = 1
CHECK_DEADLOCK FALSE
INVARIANTS
  TypeOK
  CapsHold
  LineagesBounded
  WindowIsEarliest
