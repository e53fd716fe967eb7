SPECIFICATION Spec
CONSTANTS
  Reviewers = {alice, bob}
  MaxQuestions = 2
  Lease = 2
  MaxNow = 3
  MaxCrashes = 2
CHECK_DEADLOCK FALSE
INVARIANTS
  TypeOK
  OneDecisionPerItem
  ReviewWasIntended
