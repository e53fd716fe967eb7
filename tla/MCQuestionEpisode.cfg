SPECIFICATION FairSpec
CONSTANTS
  MaxCalls = 2
  SecondsCap = 28
  ToolCap = 16
  CallSeconds = 14
  CallTools = 6
  ReviewSeconds = 2
  ReviewTools = 2
  MinSeconds = 3
  CallElapsed <- MCCallElapsed
  ReviewElapsed <- MCReviewElapsed
  MaxCrashes = 2
CHECK_DEADLOCK FALSE
INVARIANTS TypeOK ChargesCovered BudgetMissesOnlyPreparation ReviewedWasPaid
PROPERTIES DecisionsStand TransactionSpec TornReadyCompletes
