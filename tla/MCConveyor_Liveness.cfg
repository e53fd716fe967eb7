\* The ticks alone, one act of the operator and one fault, with fairness.
SPECIFICATION FairSpec
CONSTANTS
  MaxChildren = 2
  MaxRequests = 0
  MaxActs = 1
  MaxFaults = 1
CHECK_DEADLOCK FALSE
PROPERTIES
  NoChildHangs
  WorkGoesOn
