\* The full and the bounded tick, one status request and one fault, in every
\* order.
SPECIFICATION Spec
CONSTANTS
  MaxChildren = 2
  MaxRequests = 1
  MaxActs = 0
  MaxFaults = 1
CHECK_DEADLOCK FALSE
INVARIANTS
  TypeOK
  Filed
  OneContainer
