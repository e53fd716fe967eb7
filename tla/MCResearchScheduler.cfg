SPECIFICATION FairSpec
CONSTANTS
  Work <- MCWork
  Workers = {w1, w2}
  MaxCrashes = 1
INVARIANTS
  TypeOK
  WithdrawalStops
  NoWorkMonopolizes
PROPERTIES OpenWorkIsServed
