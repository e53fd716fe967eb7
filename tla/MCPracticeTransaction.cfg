SPECIFICATION Spec
CONSTANTS
  Kind <- MCKind
  Calls = "model_calls"
  MaxUsage = 2
INVARIANTS TypeOK SessionSeesWhole CallProjection RefusalIsSound
PROPERTIES UsageNeverDrops LedgerSpec
