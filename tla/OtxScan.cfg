SPECIFICATION Spec
CONSTANTS
  Script = {}
  Seal = {s1}
  MaxWitnesses = 4
  Transactions <- ScanTransactions
INVARIANTS
  TypeOK
  Tiling
  OtxRun
  MergedWindow
  AppendsAuthorised
PROPERTY ImplementsScanRules
CHECK_DEADLOCK FALSE
