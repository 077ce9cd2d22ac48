SPECIFICATION Spec
CONSTANTS
  Script <- Scripts
  Seal = {"any"}
  MaxU64 = 3
  MaxU128 = 4
  MaxHeight = 4
  OtherCodes = {"other"}
  Genesis <- MintGenesis
  Inputs <- MintInputs
  Outputs <- MintOutputs
  Witnesses <- MintWitnesses
INVARIANTS
  SupplyCapped
  SerialsServed
PROPERTIES
  MintedOnce
CHECK_DEADLOCK FALSE
