SPECIFICATION Spec
CONSTANTS
  Script <- Scripts
  Seal = {"any"}
  MaxU64 = 3
  MaxU128 = 4
  MaxHeight = 4
  OtherCodes = {"other"}
  Genesis <- MintGenesis
  Inputs <- MintInputs
  Outputs <- MintOutputs
  Witnesses <- BaseWitnesses
INVARIANT MintsAreAppended
CHECK_DEADLOCK FALSE
