SPECIFICATION Spec
CONSTANTS
  Script <- Scripts
  Seal = {"any"}
  MaxU64 = 2
  MaxU128 = 3
  MaxHeight = 2
  Genesis <- OrderGenesis
  Inputs <- OrderInputs
  Outputs <- OrderOutputs
  Witnesses <- OrderWitnesses
INVARIANTS
  OwnersPaid
  EscrowHeld
PROPERTIES
  SupplyConserved
CHECK_DEADLOCK FALSE
