SPECIFICATION LockSpec
CONSTANTS
  Script <- Names
  Seal <- Seals
  Transactions <- ScopeTransactions
INVARIANTS
  AuthorisedInputs
  OneRequirementPerScope
  CoverageGuardRedundant
PROPERTY ImplementsLockRules
CHECK_DEADLOCK FALSE
