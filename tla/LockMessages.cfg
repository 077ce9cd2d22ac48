SPECIFICATION LockSpec
CONSTANTS
  Script <- Names
  Seal <- Seals
  Transactions <- MessageTransactions
INVARIANTS
  LockTypeOK
  RelatedActionsChecked
PROPERTY ImplementsLockRules
CHECK_DEADLOCK FALSE
