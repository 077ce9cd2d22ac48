SPECIFICATION PlanSpec
CONSTANTS
  Script <- Names
  Seal <- Seals
  Transactions <- PlanTransactions
INVARIANTS
  PlanTypeOK
  MessagesChecked
  QueriesAgree
  CanonicalOrder
PROPERTY ImplementsTypeRules
CHECK_DEADLOCK FALSE
