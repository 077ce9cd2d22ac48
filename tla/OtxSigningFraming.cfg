SPECIFICATION SigningSpec
CONSTANTS
  Resolve <- MCResolve
  Composed <- MCComposed
  Segments <- MCSegments
  ListItems <- MCItems
  Foreign <- MCForeign
  Witnesses <- MCWitnesses
  Messages <- MCMessages
  MaskBytes <- MCMaskBytes
  MaxEdits = 1
  MaxSegments = 2
INVARIANT PreimageInjective
CHECK_DEADLOCK FALSE
