SPECIFICATION FairSpec
CONSTANTS
  Byte = {0, 1}
  Cursors <- MCCursors
  Offsets = {0, 1, 4}
  Sizes = {0, 1, 2, 5}
  ArrayLens = {2}
  SourceLens = {0, 5}
  CacheLen = 3
  ChunkLen = 2
INVARIANTS
  TypeOK
  CacheCoherent
  FedFront
PROPERTIES
  ImplementsUncached
  CallsReturn

