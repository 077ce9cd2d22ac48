SPECIFICATION WireSpec
CONSTANTS
  Samples <- WitnessSamples
  Edits <- MCEdits
  Tweaks <- MCTweaks
  ShortLen = 48
  Behind <- NextWitness
INVARIANT
  ReservedLayoutParses
CHECK_DEADLOCK FALSE
