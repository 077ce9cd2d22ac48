SPECIFICATION WireSpec
CONSTANTS
  Samples <- WireSamples
  Edits <- MCEdits
  Tweaks <- MCTweaks
  ShortLen = 48
  Behind <- NextWitness
INVARIANTS
  ReadersAgree
  Canonical
  LaterFields
  ViewsAgree
  ViewsDisjoint
  MessageStandsAlone
  WitnessStandsAlone
CHECK_DEADLOCK FALSE
