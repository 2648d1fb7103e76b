SPECIFICATION Spec
CONSTANTS
  Setups <- MCSetups
  EpochMod = 32
CHECK_DEADLOCK FALSE
INVARIANTS
  EpochIsStable
  GatheredStays
  ReadsItsOwnCall
PROPERTIES
  EveryCallEnds
