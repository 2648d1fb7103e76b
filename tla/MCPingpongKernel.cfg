SPECIFICATION Spec
CONSTANTS
  Launches <- MCLaunches
  AbStages = 2
CHECK_DEADLOCK FALSE
INVARIANTS
  ReadsOwnTile
  TakeTurns
  StoreBufferFree
  TilesOnce
PROPERTIES
  KernelEnds
