SPECIFICATION ScheduleSpec
CONSTANTS
  Problems <- MCProblems
  MaxActive = 2
  WarpLanes = 3
  DrainCap = 2
INVARIANTS
  EveryTileOnce
  DrainSparesRealWork
  KTilesFoldedOnce
  SemaphoreResets
