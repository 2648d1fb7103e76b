SPECIFICATION Spec
CONSTANTS
  Launches <- MCLaunches
  Threads <- MCThreads
CHECK_DEADLOCK FALSE
INVARIANTS
  SerialOrder
  FoldIsComplete
PROPERTIES
  EveryCallEnds
