SPECIFICATION Spec
CONSTANTS
  Launches <- MCLaunches
  AbStages = 2
CHECK_DEADLOCK FALSE
INVARIANTS
  ReadsOwnOperands
  ReadsOwnAccumulator
PROPERTIES
  KernelEnds
