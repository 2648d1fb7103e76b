SPECIFICATION Spec
CONSTANTS
  Launches <- MCLaunches
CHECK_DEADLOCK FALSE
INVARIANTS
  ReadsItsRound
  PeersAreThere
  TargetIsLogit
PROPERTIES
  KernelEnds
