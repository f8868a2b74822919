SPECIFICATION FairSpec
CONSTANTS
  NCells = 5
  ReadyFloor = 2
  ReadyCap = 3
  Meshes <- MCMeshSet
  Requests <- MCRequests
INVARIANTS
  Bookkeeping
  KeepsItsPolicy
PROPERTIES
  WindowIsFifo
  Implements
  SameLevelsAsProduction
  Terminates
CHECK_DEADLOCK FALSE
