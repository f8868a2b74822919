SPECIFICATION FairSpec
CONSTANTS
  NCells = 4
  Meshes <- MCMeshSet
  Requests <- MCRequests
INVARIANTS
  Bookkeeping
  GrahamBound
PROPERTIES
  Implements
  Terminates
CHECK_DEADLOCK FALSE
