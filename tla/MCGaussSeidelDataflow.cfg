SPECIFICATION FairSweepSpec
CONSTANTS
  NCells = 3
  SweepCounts = {0, 1, 3}
  Meshes <- MCMeshSet
INVARIANTS
  Overlap
  NeverStuck
PROPERTIES
  SweepsComplete
CHECK_DEADLOCK FALSE
