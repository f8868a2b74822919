SPECIFICATION Spec
CONSTANTS
  NCells = 3
  Meshes <- MCMeshSet
INVARIANTS
  WellFormed
  LevelsSeparated
  RefusesExactlyCycles
CHECK_DEADLOCK FALSE
