SPECIFICATION FairSpec
CONSTANTS
  NCells = 4
  MaxThreads = 3
  Meshes <- MCMeshSet
  Schedules <- MCSchedules
  Kernels <- MCKernels
INVARIANTS
  NoDataRace
  SweepsAreGaussSeidel
  Disciplined
PROPERTIES
  Implements
  Terminates
CHECK_DEADLOCK FALSE
