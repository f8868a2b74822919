SPECIFICATION SolverSpec
CONSTANTS
  P = 101
  Matrices <- MCMatrices
  Controls <- MCControls
  Starts <- MCStarts
INVARIANTS
  LevelsSound
  Galerkin
  SolverSound
  KernelsExact
PROPERTIES
  CycleCorrects
