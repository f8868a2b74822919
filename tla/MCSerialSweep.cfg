CONSTANTS
  NCells = 18
  Meshes <- MCMeshes
  Matrices <- MCMatrices
  Calls <- MCCalls
  Widths <- MCWidths
SPECIFICATION SerialSpec
INVARIANTS
  InBounds
  SameArithmetic
  ResultInPsi
CHECK_DEADLOCK FALSE
