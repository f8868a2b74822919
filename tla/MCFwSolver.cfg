SPECIFICATION FwSpec
CONSTANTS
  P = 101
  Matrices <- MCMatrices
  Controls <- MCControls
  Starts <- MCStarts
  Options <- MCOptions
INVARIANTS
  HierarchySound
  ProductCurrent
PROPERTIES
  ImplementsStock
