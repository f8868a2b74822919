SPECIFICATION PluginSpec
CONSTANTS
  P = 101
  FineAddressings <- MCFine
  CoarseAddressings <- MCCoarse
  Patterns <- MCPatterns
  Controls <- MCControls
  MaxSmooths = 2
  MaxSweeps = 2
  MaxDegree = 6
INVARIANTS
  SchedulesCurrent
PROPERTIES
  SmoothsLikeGaussSeidel
