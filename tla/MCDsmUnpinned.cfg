CONSTANTS
  tileA = tileA
  tileB = tileB
  tileC = tileC
  N = 2
  Tiles = {tileA, tileB, tileC}
  Capacities <- MCCapacities
  Shapes <- MCShapes
  MaxTasks <- MCMaxTasks
SPECIFICATION Spec
CHECK_DEADLOCK FALSE
INVARIANT SourceIsPinned
