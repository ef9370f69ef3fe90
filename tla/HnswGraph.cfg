CONSTANTS
  Point <- Plane
  Query <- OnPlane
  MaxElements = 4
  MaxLevel = 1
  M = 2
  EfConstruction = 2
  Ef = 1
  MaxUpdates = 1
  MaxMarks = 1
SPECIFICATION Spec
INVARIANTS GraphSound KnnExact HeuristicExact
CHECK_DEADLOCK FALSE
