CONSTANTS
  Thread = {t1, t2}
  MaxElements = 2
  MaxLevel = 1
  M = 2
  EfConstruction = 2
  MaxRows = 3
  MaxUpdates = 1
  MaxMarks = 0
  Reordered = TRUE
SPECIFICATION Spec
INVARIANTS NeverWild
