CONSTANTS
  Thread = {t1, t2, t3}
  MaxElements = 3
  MaxLevel = 0
  M = 2
  EfConstruction = 2
  MaxRows = 4
  MaxUpdates = 1
  MaxMarks = 0
  Reordered = TRUE
SPECIFICATION FairSpec
PROPERTIES RowsFinish
