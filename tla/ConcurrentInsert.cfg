CONSTANTS
  Thread = {t1, t2}
  MaxElements = 4
  MaxLevel = 1
  M = 2
  EfConstruction = 2
  MaxRows = 4
  MaxUpdates = 1
  MaxMarks = 1
  Reordered = TRUE
SYMMETRY Threads
SPECIFICATION Spec
INVARIANTS LinksSound EntryAtTop InsertsNeverWild NoDuplicateLinks
