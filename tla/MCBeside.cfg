CONSTANTS
  \* VisitedListPool
  Thread = {t1, t2}
  Element = {e1, e2}
  MaxTag = 2
  MaxLost = 1
  \* StopSearch
  Graphs <- MCGraphs
  Owners <- MCOwners
  Conditions <- MCConditions
  Node = {1, 2, 3, 4}
  Dists = {1, 2, 3, 4}
  Doc = {1, 2, 3}
  MaxRefused = 3
  \* Bruteforce
  Label = {1, 2, 3}
  Vector = {1, 2}
  Threads = {1, 2}
  maxelements_ = 2
  MaxLoads = 1

SPECIFICATION MCSpec

INVARIANTS
  ListsExclusive
  VisitedExact
  PoolBounded
  AccountExact
  SearchExact
  KnnNearest
