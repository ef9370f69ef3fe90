CONSTANTS
  \* DistanceKernels
  Dims = {0, 1, 2, 3, 4, 5, 7, 8, 12, 13, 15, 16, 17, 20, 21, 32, 33, 63, 64, 65, 68, 79, 80, 131}
  Builds = {"none", "sse", "avx", "avx512"}
  Cpus = {"sse", "avx", "avx512"}
  \* Persistence
  Saver = {s1, s2}
  Capacities = {2, 3}
  MaxElements = 2
  MaxLevel = 1
  MaxSaves = 2
  Faults = TRUE
  \* IndexMemory
  Goroutine = {g1, g2}
  Sizes = {0, 1, 2, 3}
  MaxFailures = 2
  Failing = {"constructor", "list", "grow", "shrink", "result", "error"}
  \* FlatBatch
  Dim = 2
  MaxRows = 9
  Lengths = {2}
  MaxTopK = 3
  Count = 2
  Concurrency = {1, 2}
  Overflow = 64

SPECIFICATION BoundarySpec

INVARIANTS
  ReadsInside
  EachCoordinateOnce
  LoadExact
  QuietFileComplete
  NoMemoryErrors
  NothingLeaks
  RowsMatch
  ArraysFit
