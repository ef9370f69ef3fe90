CONSTANTS
  Goroutine = {g1, g2}
  Sizes = {0, 2}
  MaxFailures = 2
  Failing = {}

SPECIFICATION Spec

INVARIANTS
  SafeWithoutFailures
