CONSTANTS
  Goroutine = {g1, g2, g3}
  Finalizer = gc
  Sizes = {1, 2}
  Arg = {2}
SPECIFICATION FairSpec
INVARIANTS NoUseAfterFree NeverLeaked
PROPERTIES ImplementsAtomicIndex CallsReturn
