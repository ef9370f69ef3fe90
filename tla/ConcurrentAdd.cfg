CONSTANTS
  Thread = {t1, t2, t3}
  Label = {0, 1, 2}
  Vector = {u, w}
  Capacities = {2}
  MAX_LABEL_OPERATION_LOCKS = 2
SYMMETRY ThreadsAndVectors
SPECIFICATION Spec
INVARIANTS SlotExclusive FreeListAccounted TableSoundBetweenBatches RowsLand
