CONSTANTS
  Rows = 9
  Concurrency = {0, 1, 2}
  HardwareConcurrency = 0
  MaxFailing = 2
SPECIFICATION FairSpec
INVARIANTS RowsOnce SegmentsPrivate OutcomeExact
PROPERTY BatchReturns
