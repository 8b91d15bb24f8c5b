SPECIFICATION Spec
CONSTANTS
  Submission = {1, 2, 3}
  Worker = {w1, w2}
  Rows <- MCRows
  Bytes <- MCBytes
  RowLimits = {2, 3}
  Budget = 3
  GroupBytes = 4
  MaxRequests = 2
  QueueDepth = 1
  JobDepth = 1
  RetryLimit = 2
SYMMETRY MCSymmetry
INVARIANTS
  LedgerExact
  OverBudgetIsOneExport
  AcknowledgedIsStored
  DroppedIsNeverWritten
  WrittenOnce
CHECK_DEADLOCK FALSE
