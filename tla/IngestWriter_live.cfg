SPECIFICATION FairSpec
CONSTANTS
  Submission = {1, 3}
  Worker = {w1}
  Rows <- MCRows
  Bytes <- MCBytes
  RowLimits = {2, 3}
  Budget = 0
  GroupBytes = 4
  MaxRequests = 2
  QueueDepth = 1
  JobDepth = 1
  RetryLimit = 2
PROPERTIES
  EverySubmitReturns
  ShutdownCompletes
CHECK_DEADLOCK FALSE
