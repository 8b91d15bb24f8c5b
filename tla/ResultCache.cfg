SPECIFICATION FairSpec
CONSTANTS
  Caller = {c1, c2, c3}
  Refresher = {c3}
  Key = {k1}
  Run = {run1, run2, run3}
  TTLs = {0, 1, 2}
  MaxTime = 1
  None = None
INVARIANTS
  OneRunPerKey
  AbandonedCancelled
  NoCacheFresh
PROPERTIES
  NewerKept
  CallersAnswered
