SPECIFICATION FairSpec
CONSTANTS
  None = None
  Batch = {b1, b2}
  Key = {k1, k2}
  Asks <- MCAsks
  Interactive = {r1, r2}
  Slots = 2
  Reserved = 0
  PanelQueue = 1
  Parallel = 2
INVARIANTS
  CapacityKept
  NoIdleWaiter
PROPERTIES
  InteractiveFirst
  ReadsProgress
