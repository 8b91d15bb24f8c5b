SPECIFICATION FairSpec
CONSTANTS
  Span = {1, 3}
  Minute <- MCMinute
  Parent <- MCParent
  NoSpan = NoSpan
  Chunk = 2
  Gap = 1
  SubWindow = 1
  MaxStamp = 3
  MaxCrashes = 1
INVARIANTS ServiceComplete EdgesComplete
PROPERTIES RollupsCatchUp
