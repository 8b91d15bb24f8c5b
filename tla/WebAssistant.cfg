SPECIFICATION Spec
CONSTANTS
  Parts = {"chat", "mcp", "scroll", "fragment", "receipt", "saves", "ledger", "stream", "score",
           "frames", "axes", "marks", "trace"}
  Threads = {i0, j0, t3}
  Stored = {t3}
  MaxLoads = 2
  MaxRuns = 2
  Views = {f1, f2}
  Conns = {c1, c2, c3}
  MaxAcquire = 2
  MaxReconnect = 2
  MaxQuestion = 2
  Fragments = {A, B}
  Alone = {A}
  Choices = {x0, y0}
  Brushed = {b1}
  MaxQueries = 2
  MaxMessages = 3
  PanelIds = {i0, j0}
  Paths = {x0}
  Forms = {x0, y0}
  MaxCalls = 2
  NoThread = NoThread
  NoConn = NoConn
  NoPanel = NoPanel
  NoSpan = NoSpan
  NoProcess = NoProcess
  Stale = Stale
  Unknown = Unknown
  NoJob = NoJob
  NoTool = NoTool
  Rest = Rest
  null = null
  x0 = x0
  y0 = y0
  m0 = m0
  n0 = n0
  A = A
  B = B
  i0 = i0
  j0 = j0
SYMMETRY AssistantSymmetry
INVARIANTS PaneFollowsThread RecordsAreTrue EvaluationIsFair DrawingsHoldTheirFrame
PROPERTIES OnlyTheReaderActs
CHECK_DEADLOCK FALSE
