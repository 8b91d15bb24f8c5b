SPECIFICATION Spec
CONSTANTS
  Parts = {"edits", "view", "bar", "results", "map", "reader", "card", "drill", "save"}
  MaxVersion = 3
  MaxCalls = 2
  Ranges <- MCRanges
  Spans <- MCSpans
  OpenPanels = {a0}
  MaxHistory = 3
  Variables <- MCVariables
  Values = {a0, b0}
  Times = {i0, j0}
  MaxReads = 2
  All = All
  Panels = {i0, j0}
  BusyGroup = 1
  Retries = 1
  Maps <- MCMaps
  Widths = {60, 120}
  Inline = 2
  Charts <- MCCharts
  Interval = 2
  NoTime = NoTime
  NoSpan = NoSpan
  NoPanel = NoPanel
  NoValue = NoValue
  NoLayout = NoLayout
  NoService = NoService
  NoPoint = NoPoint
  NoRange = NoRange
  NoAnswer = NoAnswer
  NoTrace = NoTrace
  a0 = a0
  b0 = b0
  x0 = x0
  y0 = y0
  s0 = s0
  t0 = t0
  b1 = b1
  b2 = b2
  i0 = i0
  j0 = j0
SYMMETRY DashboardsSymmetry
INVARIANTS DashboardIsCurrent PointersHold PanelsTell
PROPERTIES NothingMovesUnasked
CHECK_DEADLOCK FALSE
