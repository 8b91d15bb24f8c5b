SPECIFICATION Spec
CONSTANTS
  Parts = {"gate", "settings", "alerts", "explore", "search", "builder", "text", "replay", "video", "clip", "upload"}
  Accounts = {a0, b0}
  MaxWire = 3
  Agents = {a0}
  MaxTokens = 2
  Endpoints <- MCEndpoints
  Rules = {r1}
  Contents = {e0}
  MaxRev = 2
  MaxTests = 2
  MaxWrites = 2
  Queries = {q1, q2}
  Long = {q2}
  Statements = {s1}
  Windows = {x0, y0}
  Filters = {a0, b0, none}
  NoFilters = none
  Fields = {x0, y0}
  Texts <- MCTexts
  Reports <- MCReports
  MaxBatch = 2
  MaxEchoes = 3
  MaxCalls = 2
  a0 = a0
  b0 = b0
  c0 = c0
  x0 = x0
  y0 = y0
  Final = Final
  Spaces = Spaces
  New = New
  NoAgent = NoAgent
  NoData = NoData
  NoFilter = NoFilter
  NoAlerts = NoAlerts
  NoOne = NoOne
  NoRule = NoRule
  NoSpan = NoSpan
  NoText = NoText
SYMMETRY PagesSymmetry
INVARIANTS PageAgreesWithServer PageAgreesWithAddress EditorKeepsText MediaIsHonest
PROPERTIES EntriesStand
CHECK_DEADLOCK FALSE
