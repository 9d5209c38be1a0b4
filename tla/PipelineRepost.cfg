\* A content whose posts all failed is stepped again.
SPECIFICATION Spec
CONSTANTS
  x = x  weibo = weibo  c1 = c1  c2 = c2  q1 = q1  q2 = q2  q3 = q3  q4 = q4
  Platforms = {x}
  DefaultPlatform = x
  MaxRevisions = 1
  Safety = 10
  Commands = {c1}
  BulkActions = {}
  Outcomes = {"ok", "throw"}
  RowIds = {q1, q2}
  MaxCommands = 2
  MaxFaults = 0
  MaxAttempts = 2
  BaseDelay = 1
  MaxDelay = 2
  None = None  NoContent = NoContent  TornContent = TornContent
INVARIANTS OneRowPerPlatform
CHECK_DEADLOCK FALSE
