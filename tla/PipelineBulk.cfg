\* The web console pauses a content that an operator then steps.
SPECIFICATION Spec
CONSTANTS
  x = x  weibo = weibo  c1 = c1  c2 = c2  q1 = q1  q2 = q2  q3 = q3  q4 = q4
  Platforms = {x}
  DefaultPlatform = x
  MaxRevisions = 1
  Safety = 10
  Commands = {c1}
  BulkActions = {"pause"}
  Outcomes = {"ok", "throw"}
  RowIds = {q1, q2}
  MaxCommands = 2
  MaxFaults = 0
  MaxAttempts = 2
  BaseDelay = 1
  MaxDelay = 2
  None = None  NoContent = NoContent  TornContent = TornContent
PROPERTIES LegalTransitionsOnly
CHECK_DEADLOCK FALSE
