\* Two workers overlap: a terminal row comes back.
SPECIFICATION Spec
CONSTANTS
  r1 = r1  r2 = r2  w1 = w1  w2 = w2  pr1 = pr1
  Rows = {r1}
  Workers = {w1, w2}
  Pruners = {}
  Unroutable = {}
  Outcomes = {"ok", "throw"}
  Limit = 0
  MaxAttempts = 2
  BaseDelay = 1
  MaxDelay = 2
  MaxTime = 0
  MaxFaults = 0
  MaxSent = 2
  None = None  Absent = Absent  Torn = Torn  Orphan = Orphan
PROPERTIES TerminalRowsFinal
