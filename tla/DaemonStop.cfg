\* A signal in the middle of a run.
SPECIFICATION DaemonSpec
CONSTANTS
  d = d  pr1 = pr1  r1 = r1  r2 = r2
  Rows = {r1, r2}
  Workers = {d}
  Pruners = {}
  Unroutable = {}
  Outcomes = {"ok", "throw"}
  Limit = 0
  MaxAttempts = 2
  BaseDelay = 1
  MaxDelay = 2
  MaxTime = 0
  MaxFaults = 0
  MaxSent = 3
  RestartAlways = FALSE
  MayStop = TRUE
  Chains = {d}
  MayThrow = TRUE
  MaxLeftovers = 0
  NoTimer = NoTimer  None = None  Absent = Absent  Torn = Torn  Orphan = Orphan
INVARIANTS GracefulStop
