\* systemd restarts the daemon on failure only.
SPECIFICATION DaemonSpec
CONSTANTS
  d = d  pr1 = pr1  r1 = r1  r2 = r2
  Rows = {r1, r2}
  Workers = {d}
  Pruners = {pr1}
  Unroutable = {}
  Outcomes = {"ok", "throw"}
  Limit = 0
  MaxAttempts = 1
  BaseDelay = 1
  MaxDelay = 2
  MaxTime = 1
  MaxFaults = 0
  MaxSent = 2
  RestartAlways = FALSE
  MayStop = FALSE
  Chains = {d}
  MayThrow = TRUE
  MaxLeftovers = 0
  NoTimer = NoTimer  None = None  Absent = Absent  Torn = Torn  Orphan = Orphan
PROPERTIES DaemonKeepsWorking
