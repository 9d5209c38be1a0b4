\* A loop in other hands, with any sequence of start, stop and runOnceAndWait calls;
\* or the daemon: pm2 restarts the daemon after any exit; r2 is for a platform without a channel.
SPECIFICATION MCSpec
CONSTANTS
  d = d  c2 = c2  c3 = c3  pr1 = pr1  r1 = r1  r2 = r2
  Rows = {r1, r2}
  Workers = {d}
  Pruners = {pr1}
  Unroutable = {r2}
  Outcomes = {"ok"}
  Limit = 1
  MaxAttempts = 2
  BaseDelay = 1
  MaxDelay = 2
  MaxTime = 1
  MaxFaults = 1
  MaxSent = 1
  RestartAlways = TRUE
  MayStop = TRUE
  Chains = {d, c2, c3}
  MayThrow = TRUE
  MaxLeftovers = 3
  NoTimer = NoTimer  None = None  Absent = Absent  Torn = Torn  Orphan = Orphan
INVARIANTS ChainsBounded
PROPERTIES NoTickAfterStop KeepsTicking StopsAll DaemonKeepsWorking DaemonAttemptsDueRows
