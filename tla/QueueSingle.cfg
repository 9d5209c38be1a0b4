\* One worker and a concurrent prune, with crashes and lost answers.
SPECIFICATION Spec
CONSTANTS
  r1 = r1  r2 = r2  w1 = w1  w2 = w2  pr1 = pr1
  Rows = {r1, r2}
  Workers = {w1}
  Pruners = {pr1}
  Unroutable = {}
  Outcomes = {"ok", "throw", "lost", "failed_record"}
  Limit = 1
  MaxAttempts = 2
  BaseDelay = 1
  MaxDelay = 2
  MaxTime = 2
  MaxFaults = 2
  MaxSent = 4
  None = None  Absent = Absent  Torn = Torn  Orphan = Orphan
SYMMETRY RowSymmetry
INVARIANTS TypeOK RowsConsistent AtMostOncePerFault RowsSurvive PostedWasPublished
PROPERTIES PublishesOnlyDueRows LifecycleSpec
