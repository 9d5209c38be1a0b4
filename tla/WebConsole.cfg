\* One content, one row, the page, another client and two events from outside;
\* or two processes with three commands on the same file, two of them killed.
SPECIFICATION MCSpec
CONSTANTS
  Contents = {a}
  Rows = {q}
  a = a  q = q
  Stages = {"review", "needs_revision", "done"}
  Statuses = {"pending", "failed_dead"}
  Panels = {"contents", "stats"}
  Buttons = {"refresh", "run", "pause"}
  Clients <- MCClients
  MaxEvents = 2
  Absent = Absent  Empty = Empty  Half = Half  None = None
  Procs = {p1, p2}  p1 = p1  p2 = p2
  Window = 1
  MaxTime = 2
  MaxCommands = 3
  MaxFaults = 2
  Nothing = Nothing
INVARIANTS BulkAsReduced LossesHaveACause FeedbackBackedByContent
PROPERTIES PageCatchesUp
CHECK_DEADLOCK FALSE
