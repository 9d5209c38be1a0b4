\* Two commands on the same content, the web console and the queue worker.
\* Safety is one more than the longest run takes with one revision round.
SPECIFICATION Spec
CONSTANTS
  x = x  weibo = weibo  c1 = c1  c2 = c2  q1 = q1  q2 = q2  q3 = q3  q4 = q4
  Platforms = {x, weibo}
  DefaultPlatform = x
  MaxRevisions = 1
  Safety = 10
  Commands = {c1, c2}
  BulkActions = {"pause", "resume", "retry", "cancel"}
  Outcomes = {"ok", "throw", "lost"}
  RowIds = {q1, q2, q3, q4}
  MaxCommands = 4
  MaxFaults = 2
  MaxAttempts = 2
  BaseDelay = 1
  MaxDelay = 2
  None = None  NoContent = NoContent  TornContent = TornContent
SYMMETRY Symmetry
INVARIANTS TypeOK OnlyReviewedPublished AtMostOncePerPublish FailedPostsQueued DoneForAReason RunsEndByThemselves
CHECK_DEADLOCK FALSE
