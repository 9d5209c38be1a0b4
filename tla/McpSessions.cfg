\* Three requests whose sessions may be given the same identifier.
SPECIFICATION MCSpec
CONSTANTS
  c1 = c1  c2 = c2  c3 = c3  i1 = i1  i2 = i2
  Requests = {c1, c2, c3}
  Ids = {i1, i2}
  None = None
  MaxMessages = 3
  Methods = {"initialize", "navigate", "snapshot", "close"}
INVARIANTS TypeOK StreamsEndOnce TrackedWhileStreaming AnsweredByLine SnapshotsInOrder
PROPERTIES StreamsEnd StopCompletes
