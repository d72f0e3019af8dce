SPECIFICATION MCSpec
CONSTANTS
  Keys = {k1}
  Envelopes = {e1, e2}
  Consumers = {c1, c2}
  Unkeyed = Unkeyed
  None = None
  Nothing = Nothing
  Tokens = {1}
  Retain = {1}
  MaxBatch = 2
  MaxSignals = 3
  QueueBound = 2
  MaxHistoryFiles = 3
  StartFrom = {"empty", "v1_archived", "v1_prepared"}
  Refused = Refused
  Gone = Gone
  Limit = 2
  Budget = 2
  BodySize <- MCBodySize
  EditedBody = "short"
  Bodies = {"long"}
  Dispositions = {"acted", "ignored"}
  MaxRows = 2
  MaxFile = 2
  Now = 2
  MaxSeq = 2
  MaxRev = 3
  MaxTurns = 2
INVARIANTS
  SourcesHonest
  Reopens
PROPERTIES
  Implements
\* A store whose bounds are used up rests.
CHECK_DEADLOCK FALSE
