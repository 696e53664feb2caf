SPECIFICATION Spec
CONSTANTS
  Item = {"note", "key"}
  Secret = {"key"}
  Verdicts = {"take", "leave"}
  Scripts = {"store", "skip", "rewrite"}
  Requests = {"stored", "plain", "edited", "joined", "buffer", "copy", "pause", "delete", "create"}
  FirstRows <- OneRow
  FirstSlot = 1
  None = None
  Calm = FALSE
  Slow = TRUE
  MaxId = 4
  MaxSets = 2
  MaxAsks = 2
  MaxReads = 2
INVARIANTS TypeOK SourcesSettle CaptureIsOfBoard CurrentNamesBoard
PROPERTIES KeepAliveHonest
CHECK_DEADLOCK FALSE
