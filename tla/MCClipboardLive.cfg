SPECIFICATION FairSpec
CONSTANTS
  Item = {"note", "key"}
  Secret = {"key"}
  Verdicts = {"take"}
  Scripts = {"store"}
  Requests = {"stored", "buffer", "copy", "delete"}
  FirstRows <- OneRow
  FirstSlot = 1
  None = None
  Calm = FALSE
  Slow = FALSE
  MaxId = 4
  MaxSets = 2
  MaxAsks = 1
  MaxReads = 2
PROPERTIES RestoreComes CaptureSettles KeepAliveWorks
CHECK_DEADLOCK FALSE
