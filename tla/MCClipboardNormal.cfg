SPECIFICATION Spec
CONSTANTS
  Item = {"note", "memo"}
  Secret = {}
  Verdicts = {"take"}
  Scripts = {"store"}
  Requests = {"buffer", "copy"}
  FirstRows <- OneRow
  FirstSlot = 1
  None = None
  Calm = TRUE
  Slow = TRUE
  MaxId = 4
  MaxSets = 3
  MaxAsks = 2
  MaxReads = 1
INVARIANT NormalKept
CHECK_DEADLOCK FALSE
