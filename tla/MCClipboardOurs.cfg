SPECIFICATION Spec
CONSTANTS
  Item = {"note", "memo"}
  Secret = {}
  Verdicts = {"take"}
  Scripts = {"store"}
  Requests = {"stored"}
  FirstRows <- OneRow
  FirstSlot = 1
  None = None
  Calm = FALSE
  Slow = TRUE
  MaxId = 4
  MaxSets = 3
  MaxAsks = 2
  MaxReads = 1
INVARIANT OursIsCurrent
CHECK_DEADLOCK FALSE
