SPECIFICATION Spec
CONSTANTS
  Client = {c1}
  Nobody = Nobody
  Rude = {c1}
  Kinds = {"hello", "change"}
  MaxLine = 2
  MaxPending = 1
  Kernel = 1
  MaxRequests = 2
  MaxPieces = 2
INVARIANT HungUpIsAnswered
CHECK_DEADLOCK FALSE
