SPECIFICATION FairSpec
CONSTANTS
  Client = {c1, c2}
  Nobody = Nobody
  Rude = {}
  Kinds = {"hello", "change"}
  MaxLine = 2
  MaxPending = 1
  Kernel = 1
  MaxRequests = 2
  MaxPieces = 1
PROPERTIES Reaped Served
CHECK_DEADLOCK FALSE
