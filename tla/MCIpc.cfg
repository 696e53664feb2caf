SPECIFICATION Spec
CONSTANTS
  Client = {c1, c2}
  Nobody = Nobody
  Rude = {c1, c2}
  Kinds = {"hello", "change"}
  MaxLine = 2
  MaxPending = 1
  Kernel = 1
  MaxRequests = 2
  MaxPieces = 2
SYMMETRY Symmetry
INVARIANTS TypeOK RepliesInOrder NoGaps
CHECK_DEADLOCK FALSE
