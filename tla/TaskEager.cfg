SPECIFICATION Spec
CONSTANTS
  NoDoc = NoDoc
  NoMsg = NoMsg
  Calls = {c1, c2}
  Docs = {d1}
  Workers = {w1}
  Cancels = {k1}
  MaxRetries = 1
  Eager = TRUE
  UniqueUploads = FALSE
INVARIANTS
  StuckOnlyIfLost
SYMMETRY Symmetric
CHECK_DEADLOCK FALSE
