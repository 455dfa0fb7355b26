SPECIFICATION FairSpec
CONSTANTS
  NoDoc = NoDoc
  NoMsg = NoMsg
  Calls = {c1, c2}
  Docs = {d1, d2}
  Workers = {w1, w2}
  Cancels = {k1}
  MaxRetries = 2
  Eager = FALSE
  UniqueUploads = TRUE
INVARIANTS
  OneChain
  OutcomeEndsChain
PROPERTIES
  EveryTaskSettles
  ImplementsLifecycle
CHECK_DEADLOCK FALSE
