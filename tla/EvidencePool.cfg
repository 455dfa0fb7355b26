SPECIFICATION PoolSpec
CONSTANTS
  Chunks = {k1, k2, k3, k4}
  k1 = k1
  k2 = k2
  k3 = k3
  k4 = k4
  Documents <- Partition
  TopK = 2
  Candidates = 2
  MaxPerDoc = 1
  Vote <- ReciprocalRank
  Relevance = {1, 2}
  Threshold = 6
  Variants = 1
  MaxRounds = 2
  SubQueries = 2
  Complaints = {m1, m2}
  MaxRetries = 1
  MaxChanges = 1
  NoComplaint = NoComplaint
INVARIANTS
  LiveWhenCited
  TraceAddsUp
  RoundsMakeProgress
  StrongChunkAnswers
  UnanimousOrder
SYMMETRY Interchangeable
CHECK_DEADLOCK FALSE
