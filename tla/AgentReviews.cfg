SPECIFICATION ReviewSpec
CONSTANTS
  Runs = {r1, r2}
  Threads = {t1}
  Reviewers = {q1, q2}
  Kinds = {"ticket", "unsure", "doubtful"}
  Ingests = 1
  Deaths = TRUE
  NoRun = NoRun
  NoThread = NoThread
INVARIANTS
  OneTimeline
  CaseFollowsRun
  CheckpointsAreOwn
SYMMETRY Interchangeable
CHECK_DEADLOCK FALSE
