SPECIFICATION FairSpec
CONSTANTS
  Turns = {t1, t2}
  Workers = {w1, w2}
  Threads = {h1}
  Questions = {q1, Empty}
  q1 = q1
  Prompts = {p1, p2}
  e1 = e1
  p1 = p1
  t1 = t1
  e2 = e2
  Packs = {e1, e2}
  NoEvidence = NoEvidence
  Score <- Scores
  Settings <- Saved
  Sends <- Requests
  Installed <- Start
  Crag = TRUE
  Changes = 1
  Declined = Declined
  Empty = Empty
  Unset = Unset
INVARIANTS
  HistoryIsTrue
  AnswerFitsTurn
  DoneIsStored
  UsageIsExact
PROPERTIES
  TurnsEnd
CHECK_DEADLOCK FALSE
