SPECIFICATION FairSpec
CONSTANTS
  Runs = {r1, r2}
  r1 = r1
  r2 = r2
  Questions <- Asked
  Modes = {"serial", "parallel"}
  Attempts = 2
  Threshold = 2
  NoQuestion = NoQuestion
INVARIANTS
  AnswerIsWhole
  OpenIffFailing
  OpenStopsTraffic
PROPERTIES
  RunsEnd
CHECK_DEADLOCK FALSE
