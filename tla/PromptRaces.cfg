SPECIFICATION SelSpec
CONSTANTS
  Ids = {p1, p2}
  Sessions = {s1, s2}
  NoId = NoId
  Traffic = {0, 60}
  Buckets <- MCBuckets
  Turns = 1
  AtOnce = 2
SYMMETRY Interchangeable
INVARIANTS
  StateMachineOnlyByRace
  ShareIsExact
  LogTellsOneStory
  StatisticsAddUp
PROPERTIES
  HistoryOnlyByRace
