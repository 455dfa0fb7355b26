SPECIFICATION Spec
CONSTANTS
  Callers = {h1, h2}
  N = 4
  Unit = 180
  Cases <- MCCases
  Editions = 2
  MaxRuns = 3
SYMMETRY Interchangeable
CHECK_DEADLOCK FALSE
INVARIANTS
  OneSnapshot
  DropIsReported
  PassBound
  JudgeOnlyWhereItJudged
