SPECIFICATION GatewaySpec
CONSTANTS
  Processes = {p1, p2}
  Texts = {"a", "b"}
  Settings <- MCSettings
  HashModel = "hash"
  Work <- MCWork
  BatchSize = 2
  Retries = 1
  None = None
  Deployments = 2
  Calls = 3
SYMMETRY Interchangeable
CHECK_DEADLOCK FALSE
INVARIANTS
  EachItsOwn
  MixedOnlyUnderOneName
  VerdictsHold
