SPECIFICATION Spec
CONSTANTS
  Docs = {d1, d2}
  Chunks = {k1, k2, k3, k4}
  Jobs = {j1, j2}
  Profiles = {pA}
  pA = pA
  pB = pB
  pC = pC
  pG = pG
  Dimension <- Lengths
  Model <- Names
  First = pA
  Attempts = 2
  Kinds = {"ingest", "rebuild", "rechunk", "delete"}
  NoDoc = NoDoc
  NoProfile = NoProfile
  NoDim = NoDim
INVARIANTS
  StoreMatchesRows
  ProcessingIsOwned
SYMMETRY Interchangeable
CHECK_DEADLOCK FALSE
