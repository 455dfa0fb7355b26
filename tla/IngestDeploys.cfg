SPECIFICATION Spec
CONSTANTS
  Docs = {d1, d2}
  Chunks = {k1, k2, k3}
  Jobs = {j1}
  Profiles = {pA, pB, pC, pG}
  pA = pA
  pB = pB
  pC = pC
  pG = pG
  Dimension <- Lengths
  Model <- Names
  First = pA
  Attempts = 2
  Kinds = {"ingest", "rebuild", "rechunk", "delete"}
  NoDoc = NoDoc
  NoProfile = NoProfile
  NoDim = NoDim
INVARIANTS
  ServedWhole
SYMMETRY Interchangeable
CHECK_DEADLOCK FALSE
