SPECIFICATION Spec
CONSTANTS
  r1 = r1
  r2 = r2
  p1 = p1
  p2 = p2
  nopgid = nopgid
  NoPGID = nopgid
  Runs = {r1, r2}
  Roots = {"A"}
  Configs = {"c1"}
  PGIDs = {p1, p2}
  RootOf <- OneRoot
  ConfigOf <- SameConfig
  MaxGen = 1
SYMMETRY Symmetry
INVARIANT Anchored
PROPERTIES SignalsOwnGroup FenceSpec
