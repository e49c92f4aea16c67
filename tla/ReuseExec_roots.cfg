SPECIFICATION Spec
CONSTANTS
  r1 = r1
  r2 = r2
  p1 = p1
  p2 = p2
  nopgid = nopgid
  NoPGID = nopgid
  Runs = {r1, r2}
  Roots = {"A", "B"}
  Configs = {"c1", "c2"}
  PGIDs = {p1}
  RootOf <- TwoRoots
  ConfigOf <- TwoConfigs
  MaxGen = 2
PROPERTY ChangeRefusedWhileLive
