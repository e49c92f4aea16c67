SPECIFICATION FairSpec
CONSTANTS
  Tasks = {t1, t2}
  Root = t1
  Postures = {"deny", "simulate"}
  KillOn = {"egress_violation"}
  L2Modes = {"off", "window", "seek"}
CHECK_DEADLOCK FALSE
INVARIANTS NoEgress Quiet
PROPERTIES Answered EndsWithSpecimen
