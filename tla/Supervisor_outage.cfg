SPECIFICATION FairSpec
CONSTANTS
  Runs = {r1}
  MaxRestarts = 3
  MaxGen = 2
CHECK_DEADLOCK FALSE
PROPERTIES LaunchFailsClosed OutageNoticed Settles StopEnds
