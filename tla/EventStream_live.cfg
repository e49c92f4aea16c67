SPECIFICATION StreamFairSpec
CONSTANTS
  Runs = {r1}
  Traced = {r1}
  MaxConcurrent = 1
  MaxLog = 3
  MaxRestarts = 1
  Page = 2
CHECK_DEADLOCK FALSE
INVARIANT IndexComplete
PROPERTIES FeedSpec SlotsReturn DeadReported StreamEnds
