SPECIFICATION FairSpec
CONSTANTS
  r1 = r1  w1 = w1  w2 = w2
  NoRun = NoRun
  Runs = {r1}
  Workers = {w1, w2}
  Script <- ActAnchorAct
  MaxRunning = 1
  Asked <- AppFirst
  SlowNodes = FALSE
  MaxParks = 1
  MaxJobs = 1
  MaxCrashes = 1
PROPERTIES RunsFinish
CHECK_DEADLOCK FALSE
