SPECIFICATION Spec
CONSTANTS
  r1 = r1  w1 = w1  w2 = w2
  NoRun = NoRun
  Runs = {r1}
  Workers = {w1, w2}
  Script <- ActAnchorAct
  MaxRunning = 1
  Asked <- AdminOnly
  SlowNodes = TRUE
  MaxParks = 2
  MaxJobs = 1
  MaxCrashes = 1
INVARIANTS SingleDriver AtMostOnce CompletedRanEverything TokenJobsAreDue
PROPERTIES ImplementsLifecycle
SYMMETRY Slots
CHECK_DEADLOCK FALSE
