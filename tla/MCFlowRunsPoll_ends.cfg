SPECIFICATION PartsSpec
CONSTANTS
  r1 = r1  w1 = w1  w2 = w2
  NoRun = NoRun
  Runs = {r1}
  Workers = {w1, w2}
  Script <- ActAnchorAct
  MaxRunning = 1
  Asked <- AppOrAdmin
  SlowNodes = TRUE
  MaxParks = 1
  MaxJobs = 1
  MaxCrashes = 1
  x = x  y = y  z = z  p1 = p1
  Ids = {x, y, z}
  Pollers = {p1}
  Limit = 2
  Chunk = 1
  MaxChanges = 3
  MaxImports = 1
  MaxPollCrashes = 1
CONSTRAINT FourEvents
INVARIANTS CursorCovers AppliedIsRecomputed
PROPERTIES RunsEnd NeverBackwards ChangesArrive
CHECK_DEADLOCK FALSE
