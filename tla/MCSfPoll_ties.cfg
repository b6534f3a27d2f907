SPECIFICATION PollSpec
CONSTANTS
  x = x  y = y  z = z  p1 = p1
  Ids = {x, y, z}
  Pollers = {p1}
  Limit = 2
  Chunk = 1
  MaxChanges = 3
  MaxImports = 0
  MaxPollCrashes = 0
INVARIANTS NewestApplied
