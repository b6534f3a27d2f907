SPECIFICATION Spec
CONSTANTS
  x = x  y = y  z = z
  Rows = {x, y, z}
  Page = 2
  Attempts = 2
  MaxTime = 3
  MaxBulk = 1
  MaxSaves = 1
  MaxWrites = 1
  MaxDeletes = 1
  MaxFailures = 1
SYMMETRY Interchangeable
INVARIANTS AllComputed
PROPERTIES PagesEveryRecord StaysDeleted
CHECK_DEADLOCK FALSE
