SPECIFICATION PartsSpec
CONSTANTS
  Keep = 4
  MaxTools = 1
  MaxTurns = 3
  MaxPages = 2
  MaxFaults = 1
  f1 = f1  f2 = f2  f3 = f3
  Keys = {f1, f2, f3}
INVARIANTS InStep DependenciesFirst ThrowsOnCycleOnly
PROPERTIES TurnsKept TurnsEnd Ends
CHECK_DEADLOCK FALSE
