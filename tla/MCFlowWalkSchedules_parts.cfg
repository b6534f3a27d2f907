SPECIFICATION PartsSpec
CONSTANTS
  Nodes = {"T", "L1", "L2", "L3", "D", "W", "A"}
  Kind <- Kinds
  Outcomes = {"o"}
  MaxLoopNesting = 2
  Graphs <- AllGraphs
  MaxSteps = 26
  MaxLoopIterations = 2
  MaxItems = 3
  MaxReparks = 1
  f1 = f1
  Flows = {f1}
  daily = daily  weekly = weekly
  Unscheduled = Unscheduled
  Patterns = {daily, weekly}
  MaxTime = 1
  Asked <- AppOrAdmin
  MaxRequests = 3
  MaxLost = 1
  MaxCrashes = 1
INVARIANTS NoStructuralError FramesEnclose TraceWithinBudget StructuredNeverReenters OncePerDelivery
PROPERTIES EventuallySettled
CHECK_DEADLOCK FALSE
