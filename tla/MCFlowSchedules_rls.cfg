SPECIFICATION FairSpec
CONSTANTS
  f1 = f1
  Flows = {f1}
  daily = daily  weekly = weekly
  Unscheduled = Unscheduled
  Patterns = {daily, weekly}
  MaxTime = 1
  Asked <- AppFirst
  MaxRequests = 2
  MaxLost = 0
  MaxCrashes = 0
PROPERTIES EventuallyAligned
CHECK_DEADLOCK FALSE
