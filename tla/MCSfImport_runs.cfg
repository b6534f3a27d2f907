SPECIFICATION FairSpec
CONSTANTS
  a1 = a1  c1 = c1  c2 = c2  w1 = w1  w2 = w2
  NoId = NoId
  NoWorker = NoWorker
  Plans <- Order
  Records = {a1, c1, c2}
  Of <- Kinds
  Workers = {w1, w2}
  Graphs <- Lookups
  Limit = 1
  Batch = 1
  MaxStalls = 1
  MaxExecutes = 2
  MaxFaults = 1
  MaxEdits = 1
INVARIANTS CompletedIsWhole AloneUnlessStalled
PROPERTIES RunEnds
CHECK_DEADLOCK FALSE
