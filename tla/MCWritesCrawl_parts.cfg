SPECIFICATION PartsSpec
CONSTANTS
  l1 = l1  l2 = l2  m1 = m1  m2 = m2  g1 = g1  q1 = q1  q2 = q2
  NoRow = NoRow
  Leaves = {l1, l2}
  Middles = {m1, m2}
  Roots = {g1}
  Requests = {q1, q2}
  MaxWrites = 3
  MaxThrows = 1
  a1 = a1  a2 = a2  c1 = c1  c2 = c2  x1 = x1
  Objects = {"account", "contact"}
  Records = {a1, a2, c1, c2, x1}
  Of <- Kinds
  Edges <- Lookups
  Graphs <- SmallGraphs
  RootIds = {a1}
  Cap = 2
  MaxRounds = 3
SYMMETRY Interchangeable
INVARIANTS SerialRollupsExact CountsItsOwnWrite OnlyTheSubtree WholeSubtree
PROPERTIES CapturedWithTheWrite
CHECK_DEADLOCK FALSE
