SPECIFICATION Spec
CONSTANTS
  ada = ada  bob = bob  sales = sales  q1 = q1  q2 = q2  none = none  some = some
  Members = {ada, bob}
  Founder = ada
  Customs = {sales}
  Requests = {q1, q2}
  Grants <- Stored
  Overrides = {none, some}
  NoOverrides = none
  TTL = 2
  MaxFill = 1
  MaxEdits = 2
SYMMETRY RequestSymmetry
INVARIANTS StaleOnlyByRace AssignedRolesExist
PROPERTIES GrantsAreRecent OwnersRemain
CHECK_DEADLOCK FALSE
