SPECIFICATION Spec
CONSTANTS
  a = a  b = b  e1 = e1
  Editors = {e1}
  Fields = {a, b}
  Refs = {a}
  Attempts = 2
  MaxEdits = 2
  MaxSfEdits = 1
  MaxFailures = 1
  MaxTwins = 1
INVARIANTS UnsentIsDirty AgreeAtRest CreatedPerFailure
CONSTRAINT ThreeEvents
CHECK_DEADLOCK FALSE
