SPECIFICATION Spec
CHECK_DEADLOCK FALSE
CONSTANTS
  Process = {p1, p2}
  Limit = 2
  Window = 3
  MaxTx = 1
  MaxTime = 4
  MaxRuns = 3
  MaxKills = 1
SYMMETRY Symmetry
INVARIANTS
  DutyTypeOK
  RollingBound
  NoRefusalAfterRest
PROPERTY RefusedOverLimit
