SPECIFICATION Spec
CHECK_DEADLOCK FALSE
CONSTANTS
  Call = {c1, c2}
  maxRetries = 1
PROPERTY BusyMeansRunning
