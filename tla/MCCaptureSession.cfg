SPECIFICATION Spec
CHECK_DEADLOCK FALSE
CONSTANTS
  Call = {c1, c2, c3}
  maxRetries = 2
INVARIANTS
  CaptureTypeOK
  OneCapture
PROPERTIES
  TimedCaptureSettles
  ImplementsSessions
