SPECIFICATION Spec
CHECK_DEADLOCK FALSE
CONSTANTS
  LE_BUFFER_POOL_SIZE = 3
  FIFOSIZE = 4
  Wrap = 2
  MaxQuiet = 0
  MayStop = FALSE
  Atomic = FALSE
PROPERTIES
  RestartsRx
