SPECIFICATION Spec
CHECK_DEADLOCK FALSE
CONSTANTS
  LE_BUFFER_POOL_SIZE = 2
  FIFOSIZE = 3
  Wrap = 2
  MaxQuiet = 1
  MayStop = TRUE
  Atomic = TRUE
INVARIANTS
  LeTypeOK
  OneOwner
  NoneLost
  InStep
PROPERTIES
  UpdateAtInstant
  ComesToListen
  GivesUp
