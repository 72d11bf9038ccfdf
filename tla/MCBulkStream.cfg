SPECIFICATION Spec
CHECK_DEADLOCK FALSE
CONSTANTS
  FIFO_SIZE = 3
  Streams = 2
  MaxSent = 3
INVARIANTS
  StreamTypeOK
  ProcessesAccepted
PROPERTIES
  AcceptedIsProcessed
  SignalEnds
