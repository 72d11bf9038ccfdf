SPECIFICATION FlashSpec
CHECK_DEADLOCK FALSE
CONSTANTS
  Block <- MCBlock
  Payload = {"old", "new"}
  WLength <- MCWLength
  IapFault = {"prepare", "erase"}
  NImage = 17
  NUpload = 2
  Functions <- MCFunctions
  MaxFaults = 1
  MaxRuns = 1
  MaxLosses = 1
INVARIANT
  FlashTypeOK
PROPERTIES
  SuccessMeansUpdated
  CommandReports
