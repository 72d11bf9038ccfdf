SPECIFICATION FairToolSpec
CHECK_DEADLOCK FALSE
CONSTANTS
  Block <- MCBlock
  Payload = {"old", "new"}
  WLength <- MCWLength
  IapFault = {"prepare", "erase"}
  NImage = 17
  NUpload = 2
  Functions <- MCFunctions
  MaxFaults = 1
  MaxRuns = 2
  MaxLosses = 1
INVARIANTS
  ToolTypeOK
  QuietSuccessIsComplete
PROPERTIES
  WritesErasedBlocks
  ToolEnds
  ImplementsUpdate
