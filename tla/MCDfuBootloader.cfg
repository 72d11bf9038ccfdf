SPECIFICATION FairSpec
CONSTANTS
  Block <- MCBlock
  Payload = {img}
  WLength <- MCWLength
  IapFault = {"prepare", "erase", "copy"}
INVARIANTS
  TypeOK
  BootloaderIntact
  ErrorConsistent
PROPERTIES
  FlashChangesOpenSession
  DetachRunsApplication
  TimeoutRunsApplication
