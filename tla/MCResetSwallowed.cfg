CONSTANTS
  Slots = 3
  MaxRequests = 1
  Requests = {"BTLE_PROMISC"}
SPECIFICATION ResetSpec
INVARIANTS SuccessMeansReset
CHECK_DEADLOCK FALSE
