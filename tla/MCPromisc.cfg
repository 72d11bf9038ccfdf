CONSTANTS
  Slots = 3
  MaxRequests = 1
  Requests = {"BTLE_PROMISC"}
SPECIFICATION Spec
PROPERTIES Follows
CHECK_DEADLOCK FALSE
