CONSTANTS
  Slots = 2
  MaxRequests = 2
  Requests = {"STOP", "RX_SYMBOLS", "AFH", "BTLE_SNIFFING", "BTLE_PROMISC", "BTLE_SLAVE", "SPECAN", "RX_GENERIC", "TX_GENERIC_PACKET", "SET_ACCESS_ADDRESS", "POLL"}
SPECIFICATION ResetSpec
INVARIANTS FwTypeOK InOrder LossFlagged WholePackets
PROPERTIES StopObeyed ResetObeyed
CHECK_DEADLOCK FALSE
