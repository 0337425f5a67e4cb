SPECIFICATION AppFairSpec
CONSTANTS
  Packet <- MCPacket
  Request <- MCRequest
  Session <- MCSession
  None = None
  Torn = Torn
  Resolve = {TRUE, FALSE}
  Garbage = {"small", "huge"}
  Window = 1
  MaxLogin = 1
CHECK_DEADLOCK FALSE
PROPERTIES
  HangOnlyInOutput
  SendHangOnlyInRing
