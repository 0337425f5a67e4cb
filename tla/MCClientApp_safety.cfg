SPECIFICATION AppSpec
CONSTANTS
  Packet <- MCPacket
  Request <- MCRequest
  Session <- MCSession
  None = None
  Torn = Torn
  Resolve = {TRUE, FALSE}
  Garbage = {"small", "huge"}
  Window = 1
  MaxLogin = 2
CHECK_DEADLOCK FALSE
INVARIANTS
  AppTypeOK
  ThreadOwned
  ConnectedSocket
  WayOut
  ConnectionButtons
  WindowFollowsServer
  SessionCarried
  StaleOnlyIfConnected
PROPERTIES
  SocketNotReplaced
  ImplementsTcpClient
