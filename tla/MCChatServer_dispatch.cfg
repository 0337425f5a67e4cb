SPECIFICATION ChatFairSpec
CONSTANTS
  c1 = c1
  c2 = c2
  Conn <- MCConn
  IdOf <- MCIdOf
  Handle = {h1, h2}
  Packet <- MCPacket
  Session = {1}
  Sends <- Chatter
  None = None
  KeepAlive = {TRUE}
  NoBody = FALSE
  MaxIn = 1
  Window = 1
  MaxLogin = 1
CHECK_DEADLOCK FALSE
PROPERTIES
  DispatchTerminates
  ImplementsTcpServer
