SPECIFICATION ChatSpec
CONSTANTS
  c1 = c1
  c2 = c2
  Conn <- MCConn
  IdOf <- MCIdOf
  Handle = {h1, h2}
  Packet <- MCPacket
  Session = {1, 2}
  Sends <- Conversation
  None = None
  KeepAlive = {TRUE}
  NoBody = FALSE
  MaxIn = 1
  Window = 1
  MaxLogin = 2
SYMMETRY Symmetry
CHECK_DEADLOCK FALSE
INVARIANTS
  ChatTypeOK
  ReachesAll
  RelayReachesOwner
PROPERTY EntryStable
