SPECIFICATION ThreadFairSpec
CONSTANTS
  Conn = {c1}
  Handle = {h1}
  Packet = {p1}
  None = None
  KeepAlive = {TRUE}
  NoBody = TRUE
  MaxIn = 1
  Window = 1
PROPERTY RecvReturns
