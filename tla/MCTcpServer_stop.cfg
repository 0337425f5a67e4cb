SPECIFICATION FairSpec
CONSTANTS
  Conn = {c1, c2}
  Handle = {h1}
  Packet = {p1}
  None = None
  KeepAlive = {TRUE, FALSE}
  NoBody = TRUE
  MaxIn = 1
  Window = 1
INVARIANTS
  StopClean
PROPERTY StopTerminates
