SPECIFICATION Spec
CONSTANTS
  Conn = {c1, c2, c3}
  Handle = {h1, h2}
  Packet = {p1}
  None = None
  KeepAlive = {TRUE}
  NoBody = FALSE
  MaxIn = 1
  Window = 1
SYMMETRY Symmetry
INVARIANTS
  TypeOK
  SocketOwned
  ServingIsListed
  StrayOnlyFromDeparted
