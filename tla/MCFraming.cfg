SPECIFICATION FairSpec
CONSTANTS
  Sender = {s1, s2}
  Command = {15, 16}
  BodyLen = {0, 2}
  Huge = 4
  Garbage = {0, 3, 4}
  Side = {"server", "client"}
  Window = 4
  MaxPackets = 2
CHECK_DEADLOCK FALSE
INVARIANTS
  FramingTypeOK
  DispatchedIsSent
  HeaderSafe
PROPERTIES
  ReceiverEnds
  ImplementsChannel
