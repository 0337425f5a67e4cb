SPECIFICATION FairSpec
CONSTANTS
  Conn = {c1, c2, c3}
  Sink = {"console", "file", "other"}
CHECK_DEADLOCK FALSE
INVARIANTS
  ServerAppTypeOK
  EndsClean
  HandlersSeeProvider
PROPERTIES
  TerminationEnds
  HalfStartedEnds
