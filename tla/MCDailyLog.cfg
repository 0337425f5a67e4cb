SPECIFICATION FairSpec
CONSTANTS
  t1 = t1
  t2 = t2
  Thread <- MCThread
  NoThread = NoThread
  Logged = {1}
  Faults = {"open", "write", "flush"}
  OpenTries = 2
  DayLen = 2
  RotationAt = 1
  MaxTime = 4
  MaxMsgs <- MCMaxMsgs
  MaxLag = 1
CHECK_DEADLOCK FALSE
INVARIANTS
  DailyTypeOK
  ReturnedIsDurable
  FileNearDate
  NullOnlyOvertaken
PROPERTY LogReturns
