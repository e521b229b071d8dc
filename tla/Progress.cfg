SPECIFICATION FairSpec
CONSTANTS
  a = a
  b = b
  c = c
  r1 = r1
  s1 = s1
  s2 = s2
  NoConn = NoConn
  NoMW = NoMW
  NoList = NoList
  Unread = Unread
  StampAttempts = 3
  StampInterval = 1
  ClickInterval = 2
  SourceBurst = 1
  MaxTime = 1
INVARIANTS
  InheritingMakesNoCycle
  NeededIsWoken
  RefusedForItself
PROPERTIES
  OptInSettles
  RequestsEnd
  WorkloadsMoveOn
CHECK_DEADLOCK FALSE
