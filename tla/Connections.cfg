SPECIFICATION FairSpec
CONSTANTS
  a = a
  b = b
  s1 = s1
  w1 = w1
  MaxHeld = 2
  MaxHeldPerWorkload = 2
  MaxHeldPerSource = 2
  MaxHeldPerSourceWorkload = 2
  MaxProxied = 1
  MaxProxiedPerSource = 1
  SourceIdle = 0
  Chances = 1
PROPERTIES
  NoneLeftWaiting
