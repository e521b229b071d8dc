SPECIFICATION PartsSpec
CONSTANTS
  a = a
  b = b
  r1 = r1
  r2 = r2
  s1 = s1
  s2 = s2
  NoConn = NoConn
  Conns <- TwoConns
  Replicas = {r1, r2}
  Sources = {s1, s2}
  ReplicaOf <- Apart
  SourceOf <- Different
  Asks = FALSE
  StampAttempts = 3
  StampInterval = 1
  ClickInterval = 2
  SourceBurst = 1
  Burst = 1
  MaxTime = 1
  Budget = 1
  Externals = {"fail", "unheard", "portal", "restart"}
  TTL = 2
  Skew = 1
  Refresh = 1
  KeyTime = 6
  KeyFaults = 1
  MaxPause = 2
  MaxAway = 1
  MaxFails = 1
  w1 = w1
  NoPort = NoPort
  NoOne = NoOne
  Origins = {s1}
  OriginOf <- OneSource
  Targets = {w1}
  TargetOf <- OneWorkload
  MaxHeld = 2
  MaxHeldPerWorkload = 2
  MaxHeldPerSource = 2
  MaxHeldPerSourceWorkload = 2
  MaxProxied = 1
  MaxProxiedPerSource = 1
  MaxBuffered = 1
  MaxBufferedPerConn = 1
  SourceIdle = 0
  MaxHours = 1
  Chances = 0
  Backends = {x1, x2}
  Services = {k}
  Ports = {p1}
  PortDrain = 2
  SliceSettle = 1
  Reload = 1
  MaxAge = 0
  Lag = {"slices"}
  RoutingBudget = 1
  RoutingExternals = {"crash", "failSlice"}
INVARIANTS
  WakeOnItsWay
  AnnouncedOnce
  ClicksWork
  EachCountedOnce
  PlacesReturned
  NoMisdelivery
  NothingLeftBehind
CHECK_DEADLOCK FALSE
