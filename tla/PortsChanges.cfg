SPECIFICATION Spec
CONSTANTS
  a = a
  b = b
  k = k
  p1 = p1
  p2 = p2
  NoPort = NoPort
  NoOne = NoOne
  Workloads <- TwoWorkloads
  Keys <- OneKey
  Ports <- TwoPorts
  PortDrain = 2
  SliceSettle = 1
  Reload = 1
  MaxAge = 0
  Lag = {}
  Budget = 1
  Externals = {"delete", "plan", "touch", "up", "restart", "failStatus", "crash", "failSlice"}
SYMMETRY Alike
INVARIANTS
  NoMisdelivery
PROPERTIES
  PortsStay
