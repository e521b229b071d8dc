\* A cache that still shows a workload Pausing once it was woken by a scale-up.
SPECIFICATION Spec
CONSTANTS
  NoPause = NoPause
  MaxReplicas = 2
  AutoMin = 0
  AutoMax = 2
  Keda = FALSE
  OwnHolds <- NotHeld
  MaxToken = 1
  Budget = 3
  Lag = TRUE
  Externals = {"pause", "scale"}
PROPERTIES
  NeverScalesDownAwake
CHECK_DEADLOCK FALSE
