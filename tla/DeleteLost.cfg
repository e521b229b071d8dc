\* A ManagedWorkload deleted after its status was lost.
SPECIFICATION Spec
CONSTANTS
  NoPause = NoPause
  MaxReplicas = 2
  AutoMin = 0
  AutoMax = 2
  Keda = TRUE
  OwnHolds <- NotHeld
  MaxToken = 1
  Budget = 3
  Lag = FALSE
  Externals = {"pause", "lose", "delete"}
INVARIANTS
  HandedBackWhenGone
CHECK_DEADLOCK FALSE
