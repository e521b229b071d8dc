\* A status that is lost, and whoever else scales the target.
SPECIFICATION Spec
CONSTANTS
  NoPause = NoPause
  MaxReplicas = 2
  AutoMin = 0
  AutoMax = 2
  Keda = TRUE
  OwnHolds <- MaybeHeld
  MaxToken = 1
  Budget = 3
  Lag = FALSE
  Externals = {"pause", "wake", "scale", "lose", "crash", "ignore", "touch", "pods"}
INVARIANTS
  TypeOK
PROPERTIES
  KeepsContract
  RequestActsOnce
