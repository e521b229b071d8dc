\* A cache that still shows a resume's copy as the next pause is written.
SPECIFICATION Spec
CONSTANTS
  NoPause = NoPause
  MaxReplicas = 2
  AutoMin = 0
  AutoMax = 2
  Keda = FALSE
  OwnHolds <- NotHeld
  MaxToken = 2
  Budget = 3
  Lag = FALSE
  Externals = {"pause", "wake"}
INVARIANTS
  CopyWritten
CHECK_DEADLOCK FALSE
