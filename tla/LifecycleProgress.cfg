\* What must happen in the end, whoever else acts on the two objects.
SPECIFICATION FairSpec
CONSTANTS
  NoPause = NoPause
  MaxReplicas = 1
  AutoMin = 0
  AutoMax = 1
  Keda = TRUE
  OwnHolds <- NotHeld
  MaxToken = 1
  Budget = 3
  Lag = FALSE
  Externals = {"pause", "wake", "activity", "scale", "recreate", "delete", "fail", "dryRun", "ignore", "drain"}
INVARIANTS
  HandedBackWhenGone
  HoldRecorded
PROPERTIES
  NeverScalesDownAwake
  RequestsAreAnswered
  WakesWhenAsked
  NeverStrandedMidway
  NeverLeftOff
  DeletionCompletes
CHECK_DEADLOCK FALSE
