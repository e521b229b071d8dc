\* The parts of the operator that share no state, side by side.
SPECIFICATION PartsSpec
CONSTANTS
  NoPause = NoPause
  MaxReplicas = 2
  AutoMin = 0
  AutoMax = 1
  Keda = FALSE
  OwnHolds <- NotHeld
  MaxToken = 1
  Budget = 2
  Lag = TRUE
  IdleAfter = 3
  LongIdleAfter = 4
  StatusFlush = 1
  Share = 3
  EarlyAfter = 3
  HoldFor = 1
  SampleInterval = 2
  CostFlush = 2
  MaxInterval = 3
  Pricing = 3
  MonthStart = 3
  MaxTime = 4
  Chances = 1
  DryOthers = {"request", "restart", "stamp", "hold"}
  LiveOthers = {"restart", "stamp", "deploy"}
  EarlyOthers = {"restart", "forecast"}
  CostOthers = {"unread", "conflict", "list", "restart", "recreate"}
  Nodes = {"m", "n", "o"}
  PoolOf <- TwoPools
  Pods = {"x"}
  Asleep = {"v", "w"}
  Allocatable = 2
  MaxRequests = 3
  MaxAsleep = 2
  Externals = {"pause", "wake", "idle", "hold", "demand", "dryRun", "crash", "pods"}
INVARIANTS
  RecordKept
  HoursCountedOnce
  NeverCreditsRoom
PROPERTIES
  BroughtBack
  NeverPausedEarly
  GapTold
  WouldBePausesCounted
CHECK_DEADLOCK FALSE
