SPECIFICATION PartsSpec
CONSTANTS
  Hour = 4
  Lead = 1
  Gap = 1
  IdleAfter = 3
  EarlyIdle = 2
  EarlyHours = 2
  MaxTime = 9
  Backoff = FALSE
  Day = 2
  Days = 2
  RegimeChange = 2
  Threshold = 75
  Margin = 25
  MaxGap = 2
INVARIANTS
  TaughtByUse
  ActsOnEvidence
  LearnsWhatLasts
PROPERTIES
  NotWokenStraightBack
CHECK_DEADLOCK FALSE
