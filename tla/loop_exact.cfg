CONSTANTS
  Timers = {"keysc", "count"}
  PeriodOf <- Periods
  Delays = {1, 3}
  Masked = {"count"}
  IdleTime = 1
  KeyDelays = {2}
  Blits = {}
  MaxCycles = 5
  Never = 99
  StepSizes = {1, 5}
SPECIFICATION FairSpec
PROPERTIES ImplementsPolling
CHECK_DEADLOCK FALSE
