CONSTANTS
  Timers = {"keysc", "count"}
  PeriodOf <- Periods
  Delays = {1, 3}
  Masked = {"count"}
  IdleTime = 1
  KeyDelays = {2}
  Blits = {3}
  MaxCycles = 5
  Never = 99
  StepSizes = {1, 5}
  Sources = {1, 2, 3}
  Fields = {1, 2}
  FieldOf <- FieldOfEach
  LevelOf <- OsFixed
  Priorities = {1, 2}
  Worlds = {"os", "gint"}
  Own <- OwnOfEach
  FirstWorld = "gint"
  MultiLevel = {"gint"}
  Masks = {0}
  MaxOpen = 2
SPECIFICATION PartsFairSpec
INVARIANTS WorldIsolation NestingByLevel
PROPERTIES ImplementsLatePolling StepReturns RequestKept RequestWakes
CHECK_DEADLOCK FALSE
