CONSTANTS
  Rates = {4, 8}
  Steps = {1, 3}
  MaxCycles = 7
  Etmu = {"etmu0"}
  Tmu = {"tmu0"}
  ClockOf <- Unclocked
  Prescalers = {0, 1}
  Counts = {0, 2}
  PeriodOf <- PeriodAt
  Pes = {0, 1, 2}
  DaySeconds = 1
  ClockSets <- DaySets
  Wide = 65536
  Unit = 8
  SleepTime <- HalfSecond
  SoftTime <- QuarterSecond
  TimerPeriod = 3
  Radix = 3
  Digits = 2
  Words <- DigitWords
  MaxChain = 2
  MaxOps <- OpsOf
SPECIFICATION Spec
PROPERTIES RestartKeepsCount
CHECK_DEADLOCK FALSE
