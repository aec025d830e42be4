CONSTANTS
  Rates = {4, 8}
  Steps = {1, 3}
  MaxCycles = 7
  Etmu = {"etmu0"}
  Tmu = {"tmu0"}
  ClockOf <- Unclocked
  Prescalers = {0, 1}
  Counts = {0, 2}
  PeriodOf <- PeriodAt
  Pes = {0, 1, 2}
  DaySeconds = 1
  ClockSets <- DaySets
  Wide = 65536
  Unit = 8
  SleepTime <- HalfSecond
  SoftTime <- QuarterSecond
  TimerPeriod = 3
  Radix = 3
  Digits = 2
  Words <- DigitWords
  MaxChain = 2
  MaxOps <- OpsOf
  Boot = Boot
  pa = pa
  pb = pb
  pc = pc
  FlashCells <- AllCells
  Pages <- AllPages
  Sectors <- AllSectors
  Bits = {3, 7}
  StatusReads = 4
  Firmware = {Boot}
  Dump <- DumpImage
  Jobs <- AllJobs
  PollLimit = 5
  Loads = TRUE
  MaxJobs = 3
  MaxCalls = 3
SPECIFICATION PartsSpec
INVARIANTS PeriodicOnPhase ConversionsReported ChainExact FirmwareIntact JobsAsAsked
PROPERTIES DatesFollow ImplementsCounter LaunchLands
CHECK_DEADLOCK FALSE
