CONSTANTS
  Calls = {"restart", "quit", "forget", "again"}
  KindOf <- NamedKinds
  DiskFills = TRUE
  MaxCalls = 2
  MaxMachines = 3
  MaxWork = 0
  MaxSaves = 1
  MaxCrashes = 1
  ac = ac
  exe = exe
  Keys = {ac, exe}
  OnKey = ac
  Periods = {2}
  Configs = {}
  IsrLatency = 1
  MaxCycles = 46
  Quiet = 36
  MaxMoves = 6
  pointer = pointer
  keyboard = keyboard
  Sources = {pointer}
  TapKeys = {}
  Resets = {}
  StepCycles = {1}
SPECIFICATION PartsFairSpec
INVARIANTS ClosedOnce SessionIntact
PROPERTIES CallsEnd ForgetDrops OneAtATime EveryPressRead ViewConverges
CHECK_DEADLOCK FALSE
