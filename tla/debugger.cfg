CONSTANTS
  Nowhere = Nowhere
  OsReturn = OsReturn
  Code <- SomeCode
  IrqEntry = 15
  ExcEntry = 20
  HlePC = 24
  Syscall = 28
  MaxFrames = 2
  Setups <- SomeSetups
  Routines <- TwoRoutines
  Bus <- SomeBus
  PageSize = 2
  HandlerRoom = 2
  TraceRoom = 1
  HitCap = 2
  MaxIrqs = 1
  CallBudget = 6
SPECIFICATION FairSpec
PROPERTIES StopsBefore StopsAfter StepLands HostCallsUnseen StepsEnd
CHECK_DEADLOCK FALSE
