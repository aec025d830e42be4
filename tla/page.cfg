CONSTANTS
  Dumps = {"a", "b"}
  Lists <- SomeLists
  Codes = {5}
  Setups <- SomeSetups
  MaxStops = 1
  MaxHits = 1
  ac = ac
  exe = exe
  Keys = {ac, exe}
  OnKey = ac
  Periods = {1, 2}
  Configs <- OffAndOn
  IsrLatency = 0
  MaxCycles = 54
  Quiet = 51
  MaxMoves = 4
  pointer = pointer
  keyboard = keyboard
  Sources = {pointer}
  TapKeys = {exe}
  Resets = {"release", "resume"}
  StepCycles = {1}
SPECIFICATION PartsFairSpec
INVARIANTS ListApplied NoStuckKey
PROPERTIES HitsSurvive StopsShown QueuesDrain
CHECK_DEADLOCK FALSE
