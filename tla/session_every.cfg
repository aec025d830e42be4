CONSTANTS
  Dumps = {"a", "b"}
  Lists <- SomeLists
  Codes = {5}
  Setups <- SomeSetups
  MaxStops = 1
  MaxHits = 1
SPECIFICATION FairSpec
INVARIANT EveryChangeApplied
CHECK_DEADLOCK FALSE
