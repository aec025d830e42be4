CONSTANTS
  Calls = {"again"}
  KindOf <- NamedKinds
  DiskFills = FALSE
  MaxCalls = 1
  MaxMachines = 2
  MaxWork = 1
  MaxSaves = 0
  MaxCrashes = 0
SPECIFICATION StudioSpec
CONSTRAINT OneByOne
PROPERTIES ResumesWhereLeft
CHECK_DEADLOCK FALSE
