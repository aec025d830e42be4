CONSTANTS
  PanelW = 3
  PanelH = 2
  Colours = {"black", "white"}
  Black = "black"
  Blank = "white"
  MemSize = 8
  UnitSizes = {1, 2}
  NoCount = 3
  Cap = 5
  Lights = {TRUE, FALSE}
  OsW = 2
  OsH = 2
  OsOrigin = 2
  MaxOps <- OpsOf
  Memories <- SomeMemories
  Transfers <- SomeTransfers
SPECIFICATION Spec
INVARIANTS RasterOrder PageCurrent
PROPERTIES SwitchQuiet
CHECK_DEADLOCK FALSE
