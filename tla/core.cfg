SPECIFICATION Spec
CONSTANTS
  B = 2
  UtlbSize = 4
  PageBytes = 8
  Banked <- MCBanked
  Unbanked <- MCUnbanked
  SP = 5
  GeneralVector = 8
  MissVector = 16
  IrqVector = 32
  Sentinel = 60
  InjectBudget = 4
  Text <- MCText
  OsWork <- OsDoes
  Machines <- MCMachines
  DataPages <- MCDataPages
  SparePage = 120
  MovedPage = 112
  End <- MCEnd
  EnqueueAddr = 128
  EnqueueArg = 188
  MaxEvents <- MCMaxEvents
  Progress <- MCProgress
INVARIANTS OnTrack ResultsExact IncrementsCounted
PROPERTIES ReturnKept BreakExact Finishes
