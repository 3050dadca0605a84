CONSTANTS
  Size = 8
  Base = 4
  W = 8
  ByteMod = 64
  ResetCpsr = 3
  Junk = {0, 7, 255}
  Instructions <- TransferInstructions
  Registers0 <- TransferRegisters
  Contents0 <- MCContents
  MaxSteps = 3
SPECIFICATION Spec
CHECK_DEADLOCK FALSE
PROPERTIES RegisterFrame RaisesArePrecise StoresOnly BranchesReturn AssertionsByList
