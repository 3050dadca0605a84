CONSTANTS
  Size = 8
  Base = 4
  W = 8
  ByteMod = 64
  ResetCpsr = 3
  Junk = {0, 7, 255}
  Instructions <- AluInstructions
  Registers0 <- AluRegisters
  Contents0 <- AluContents
  MaxSteps = 1
SPECIFICATION Spec
CHECK_DEADLOCK FALSE
PROPERTY FailedConditionSkips
