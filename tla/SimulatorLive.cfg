CONSTANTS
  Pc = {0, 4}
  MemSize = 8
  Cpsr = {467}
  ResetCpsr = 467
  QueueBound = 1
  CmdBudget = 2
  IrqBudget = 1
SPECIFICATION BreakSpec
PROPERTIES GdbAnswers IrqReceived SessionEnds
