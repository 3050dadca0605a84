CONSTANTS
  Pc = {0, 4}
  MemSize = 8
  Cpsr = {467, 16}
  ResetCpsr = 467
  QueueBound = 1
  CmdBudget = 1
  IrqBudget = 1
SPECIFICATION FairSpec
PROPERTY IrqReceived
