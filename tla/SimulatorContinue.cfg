CONSTANTS
  Pc = {0, 4, 8}
  MemSize = 8
  Cpsr = {467, 16}
  ResetCpsr = 467
  QueueBound = 1
  CmdBudget = 2
  IrqBudget = 1
SPECIFICATION Spec
INVARIANT ContinueWaits
