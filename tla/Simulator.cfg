CONSTANTS
  Pc = {0, 4, 8}
  MemSize = 8
  Cpsr = {467, 16}
  ResetCpsr = 467
  QueueBound = 1
  CmdBudget = 2
  IrqBudget = 2
SPECIFICATION Spec
INVARIANTS TypeOK MutualExclusion TraceBalanced ReplyIsCurrent StopsAtBreakpoint FreedAfterSession
PROPERTY NoInterference
