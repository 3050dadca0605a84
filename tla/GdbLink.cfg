CONSTANTS
  Size = 4
  Base = 128
  W = 28
  ResetCpsr = 467
  Junk = {0}
  BigEndian = FALSE
  Sessions <- MCSessions
  Pc = {0, 4}
  MaxRun = 2
  ErrorSize = 2
  MaxDamage = 1
  MaxNoise = 2
SPECIFICATION FairSpec
INVARIANTS TypeOK SentAgainUnexecuted
PROPERTIES CallsOnce EveryCallReturns
