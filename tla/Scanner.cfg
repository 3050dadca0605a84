CONSTANTS
  Inputs <- MCInputs
  BufSize = 2
  ReadSize = 3
SPECIFICATION Spec
INVARIANTS TypeOK WaitsOnlyInsidePacket BufferFits
PROPERTIES CutsByRules EndIsMet
