SPECIFICATION SpecH
CONSTANTS
  CodeSize = 4
  SegSize = 16
  ParaSize = 1
  MemTotal = 64
  Programs <- MCPrograms
  Entry <- MCEntry
  StackSeg = 2
  SeedPoints <- MCNone
  SeedSegs <- MCNone
  SeedVars = {}
  MCKinds = {"op", "ret", "call", "jcc"}
  MCLens = {1}
  MCSegs = {0}
INVARIANTS ScannedBytesAttributed
CHECK_DEADLOCK FALSE
