SPECIFICATION SpecM
CONSTANTS
  CodeSize = 3
  SegSize = 16
  ParaSize = 1
  MemTotal = 64
  Programs <- MCPrograms
  Entry <- MCEntryPastStart
  StackSeg = 2
  SeedPoints <- MCNone
  SeedSegs <- MCNone
  SeedVars = {}
  MCKinds = {"ret", "call", "op"}
  MCLens = {1}
  MCSegs = {1}
INVARIANTS MainBlockExists
CHECK_DEADLOCK FALSE
