SPECIFICATION SpecH
CONSTANTS
  CodeSize = 4
  SegSize = 16
  ParaSize = 1
  MemTotal = 64
  Programs <- MCPrograms
  Entry <- MCEntry
  StackSeg = 2
  SeedPoints <- MCNone
  SeedSegs <- MCNone
  SeedVars = {}
  MCKinds = {"op", "nop", "ret", "jmp", "jcc", "call", "trap", "bad"}
  MCLens = {1, 2}
  MCSegs = {0}
INVARIANTS OwnedBytesAreCode ExploredAll EntrypointsKept
PROPERTIES ImplementsReach
CHECK_DEADLOCK FALSE
