SPECIFICATION SpecM
CONSTANTS
  CodeSize = 4
  SegSize = 2
  ParaSize = 1
  MemTotal = 64
  Programs <- MCPrograms
  Entry <- MCEntry
  StackSeg = 2
  SeedPoints <- MCNone
  SeedSegs <- MCNone
  SeedVars = {}
  MCKinds = {"op", "ret", "jmp", "jcc", "callfar"}
  MCLens = {1, 2}
  MCSegs = {0, 1, 2}
INVARIANTS MapTypeOK BlocksMatchOwners MainBlockExists UnreachableIsSurrounded MapFailsOnlyOnStraddle
CHECK_DEADLOCK FALSE
