SPECIFICATION Spec
CONSTANTS
  CodeSize = 3
  SegSize = 2
  ParaSize = 1
  MemTotal = 3
  Programs <- MCPrograms
  Entry <- MCEntry
  StackSeg = 2
  SeedPoints <- MCNone
  SeedSegs <- MCNone
  SeedVars = {}
  MCKinds = {"op", "ret", "jmpfar"}
  MCLens = {1}
  MCSegs = {0, 1}
PROPERTIES FarJumpsTraced
CHECK_DEADLOCK FALSE
