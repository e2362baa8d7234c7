SPECIFICATION Spec
CONSTANTS
  CodeSize = 3
  SegSize = 16
  ParaSize = 1
  MemTotal = 64
  Programs <- MCPrograms
  Entry <- MCEntry
  StackSeg = 2
  SeedPoints <- MCNone
  SeedSegs <- MCNone
  SeedVars = {}
  MCKinds = {"ret", "call", "callfar"}
  MCLens = {1}
  MCSegs = {0}
PROPERTIES CallRecordsNearness
CHECK_DEADLOCK FALSE
