SPECIFICATION Spec
CONSTANTS
  CodeSize = 3
  SegSize = 3
  ParaSize = 1
  MemTotal = 3
  Programs <- MCPrograms
  Entry <- MCEntry
  StackSeg = 1
  SeedPoints <- MCSeedPoints
  SeedSegs <- MCSeedSegs
  SeedVars = {1}
  MCKinds = {"op", "ret", "mov", "jcc", "callfar", "jmpfar", "bad"}
  MCLens = {1}
  MCSegs = {0, 1}
INVARIANTS RoutineSegmentsKnown
CHECK_DEADLOCK FALSE
