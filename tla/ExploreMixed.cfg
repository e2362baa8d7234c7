SPECIFICATION FairSpec
CONSTANTS
  CodeSize = 3
  SegSize = 3
  ParaSize = 1
  MemTotal = 64
  Programs <- MCPrograms
  Entry <- MCEntry
  StackSeg = 2
  SeedPoints <- MCNone
  SeedSegs <- MCNone
  SeedVars = {}
  MCKinds = {"op", "nop", "int", "ret", "jmp", "jcc", "call", "calli", "bad"}
  MCLens = {1, 2}
  MCSegs = {0}
INVARIANTS TypeOK QueueConsistent RollbackOwnsItsRange
PROPERTIES Terminates EveryCallTakesItsEntrypoint
CHECK_DEADLOCK FALSE
