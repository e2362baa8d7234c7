SPECIFICATION Spec
CONSTANTS
  CodeSize = 6
  SegSize = 16
  ParaSize = 4
  MemTotal = 64
  WordSize = 4
  Programs <- MCPrograms
  RefMaps <- MCMaps
  Options <- MCOptions
INVARIANTS CompareTypeOK CodeOneToOne DataBounded StackOfRoutine JumpsFollowMap MissedAreQueued QueuedCompared BlocksCompared
PROPERTIES CodeMapStable
