SPECIFICATION Spec
CONSTANTS
  RefSizes = {1, 5}
  TgtSizes = {3}
  ByteBase = 2
  ParaSize = 1
  SegSize = 3
  SegLists <- MCSegLists
  TgtSegs <- MCTgtSegs
  VarLists <- MCVarLists
INVARIANTS EndsAtNextSegment
CHECK_DEADLOCK FALSE
