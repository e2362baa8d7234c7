SPECIFICATION Spec
CONSTANTS
  CodeSize = 4
  SegSize = 8
  SegReach = 8
  ParaSize = 2
  MemTotal = 64
  Loads = {0, 6}
  Sizes = {3, 4}
  SegLines <- MCSegLines
  RoutineLines <- MCRoutineLines
  Offsets = {0, 1, 2}
  LinkSegs <- MCLinkSegs
  IdaBases <- MCIdaBases
  MaxSegs = 2
  MaxRoutines = 2
  MaxVars = 1
INVARIANTS ClaimPartition ExtentsAreMainRun RoundTrip SummaryAddsUp IdaSegmentsApart
CHECK_DEADLOCK FALSE
